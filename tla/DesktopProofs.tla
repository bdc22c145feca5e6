---------------------------- MODULE DesktopProofs ----------------------------
(* Proofs about Windows.tla, SessionLock.tla and Desktop.tla for any windows,  *)
(* spaces, outputs, clients, zones, scripts and bounds: the windows in their   *)
(* stacks, the keyboard under a session lock, focus that goes round, and a     *)
(* configuration that never makes the display panic.                           *)
EXTENDS Desktop, SessionLock, FiniteSetTheorems, SequenceTheorems, WellFoundedInduction, TLAPS

-----------------------------------------------------------------------------
(* Sequences *)

LEMMA TailFacts ==
  ASSUME NEW M, NEW s \in Seq(M), s # <<>>
  PROVE  /\ Len(s) \in Nat /\ Len(s) >= 1
         /\ Head(s) = s[1] /\ Head(s) \in M
         /\ Tail(s) \in Seq(M)
         /\ Len(Tail(s)) = Len(s) - 1
         /\ \A i \in 1 .. Len(Tail(s)) : Tail(s)[i] = s[i + 1]
OBVIOUS

LEMMA AppendFacts ==
  ASSUME NEW M, NEW s \in Seq(M), NEW m \in M
  PROVE  /\ Append(s, m) \in Seq(M)
         /\ Len(s) \in Nat /\ Len(Append(s, m)) = Len(s) + 1
         /\ \A i \in 1 .. Len(s) : Append(s, m)[i] = s[i]
         /\ Append(s, m)[Len(s) + 1] = m
OBVIOUS

LEMMA ConcatFacts ==
  ASSUME NEW M, NEW s \in Seq(M), NEW t \in Seq(M)
  PROVE  /\ s \o t \in Seq(M)
         /\ Len(s) \in Nat /\ Len(t) \in Nat /\ Len(s \o t) = Len(s) + Len(t)
         /\ \A i \in 1 .. Len(s) : (s \o t)[i] = s[i]
         /\ \A i \in 1 .. Len(t) : (s \o t)[Len(s) + i] = t[i]
OBVIOUS

LEMMA SeqFacts ==
  ASSUME NEW M, NEW s \in Seq(M)
  PROVE  Len(s) \in Nat /\ DOMAIN s = 1 .. Len(s) /\ \A i \in 1 .. Len(s) : s[i] \in M
OBVIOUS

-----------------------------------------------------------------------------
(* Numbers *)

\* A set of numbers has a least one, and a bounded one a greatest.
LEMMA Least ==
  ASSUME NEW T, T \subseteq Nat, T # {}
  PROVE  \E n \in T : \A m \in T : n <= m
<1> DEFINE R == {ss \in Nat \X Nat : ss[1] < ss[2]}
<1>1. IsWellFoundedOn(R, Nat)
  BY NatLessThanWellFounded DEF OpToRel
<1>2. \A m, n \in Nat : <<m, n>> \in R <=> m < n
  OBVIOUS
<1> HIDE DEF R
<1>3. PICK n \in T : \A m \in T : ~(<<m, n>> \in R)
  BY <1>1, WFMin
<1>4. \A m \in T : m \in Nat /\ n \in Nat
  OBVIOUS
<1>5. \A m \in T : ~(m < n)
  BY <1>2, <1>3, <1>4
<1> QED
  BY <1>4, <1>5

LEMMA Greatest ==
  ASSUME NEW b \in Nat, NEW T, T \subseteq 1 .. b, T # {}
  PROVE  \E n \in T : \A m \in T : n >= m
<1> DEFINE U == {b - n : n \in T}
<1>1. \A n \in T : n \in Nat /\ b - n \in Nat
  OBVIOUS
<1>0. U \subseteq Nat /\ U # {}
  BY <1>1
<1>2. PICK u \in U : \A v \in U : u <= v
  BY <1>0, Least
<1>3. PICK n \in T : u = b - n
  OBVIOUS
<1>4. \A m \in T : b - n <= b - m
  BY <1>2, <1>3
<1>5. \A m \in T : n >= m
  BY <1>1, <1>4
<1> QED
  BY <1>5

\* What holds of 0 and, when it holds of a number, of the next, holds of all.
LEMMA Induction ==
  ASSUME NEW T, 0 \in T, \A n \in Nat : n \in T => n + 1 \in T
  PROVE  Nat \subseteq T
<1> SUFFICES ASSUME Nat \ T # {} PROVE FALSE
  OBVIOUS
<1>1. PICK n \in Nat \ T : \A m \in Nat \ T : n <= m
  BY Least
<1>2. n - 1 \in Nat /\ n - 1 \in T
  BY <1>1
<1> QED
  BY <1>1, <1>2

\* A function can be applied again and again.
Iterates(g, F, x) == g[0] = x /\ \A n \in Nat : g[n + 1] = F[g[n]]

LEMMA Iteration ==
  ASSUME NEW X, NEW F \in [X -> X], NEW x \in X
  PROVE  \E g \in [Nat -> X] : Iterates(g, F, x)
<1> DEFINE Upto(n) == {h \in [0 .. n -> X] : h[0] = x /\ \A i \in Nat : i < n => h[i + 1] = F[h[i]]}
<1>1. \A n \in Nat : Upto(n) # {}
  <2> DEFINE T == {n \in Nat : Upto(n) # {}}
  <2>1. 0 \in T
    <3>1. [i \in 0 .. 0 |-> x] \in Upto(0)
      OBVIOUS
    <3> QED
      BY <3>1
  <2>2. ASSUME NEW n \in Nat, n \in T PROVE n + 1 \in T
    <3>1. PICK h \in Upto(n) : TRUE
      BY <2>2
    <3> DEFINE k == [i \in 0 .. n + 1 |-> IF i = n + 1 THEN F[h[n]] ELSE h[i]]
    <3>2. h \in [0 .. n -> X] /\ h[0] = x /\ \A i \in Nat : i < n => h[i + 1] = F[h[i]]
      BY <3>1
    <3>3. k \in [0 .. n + 1 -> X]
      BY <3>2
    <3>4. k[0] = x
      BY <3>2
    <3>5. ASSUME NEW i \in Nat, i < n + 1 PROVE k[i + 1] = F[k[i]]
      BY <3>2, <3>5
    <3>6. k \in Upto(n + 1)
      <4> HIDE DEF k
      <4> QED
        BY <3>3, <3>4, <3>5
    <3> QED
      BY <3>6
  <2> HIDE DEF T
  <2>3. Nat \subseteq T
    BY <2>1, <2>2, Induction
  <2> QED
    BY <2>3 DEF T
<1>2. ASSUME NEW m \in Nat, NEW h \in Upto(m), NEW n \in Nat, NEW k \in Upto(n)
      PROVE  \A i \in Nat : i <= m /\ i <= n => h[i] = k[i]
  <2> DEFINE T == {i \in Nat : i <= m /\ i <= n => h[i] = k[i]}
  <2>1. 0 \in T
    BY <1>2
  <2>2. ASSUME NEW i \in Nat, i \in T PROVE i + 1 \in T
    BY <1>2, <2>2
  <2> HIDE DEF T
  <2>3. Nat \subseteq T
    BY <2>1, <2>2, Induction
  <2> QED
    BY <2>3 DEF T
<1> DEFINE C(n) == CHOOSE h \in Upto(n) : TRUE
           g == [n \in Nat |-> C(n)[n]]
<1>3. \A n \in Nat : C(n) \in Upto(n)
  BY <1>1
<1> HIDE DEF C
<1>4. \A n \in Nat : /\ C(n) \in [0 .. n -> X] /\ C(n)[0] = x
                     /\ \A i \in Nat : i < n => C(n)[i + 1] = F[C(n)[i]]
  BY <1>3
<1>5. g \in [Nat -> X] /\ g[0] = x
  BY <1>4
<1>6. ASSUME NEW n \in Nat PROVE g[n + 1] = F[g[n]]
  <2>1. C(n + 1)[n] = C(n)[n]
    <3>1. n + 1 \in Nat /\ n <= n + 1 /\ n <= n
      OBVIOUS
    <3>2. C(n + 1) \in Upto(n + 1) /\ C(n) \in Upto(n)
      BY <1>3, <3>1
    <3> HIDE DEF Upto
    <3> QED
      BY <1>2, <3>1, <3>2
  <2>2. C(n + 1)[n + 1] = F[C(n + 1)[n]]
    BY <1>4
  <2> QED
    BY <2>1, <2>2
<1> HIDE DEF g
<1>7. Iterates(g, F, x)
  BY <1>5, <1>6 DEF Iterates
<1> QED
  BY <1>5, <1>7

-----------------------------------------------------------------------------
(* Stacks *)

Once(st) == \A i, j \in DOMAIN st : st[i] = st[j] => i = j

\* The windows of t are in the order that they have in st.
Ordered(t, st) ==
  \A i, j \in DOMAIN t : i < j => \E k, l \in DOMAIN st : k < l /\ st[k] = t[i] /\ st[l] = t[j]

LEMMA StackFacts ==
  ASSUME NEW st \in Seq(Window)
  PROVE  /\ Len(st) \in Nat /\ DOMAIN st = 1 .. Len(st)
         /\ \A i \in 1 .. Len(st) : st[i] \in Window /\ st[i] \in Windows(st)
         /\ \A w : w \in Windows(st) <=> \E i \in 1 .. Len(st) : st[i] = w
BY DEF Windows

LEMMA WithoutFacts ==
  ASSUME NEW st \in Seq(Window), Once(st), NEW w
  PROVE  /\ Without(st, w) \in Seq(Window) /\ Once(Without(st, w))
         /\ Windows(Without(st, w)) = Windows(st) \ {w}
         /\ Ordered(Without(st, w), st)
<1>0. Len(st) \in Nat /\ DOMAIN st = 1 .. Len(st) /\ \A i \in 1 .. Len(st) : st[i] \in Window
  BY StackFacts
<1>1. CASE w \notin Windows(st)
  BY <1>1 DEF Without, Ordered
<1>2. CASE w \in Windows(st)
  <2>1. PICK k \in 1 .. Len(st) : st[k] = w
    BY <1>2, StackFacts
  <2>2. {i \in DOMAIN st : st[i] = w} = {k}
    BY <1>0, <2>1 DEF Once
  <2>3. Min({k}) = k
    BY <1>0 DEF Min
  <2>4. Without(st, w) = SubSeq(st, 1, k - 1) \o SubSeq(st, k + 1, Len(st))
    BY <1>2, <2>2, <2>3 DEF Without, RemoveAt
  <2> DEFINE a == SubSeq(st, 1, k - 1)
             b == SubSeq(st, k + 1, Len(st))
             t == a \o b
  <2>5. /\ a \in Seq(Window) /\ Len(a) = k - 1 /\ \A i \in 1 .. (k - 1) : a[i] = st[i]
    BY <1>0, SubSeqProperties
  <2>6. /\ b \in Seq(Window) /\ Len(b) = Len(st) - k /\ \A i \in 1 .. (Len(st) - k) : b[i] = st[k + i]
    <3>1. \A i \in (k + 1) .. Len(st) : st[i] \in Window
      BY <1>0
    <3>2. /\ b \in Seq(Window) /\ Len(b) = IF k + 1 <= Len(st) THEN Len(st) - (k + 1) + 1 ELSE 0
          /\ \A i \in 1 .. (Len(st) - (k + 1) + 1) : b[i] = st[(k + 1) + i - 1]
      BY <1>0, <3>1, SubSeqProperties
    <3>3. Len(st) - (k + 1) + 1 = Len(st) - k /\ \A i \in 1 .. (Len(st) - k) : (k + 1) + i - 1 = k + i
      BY <1>0
    <3> HIDE DEF b
    <3>4. Len(b) = Len(st) - k
      <4>1. \A n \in Nat : \A m \in 1 .. n : (IF m + 1 <= n THEN n - (m + 1) + 1 ELSE 0) = n - m
        OBVIOUS
      <4>2. (IF k + 1 <= Len(st) THEN Len(st) - (k + 1) + 1 ELSE 0) = Len(st) - k
        BY <1>0, <4>1
      <4> QED
        BY <3>2, <4>2
    <3>5. \A i \in 1 .. (Len(st) - k) : b[i] = st[k + i]
      <4> SUFFICES ASSUME NEW i \in 1 .. (Len(st) - k) PROVE b[i] = st[k + i]
        OBVIOUS
      <4>1. i \in 1 .. (Len(st) - (k + 1) + 1) /\ (k + 1) + i - 1 = k + i
        BY <1>0
      <4>2. b[i] = st[(k + 1) + i - 1]
        BY <3>2, <4>1
      <4> QED
        BY <4>1, <4>2
    <3> QED
      BY <3>2, <3>4, <3>5
  <2> HIDE DEF a, b
  <2>7. /\ t \in Seq(Window) /\ Len(t) = Len(st) - 1
        /\ \A i \in 1 .. Len(a) : t[i] = a[i]
        /\ \A i \in 1 .. Len(b) : t[Len(a) + i] = b[i]
    <3>1. /\ t \in Seq(Window) /\ Len(t) = Len(a) + Len(b)
          /\ \A i \in 1 .. Len(a) : t[i] = a[i]
          /\ \A i \in 1 .. Len(b) : t[Len(a) + i] = b[i]
      <4>1. a \in Seq(Window) /\ b \in Seq(Window)
        BY <2>5, <2>6
      <4> QED
        BY <4>1, ConcatProperties
    <3>2. Len(a) + Len(b) = Len(st) - 1
      BY <1>0, <2>5, <2>6
    <3> QED
      BY <3>1, <3>2
  <2> HIDE DEF t
  <2>8. \A i \in 1 .. Len(t) : t[i] = IF i < k THEN st[i] ELSE st[i + 1]
    <3> SUFFICES ASSUME NEW i \in 1 .. Len(t) PROVE t[i] = IF i < k THEN st[i] ELSE st[i + 1]
      OBVIOUS
    <3>1. CASE i < k
      BY <1>0, <2>5, <2>7, <3>1
    <3>2. CASE ~(i < k)
      <4>1. i - (k - 1) \in 1 .. Len(b) /\ Len(a) + (i - (k - 1)) = i /\ k + (i - (k - 1)) = i + 1
        BY <1>0, <2>5, <2>6, <2>7, <3>2
      <4>2. t[i] = b[i - (k - 1)] /\ b[i - (k - 1)] = st[k + (i - (k - 1))]
        BY <2>6, <2>7, <4>1
      <4> QED
        BY <3>2, <4>1, <4>2
    <3> QED
      BY <3>1, <3>2
  <2>9. DOMAIN t = 1 .. Len(t)
    BY <2>7, StackFacts
  <2>10. Once(t)
    <3> SUFFICES ASSUME NEW i \in 1 .. Len(t), NEW j \in 1 .. Len(t), t[i] = t[j] PROVE i = j
      BY <2>9 DEF Once
    <3> DEFINE p == IF i < k THEN i ELSE i + 1
               q == IF j < k THEN j ELSE j + 1
    <3>1. p \in 1 .. Len(st) /\ q \in 1 .. Len(st) /\ st[p] = t[i] /\ st[q] = t[j]
      BY <1>0, <2>7, <2>8
    <3>2. p = q
      BY <1>0, <3>1 DEF Once
    <3> QED
      BY <1>0, <2>7, <3>2
  <2>11. Ordered(t, st)
    <3> SUFFICES ASSUME NEW i \in 1 .. Len(t), NEW j \in 1 .. Len(t), i < j
                 PROVE  \E p, q \in 1 .. Len(st) : p < q /\ st[p] = t[i] /\ st[q] = t[j]
      BY <1>0, <2>9 DEF Ordered
    <3> DEFINE p == IF i < k THEN i ELSE i + 1
               q == IF j < k THEN j ELSE j + 1
    <3>1. p \in 1 .. Len(st) /\ q \in 1 .. Len(st) /\ p < q
      BY <1>0, <2>7
    <3>2. st[p] = t[i] /\ st[q] = t[j]
      BY <2>8
    <3> QED
      BY <3>1, <3>2
  <2>12. Windows(t) = Windows(st) \ {w}
    <3>1. ASSUME NEW i \in 1 .. Len(t) PROVE t[i] \in Windows(st) /\ t[i] # w
      <4> DEFINE p == IF i < k THEN i ELSE i + 1
      <4>1. p \in 1 .. Len(st) /\ p # k /\ st[p] = t[i]
        BY <1>0, <2>7, <2>8
      <4> QED
        BY <1>0, <2>1, <4>1, StackFacts DEF Once
    <3>2. ASSUME NEW i \in 1 .. Len(st), st[i] # w PROVE st[i] \in Windows(t)
      <4> DEFINE p == IF i < k THEN i ELSE i - 1
      <4>1. p \in 1 .. Len(t) /\ t[p] = st[i]
        BY <1>0, <2>1, <2>7, <2>8, <3>2
      <4> QED
        BY <2>7, <4>1, StackFacts
    <3>3. \A v : v \in Windows(t) => v \in Windows(st) /\ v # w
      BY <2>7, <3>1, StackFacts
    <3>4. \A v : v \in Windows(st) /\ v # w => v \in Windows(t)
      BY <3>2, StackFacts
    <3> QED
      BY <3>3, <3>4
  <2>13. Without(st, w) = t
    BY <2>4 DEF a, b, t
  <2> QED
    BY <2>7, <2>10, <2>11, <2>12, <2>13
<1> QED
  BY <1>1, <1>2

LEMMA RaisedFacts ==
  ASSUME NEW st \in Seq(Window), Once(st), NEW w \in Window
  PROVE  /\ Raised(st, w) \in Seq(Window) /\ Once(Raised(st, w))
         /\ Windows(Raised(st, w)) = Windows(st) \cup {w}
         /\ Len(Raised(st, w)) > 0 /\ Top(Raised(st, w)) = w
         /\ \A i, j \in DOMAIN Raised(st, w) : i < j /\ Raised(st, w)[j] # w =>
              \E k, l \in DOMAIN st : k < l /\ st[k] = Raised(st, w)[i] /\ st[l] = Raised(st, w)[j]
<1> DEFINE t == Without(st, w)
           r == Append(t, w)
<1>1. t \in Seq(Window) /\ Once(t) /\ Windows(t) = Windows(st) \ {w} /\ Ordered(t, st)
  BY WithoutFacts
<1> HIDE DEF t
<1>2. /\ r \in Seq(Window) /\ Len(t) \in Nat /\ Len(r) = Len(t) + 1
      /\ \A i \in 1 .. Len(t) : r[i] = t[i]
      /\ r[Len(t) + 1] = w
  BY <1>1
<1> HIDE DEF r
<1>3. DOMAIN t = 1 .. Len(t) /\ DOMAIN r = 1 .. Len(r) /\ \A i \in 1 .. Len(r) : i \in 1 .. Len(t) \/ i = Len(t) + 1
  BY <1>1, <1>2, StackFacts
<1>4. \A i \in 1 .. Len(t) : t[i] \in Windows(st) /\ t[i] # w
  BY <1>1, StackFacts
<1>5. Once(r)
  BY <1>1, <1>2, <1>3, <1>4 DEF Once
<1>6. Windows(r) = Windows(st) \cup {w}
  <2>1. \A v : v \in Windows(r) => v \in Windows(st) \cup {w}
    BY <1>2, <1>3, <1>4, StackFacts
  <2>2. w \in Windows(r)
    BY <1>2, StackFacts
  <2>3. ASSUME NEW v \in Windows(t) PROVE v \in Windows(r)
    <3>1. PICK i \in 1 .. Len(t) : t[i] = v
      BY <1>1, StackFacts
    <3>2. i \in 1 .. Len(r) /\ r[i] = v
      BY <1>2, <3>1
    <3> QED
      BY <1>2, <3>2, StackFacts
  <2> QED
    BY <1>1, <2>1, <2>2, <2>3
<1>7. \A i, j \in DOMAIN r : i < j /\ r[j] # w => \E k, l \in DOMAIN st : k < l /\ st[k] = r[i] /\ st[l] = r[j]
  <2> SUFFICES ASSUME NEW i \in 1 .. Len(r), NEW j \in 1 .. Len(r), i < j, r[j] # w
               PROVE  \E k, l \in DOMAIN st : k < l /\ st[k] = r[i] /\ st[l] = r[j]
    BY <1>3
  <2>1. i \in 1 .. Len(t) /\ j \in 1 .. Len(t) /\ r[i] = t[i] /\ r[j] = t[j]
    BY <1>2, <1>3
  <2> QED
    BY <1>1, <1>3, <2>1 DEF Ordered
<1>8. Raised(st, w) = r
  BY DEF Raised, r, t
<1> QED
  BY <1>2, <1>5, <1>6, <1>7, <1>8 DEF Top

LEMMA KeptFacts ==
  ASSUME NEW st \in Seq(Window), NEW t \in Kept(st)
  PROVE  /\ t \in Seq(Window) /\ Once(t)
         /\ Windows(t) = {w \in Windows(st) : life[w] = "open"}
<1> DEFINE S == {w \in Windows(st) : life[w] = "open"}
           n == Cardinality(S)
<1>1. S \subseteq Window
  BY StackFacts
<1>2. IsFiniteSet(S) /\ n \in Nat
  BY <1>1, WindowsAssumption, FS_Subset, FS_CardinalityType
<1>3. t \in SetToSeqs(S)
  BY DEF Kept
<1> HIDE DEF S
<1>4. t \in [1 .. n -> S] /\ \A i, j \in 1 .. n : i # j => t[i] # t[j]
  BY <1>3 DEF SetToSeqs
<1>5. t \in Injection(1 .. n, S)
  BY <1>4 DEF Injection, IsInjective
<1>6. IsFiniteSet(1 .. n) /\ Cardinality(1 .. n) = n
  BY <1>2, FS_Interval
<1>7. t \in Surjection(1 .. n, S)
  BY <1>2, <1>5, <1>6, FS_Injection
<1>8. \A w \in S : \E i \in 1 .. n : t[i] = w
  BY <1>7 DEF Surjection
<1>9. t \in Seq(Window) /\ DOMAIN t = 1 .. n
  BY <1>1, <1>2, <1>4
<1>10. Once(t)
  BY <1>4, <1>9 DEF Once
<1>11. Windows(t) = S
  BY <1>4, <1>8, <1>9 DEF Windows
<1> QED
  BY <1>9, <1>10, <1>11 DEF S

LEMMA OnceIsShort ==
  ASSUME NEW st \in Seq(Window), Once(st)
  PROVE  Len(st) <= Cardinality(Window)
<1>1. Len(st) \in Nat /\ DOMAIN st = 1 .. Len(st) /\ st \in [1 .. Len(st) -> Window]
  BY StackFacts
<1>2. st \in Injection(1 .. Len(st), Window)
  BY <1>1 DEF Once, Injection, IsInjective
<1>3. Cardinality(1 .. Len(st)) <= Cardinality(Window)
  BY <1>2, WindowsAssumption, FS_Injection
<1>4. Cardinality(1 .. Len(st)) = Len(st)
  BY <1>1, FS_Interval
<1> QED
  BY <1>3, <1>4

-----------------------------------------------------------------------------
(* The windows *)

StacksOnce == stack \in [Space -> Seq(Window)] /\ \A s \in Space : Once(stack[s])

WindowsInv ==
  /\ TypeOK
  /\ NoDuplicates
  /\ NoWindowIsLost
  /\ Main \in spaces

\* A step that shows a first window gives it the keyboard.
Shown ==
  spaces' = {Main} /\ stack'[Main] # <<>> =>
    focus' # NoWindow \/ (spaces = {Main} /\ stack[Main] # <<>>)

LEMMA EmptyStack ==
  ASSUME NEW st \in Seq(Window)
  PROVE  st = <<>> <=> Windows(st) = {}
<1>1. Len(st) \in Nat /\ (st = <<>> <=> Len(st) = 0)
  BY EmptySeq, LenProperties
<1>2. Windows(st) = {} <=> \A i \in 1 .. Len(st) : FALSE
  BY StackFacts
<1>3. (\A i \in 1 .. Len(st) : FALSE) <=> Len(st) = 0
  <2>1. Len(st) # 0 => 1 \in 1 .. Len(st)
    BY <1>1
  <2>2. Len(st) = 0 => \A i \in 1 .. Len(st) : FALSE
    BY <1>1
  <2> QED
    BY <2>1, <2>2
<1> QED
  BY <1>1, <1>2, <1>3

LEMMA StacksAreOnce ==
  /\ WindowsInv => StacksOnce /\ first \in spaces /\ spaces \subseteq Space
  /\ StacksOnce => NoDuplicates /\ \A s \in Space : Len(stack[s]) <= Cardinality(Window)
BY OnceIsShort DEF WindowsInv, TypeOK, NoDuplicates, StacksOnce, Once

\* The parts of the invariant, put together again.
LEMMA WindowsParts ==
  ASSUME StacksOnce', spaces' \subseteq Space, first' \in spaces', Main \in spaces', NoWindowIsLost',
         life' \in [Window -> {"new", "open", "closed"}], appId' \in [Window -> App \cup {NoApp}],
         focus' \in Window \cup {NoWindow}, panicked' \in BOOLEAN,
         zones' \subseteq Zone, defaultZone' \in Zone \cup {NoZone}, rules' \in [App -> Zone \cup {NoZone}]
  PROVE  WindowsInv'
<1>1. NoDuplicates' /\ \A s \in Space : Len(stack'[s]) <= Cardinality(Window)
  <2>1. \A s \in Space : Len(stack'[s]) <= Cardinality(Window)
    BY OnceIsShort DEF StacksOnce
  <2> QED
    BY <2>1 DEF StacksOnce, Once, NoDuplicates
<1> QED
  BY <1>1 DEF WindowsInv, TypeOK, StacksOnce

\* Raising a window adds it to its space, if it is not there.
LEMMA RaiseStep ==
  ASSUME WindowsInv, NEW s \in Space, NEW w \in Window, stack' = [stack EXCEPT ![s] = Raised(@, w)]
  PROVE  /\ StacksOnce'
         /\ Windows(stack'[s]) = Windows(stack[s]) \cup {w} /\ stack'[s] # <<>>
         /\ \A r \in Space : r # s => stack'[r] = stack[r]
<1>1. StacksOnce
  BY StacksAreOnce
<1>2. /\ Raised(stack[s], w) \in Seq(Window) /\ Once(Raised(stack[s], w))
      /\ Windows(Raised(stack[s], w)) = Windows(stack[s]) \cup {w}
  BY <1>1, RaisedFacts DEF StacksOnce
<1>3. stack'[s] = Raised(stack[s], w) /\ \A r \in Space : r # s => stack'[r] = stack[r]
  BY <1>1 DEF StacksOnce
<1>4. stack' \in [Space -> Seq(Window)] /\ \A r \in Space : Once(stack'[r])
  BY <1>1, <1>2, <1>3 DEF StacksOnce
<1>5. stack'[s] # <<>>
  BY <1>2, <1>3, EmptyStack
<1> QED
  BY <1>2, <1>3, <1>4, <1>5 DEF StacksOnce

\* What place_window changes, when it finds its zone and when it panics.
LEMMA PlaceStep ==
  ASSUME WindowsInv, NEW s \in Space, NEW w \in Window, NEW a, NEW asked, NEW then \in Window \cup {NoWindow},
         Place(s, w, a, asked, then)
  PROVE  /\ StacksOnce' /\ focus' \in Window \cup {NoWindow} /\ panicked' \in BOOLEAN
         /\ \A r \in Space : Windows(stack[r]) \subseteq Windows(stack'[r]) /\ (r # s => stack'[r] = stack[r])
         /\ panicked' \/ (w \in Windows(stack'[s]) /\ focus' = then /\ UNCHANGED panicked)
         /\ stack' = stack \/ focus' = then
<1>0. StacksOnce /\ focus \in Window \cup {NoWindow} /\ panicked \in BOOLEAN
  BY StacksAreOnce DEF WindowsInv, TypeOK
<1>1. CASE ZoneFor(a, asked) \in zones \cup {NoZone}
  <2>1. stack' = [stack EXCEPT ![s] = Raised(@, w)] /\ focus' = then /\ UNCHANGED panicked
    BY <1>1 DEF Place
  <2>2. /\ StacksOnce' /\ Windows(stack'[s]) = Windows(stack[s]) \cup {w}
        /\ \A r \in Space : r # s => stack'[r] = stack[r]
    BY <2>1, RaiseStep
  <2> QED
    BY <1>0, <2>1, <2>2
<1>2. CASE ZoneFor(a, asked) \notin zones \cup {NoZone}
  <2>1. panicked' = TRUE /\ stack' = stack /\ focus' = focus
    BY <1>2 DEF Place
  <2> QED
    BY <1>0, <2>1 DEF StacksOnce
<1> QED
  BY <1>1, <1>2

LEMMA NewToplevelStep ==
  ASSUME WindowsInv, NEW w \in Window, NewToplevel(w)
  PROVE  WindowsInv' /\ Shown
<1>1. /\ Place(first, w, NoApp, NoZone, w) /\ UNCHANGED <<spaces, first, appId, zoneVars>>
      /\ life' = [life EXCEPT ![w] = "open"]
  BY DEF NewToplevel
<1>2. first \in Space /\ first \in spaces
  BY StacksAreOnce
<1>3. /\ StacksOnce' /\ focus' \in Window \cup {NoWindow} /\ panicked' \in BOOLEAN
      /\ \A r \in Space : Windows(stack[r]) \subseteq Windows(stack'[r]) /\ (r # first => stack'[r] = stack[r])
      /\ panicked' \/ (w \in Windows(stack'[first]) /\ focus' = w /\ UNCHANGED panicked)
      /\ stack' = stack \/ focus' = w
  BY <1>1, <1>2, PlaceStep
<1>4. NoWindowIsLost'
  <2> SUFFICES ASSUME NEW v \in Window, life'[v] = "open", ~panicked'
               PROVE  \E s \in spaces' : v \in Windows(stack'[s])
    BY DEF NoWindowIsLost
  <2>1. CASE v = w
    BY <1>1, <1>2, <1>3, <2>1
  <2>2. CASE v # w
    <3>1. life[v] = "open" /\ ~panicked
      BY <1>1, <1>3, <2>2 DEF WindowsInv, TypeOK
    <3>2. PICK s \in spaces : v \in Windows(stack[s])
      BY <3>1 DEF WindowsInv, NoWindowIsLost
    <3> QED
      BY <1>1, <1>3, <3>2 DEF WindowsInv, TypeOK
  <2> QED
    BY <2>1, <2>2
<1>5. /\ spaces' \subseteq Space /\ first' \in spaces' /\ Main \in spaces'
      /\ life' \in [Window -> {"new", "open", "closed"}] /\ appId' \in [Window -> App \cup {NoApp}]
      /\ zones' \subseteq Zone /\ defaultZone' \in Zone \cup {NoZone} /\ rules' \in [App -> Zone \cup {NoZone}]
  BY <1>1 DEF WindowsInv, TypeOK, zoneVars
<1>6. Shown
  BY <1>1, <1>3, WindowsAssumption DEF Shown
<1> QED
  BY <1>3, <1>4, <1>5, <1>6, WindowsParts

\* A step that leaves the lives of the windows and takes none from its space.
LEMMA StayStep ==
  ASSUME WindowsInv, StacksOnce', UNCHANGED <<spaces, first, life, zoneVars>>,
         appId' \in [Window -> App \cup {NoApp}],
         \A r \in Space : Windows(stack[r]) \subseteq Windows(stack'[r]),
         focus' \in Window \cup {NoWindow}, panicked' \in BOOLEAN, panicked => panicked'
  PROVE  WindowsInv'
<1>1. NoWindowIsLost'
  <2> SUFFICES ASSUME NEW v \in Window, life'[v] = "open", ~panicked'
               PROVE  \E s \in spaces' : v \in Windows(stack'[s])
    BY DEF NoWindowIsLost
  <2>1. PICK s \in spaces : v \in Windows(stack[s])
    BY DEF WindowsInv, NoWindowIsLost
  <2> QED
    BY <2>1 DEF WindowsInv, TypeOK
<1>2. /\ spaces' \subseteq Space /\ first' \in spaces' /\ Main \in spaces'
      /\ life' \in [Window -> {"new", "open", "closed"}]
      /\ zones' \subseteq Zone /\ defaultZone' \in Zone \cup {NoZone} /\ rules' \in [App -> Zone \cup {NoZone}]
  BY DEF WindowsInv, TypeOK, zoneVars
<1> QED
  BY <1>1, <1>2, WindowsParts

LEMMA AppIdChangedStep ==
  ASSUME WindowsInv, ~panicked, NEW w \in Window, NEW a \in App, AppIdChanged(w, a)
  PROVE  WindowsInv' /\ Shown
<1>1. UNCHANGED <<spaces, first, life, zoneVars>> /\ appId' = [appId EXCEPT ![w] = a]
  BY DEF AppIdChanged
<1>2. /\ first \in Space /\ first \in spaces /\ StacksOnce /\ focus \in Window \cup {NoWindow} /\ panicked \in BOOLEAN
      /\ appId' \in [Window -> App \cup {NoApp}]
  BY <1>1, StacksAreOnce DEF WindowsInv, TypeOK
<1>3. CASE w \in Windows(stack[first])
  <2>1. Place(first, w, a, NoZone, focus)
    BY <1>3 DEF AppIdChanged
  <2>2. /\ StacksOnce' /\ focus' \in Window \cup {NoWindow} /\ panicked' \in BOOLEAN
        /\ \A r \in Space : Windows(stack[r]) \subseteq Windows(stack'[r]) /\ (r # first => stack'[r] = stack[r])
    BY <1>2, <2>1, PlaceStep
  <2>3. stack[first] # <<>>
    BY <1>2, <1>3, EmptyStack DEF StacksOnce
  <2>4. Shown
    BY <1>1, <1>2, <2>3 DEF Shown
  <2> QED
    BY <1>1, <1>2, <2>2, <2>4, StayStep
<1>4. CASE w \notin Windows(stack[first])
  <2>1. UNCHANGED <<stack, focus, panicked>>
    BY <1>4 DEF AppIdChanged
  <2>2. Shown
    BY <1>1, <2>1 DEF Shown
  <2> QED
    BY <1>1, <1>2, <2>1, <2>2, StayStep DEF StacksOnce
<1> QED
  BY <1>3, <1>4

LEMMA MoveCurrentStep ==
  ASSUME WindowsInv, ~panicked, NEW z, MoveCurrentWindowToZone(z)
  PROVE  WindowsInv' /\ Shown
<1>1. /\ UNCHANGED <<spaces, first, life, appId, zoneVars>> /\ focus # NoWindow
      /\ Place(first, focus, appId[focus], z, focus)
  BY DEF MoveCurrentWindowToZone
<1>2. first \in Space /\ focus \in Window /\ appId' \in [Window -> App \cup {NoApp}]
  BY <1>1, StacksAreOnce DEF WindowsInv, TypeOK
<1>3. /\ StacksOnce' /\ focus' \in Window \cup {NoWindow} /\ panicked' \in BOOLEAN
      /\ \A r \in Space : Windows(stack[r]) \subseteq Windows(stack'[r])
      /\ stack' = stack \/ focus' = focus
  BY <1>1, <1>2, PlaceStep
<1>4. Shown
  BY <1>1, <1>2, <1>3 DEF Shown
<1> QED
  BY <1>1, <1>2, <1>3, <1>4, StayStep

LEMMA MapAgainStep ==
  ASSUME WindowsInv, NEW w \in Window, MapAgain(w)
  PROVE  WindowsInv' /\ Shown
<1>1. /\ UNCHANGED <<spaces, first, life, appId, focus, zoneVars, panicked>>
      /\ w \in Windows(stack[first]) /\ stack' = [stack EXCEPT ![first] = Raised(@, w)]
  BY DEF MapAgain
<1>2. /\ first \in Space /\ first \in spaces /\ StacksOnce /\ focus' \in Window \cup {NoWindow} /\ panicked' \in BOOLEAN
      /\ appId' \in [Window -> App \cup {NoApp}]
  BY <1>1, StacksAreOnce DEF WindowsInv, TypeOK
<1>3. /\ StacksOnce' /\ Windows(stack'[first]) = Windows(stack[first]) \cup {w}
      /\ \A r \in Space : r # first => stack'[r] = stack[r]
  BY <1>1, <1>2, RaiseStep
<1>4. \A r \in Space : Windows(stack[r]) \subseteq Windows(stack'[r])
  BY <1>3
<1>5. stack[first] # <<>>
  BY <1>1, <1>2, EmptyStack DEF StacksOnce
<1>6. Shown
  BY <1>1, <1>2, <1>5 DEF Shown
<1> QED
  BY <1>1, <1>2, <1>3, <1>4, <1>6, StayStep

LEMMA FocusWindowStep ==
  ASSUME WindowsInv, NEW s \in Space, NEW w, FocusWindow(s, w)
  PROVE  WindowsInv' /\ Shown
<1>1. /\ UNCHANGED <<spaces, first, life, appId, zoneVars, panicked>> /\ focus' = w
      /\ w \in Windows(stack[s]) /\ stack' = [stack EXCEPT ![s] = Raised(@, w)]
  BY DEF FocusWindow
<1>2. StacksOnce /\ panicked' \in BOOLEAN /\ appId' \in [Window -> App \cup {NoApp}]
  BY <1>1, StacksAreOnce DEF WindowsInv, TypeOK
<1>3. w \in Window
  BY <1>1, <1>2, StackFacts DEF StacksOnce
<1>4. /\ StacksOnce' /\ Windows(stack'[s]) = Windows(stack[s]) \cup {w}
      /\ \A r \in Space : r # s => stack'[r] = stack[r]
  BY <1>1, <1>3, RaiseStep
<1>5. \A r \in Space : Windows(stack[r]) \subseteq Windows(stack'[r])
  BY <1>4
<1>6. Shown
  BY <1>1, <1>3, WindowsAssumption DEF Shown
<1> QED
  BY <1>1, <1>2, <1>3, <1>4, <1>5, <1>6, StayStep

LEMMA ToplevelDestroyedStep ==
  ASSUME WindowsInv, NEW w \in Window, ToplevelDestroyed(w)
  PROVE  WindowsInv' /\ Shown
<1>1. UNCHANGED <<spaces, first, appId, zoneVars, panicked>> /\ life' = [life EXCEPT ![w] = "closed"]
  BY DEF ToplevelDestroyed
<1>2. /\ first \in Space /\ first \in spaces /\ StacksOnce /\ focus \in Window \cup {NoWindow}
      /\ life' \in [Window -> {"new", "open", "closed"}]
      /\ \A v \in Window : life'[v] = "open" => life[v] = "open" /\ v # w
  BY <1>1, StacksAreOnce DEF WindowsInv, TypeOK
<1>3. /\ StacksOnce' /\ focus' \in Window \cup {NoWindow}
      /\ \A r \in Space : Windows(stack[r]) \ {w} \subseteq Windows(stack'[r])
      /\ Shown
  <2>1. CASE w \in Windows(stack[first])
    <3> DEFINE rest == Without(stack[first], w)
    <3>1. stack' = [stack EXCEPT ![first] = rest] /\ focus' = IF rest = <<>> THEN focus ELSE Top(rest)
      BY <2>1 DEF ToplevelDestroyed
    <3>2. rest \in Seq(Window) /\ Once(rest) /\ Windows(rest) = Windows(stack[first]) \ {w}
      BY <1>2, WithoutFacts DEF StacksOnce
    <3> HIDE DEF rest
    <3>3. StacksOnce' /\ stack'[first] = rest /\ \A r \in Space : r # first => stack'[r] = stack[r]
      BY <1>2, <3>1, <3>2 DEF StacksOnce
    <3>4. rest # <<>> => Top(rest) \in Window
      <4> SUFFICES ASSUME rest # <<>> PROVE Top(rest) \in Window
        OBVIOUS
      <4>1. Len(rest) \in 1 .. Len(rest)
        BY <3>2, EmptySeq, LenProperties
      <4> QED
        BY <3>2, <4>1, StackFacts DEF Top
    <3>5. focus' \in Window \cup {NoWindow} /\ (rest # <<>> => focus' # NoWindow)
      BY <1>2, <3>1, <3>4, WindowsAssumption
    <3>6. \A r \in Space : Windows(stack[r]) \ {w} \subseteq Windows(stack'[r])
      BY <3>2, <3>3
    <3>7. Shown
      BY <1>1, <1>2, <3>3, <3>5 DEF Shown
    <3> QED
      BY <3>3, <3>5, <3>6, <3>7
  <2>2. CASE w \notin Windows(stack[first])
    <3>1. UNCHANGED <<stack, focus>>
      BY <2>2 DEF ToplevelDestroyed
    <3> QED
      BY <1>1, <1>2, <3>1 DEF StacksOnce, Shown
  <2> QED
    BY <2>1, <2>2
<1>4. NoWindowIsLost'
  <2> SUFFICES ASSUME NEW v \in Window, life'[v] = "open", ~panicked'
               PROVE  \E s \in spaces' : v \in Windows(stack'[s])
    BY DEF NoWindowIsLost
  <2>1. PICK s \in spaces : v \in Windows(stack[s])
    BY <1>1, <1>2 DEF WindowsInv, NoWindowIsLost
  <2> QED
    BY <1>1, <1>2, <1>3, <2>1 DEF WindowsInv, TypeOK
<1>5. /\ spaces' \subseteq Space /\ first' \in spaces' /\ Main \in spaces' /\ panicked' \in BOOLEAN
      /\ appId' \in [Window -> App \cup {NoApp}]
      /\ zones' \subseteq Zone /\ defaultZone' \in Zone \cup {NoZone} /\ rules' \in [App -> Zone \cup {NoZone}]
  BY <1>1 DEF WindowsInv, TypeOK, zoneVars
<1> QED
  BY <1>2, <1>3, <1>4, <1>5, WindowsParts

LEMMA RefreshStep ==
  ASSUME WindowsInv, Refresh
  PROVE  WindowsInv' /\ Shown
<1>1. /\ UNCHANGED <<spaces, first, life, appId, focus, zoneVars, panicked>>
      /\ stack' \in [Space -> UNION {Kept(stack[s]) : s \in Space}] /\ \A s \in Space : stack'[s] \in Kept(stack[s])
  BY DEF Refresh
<1>2. StacksOnce
  BY StacksAreOnce
<1>3. \A s \in Space : /\ stack'[s] \in Seq(Window) /\ Once(stack'[s])
                       /\ Windows(stack'[s]) = {w \in Windows(stack[s]) : life[w] = "open"}
  BY <1>1, <1>2, KeptFacts DEF StacksOnce
<1>4. StacksOnce'
  BY <1>1, <1>3 DEF StacksOnce
<1>5. NoWindowIsLost'
  <2> SUFFICES ASSUME NEW v \in Window, life'[v] = "open", ~panicked'
               PROVE  \E s \in spaces' : v \in Windows(stack'[s])
    BY DEF NoWindowIsLost
  <2>1. PICK s \in spaces : v \in Windows(stack[s])
    BY <1>1 DEF WindowsInv, NoWindowIsLost
  <2> QED
    BY <1>1, <1>3, <2>1 DEF WindowsInv, TypeOK
<1>6. Shown
  BY <1>1, <1>2, <1>3, EmptyStack, WindowsAssumption DEF Shown, StacksOnce
<1>7. /\ spaces' \subseteq Space /\ first' \in spaces' /\ Main \in spaces' /\ panicked' \in BOOLEAN
      /\ life' \in [Window -> {"new", "open", "closed"}] /\ appId' \in [Window -> App \cup {NoApp}]
      /\ focus' \in Window \cup {NoWindow}
      /\ zones' \subseteq Zone /\ defaultZone' \in Zone \cup {NoZone} /\ rules' \in [App -> Zone \cup {NoZone}]
  BY <1>1 DEF WindowsInv, TypeOK, zoneVars
<1> QED
  BY <1>4, <1>5, <1>6, <1>7, WindowsParts

\* Spaces, zones and rules of the configuration.
LEMMA ConfigStep ==
  ASSUME WindowsInv,
         \/ \E S \in SUBSET Space : AddSpaces(S)
         \/ \E Z \in SUBSET Zone, d \in Zone \cup {NoZone} : SetZones(Z, d)
         \/ \E a \in App, z \in Zone : AddWindowRule(a, z)
  PROVE  WindowsInv' /\ Shown
<1>1. UNCHANGED <<stack, life, appId, focus, panicked>> /\ spaces \subseteq spaces'
  BY DEF AddSpaces, SetZones, AddWindowRule
<1>2. spaces' \subseteq Space /\ first' \in spaces'
  <2>1. CASE \E S \in SUBSET Space : AddSpaces(S)
    BY <2>1, StacksAreOnce DEF AddSpaces
  <2>2. CASE UNCHANGED <<spaces, first>>
    BY <2>2, StacksAreOnce
  <2> QED
    BY <2>1, <2>2 DEF SetZones, AddWindowRule
<1>3. zones' \subseteq Zone /\ defaultZone' \in Zone \cup {NoZone} /\ rules' \in [App -> Zone \cup {NoZone}]
  BY DEF AddSpaces, SetZones, AddWindowRule, WindowsInv, TypeOK, zoneVars
<1>4. StacksOnce' /\ NoWindowIsLost'
  BY <1>1, StacksAreOnce DEF WindowsInv, StacksOnce, NoWindowIsLost
<1>5. Shown
  BY <1>1 DEF Shown, WindowsInv
<1>6. /\ Main \in spaces' /\ panicked' \in BOOLEAN /\ focus' \in Window \cup {NoWindow}
      /\ life' \in [Window -> {"new", "open", "closed"}] /\ appId' \in [Window -> App \cup {NoApp}]
  BY <1>1 DEF WindowsInv, TypeOK
<1> QED
  BY <1>2, <1>3, <1>4, <1>5, <1>6, WindowsParts

LEMMA ClientStep ==
  ASSUME WindowsInv, ~panicked, Client
  PROVE  WindowsInv' /\ Shown
BY NewToplevelStep, AppIdChangedStep, MapAgainStep, ToplevelDestroyedStep DEF Client

LEMMA WindowsInit ==
  ASSUME Init
  PROVE  WindowsInv
<1>1. \A s \in Space : stack[s] = <<>> /\ Len(stack[s]) = 0
  BY DEF Init
<1>2. Cardinality(Window) \in Nat
  BY WindowsAssumption, FS_CardinalityType
<1>3. TypeOK
  <2>1. stack \in [Space -> Seq(Window)]
    BY DEF Init
  <2>2. spaces \subseteq Space /\ first \in spaces /\ zones \subseteq Zone /\ panicked \in BOOLEAN
    BY WindowsAssumption DEF Init
  <2>3. /\ life \in [Window -> {"new", "open", "closed"}] /\ appId \in [Window -> App \cup {NoApp}]
        /\ rules \in [App -> Zone \cup {NoZone}] /\ focus \in Window \cup {NoWindow} /\ defaultZone \in Zone \cup {NoZone}
    BY DEF Init
  <2>4. \A s \in Space : Len(stack[s]) <= Cardinality(Window)
    BY <1>1, <1>2
  <2> QED
    BY <2>1, <2>2, <2>3, <2>4 DEF TypeOK
<1> QED
  BY <1>1, <1>3 DEF Init, WindowsInv, NoDuplicates, NoWindowIsLost

-----------------------------------------------------------------------------
(* The session lock *)

LockInv ==
  /\ WindowsInv
  /\ LockIsSound
  /\ UnlockGivesKeyboard

\* A step of the windows under the lock.
LEMMA WindowLockStep ==
  ASSUME LockInv, WindowsInv', Shown, KeyboardFollows
  PROVE  LockInv'
<1>1. /\ lockFocus' = IF focus' = NoWindow THEN lockFocus ELSE NoLocker
      /\ UNCHANGED <<holder, surfaces, alive>>
  BY DEF KeyboardFollows
<1>2. LockIsSound'
  BY <1>1 DEF LockInv, LockIsSound, WindowsInv
<1>3. UnlockGivesKeyboard'
  BY <1>1 DEF LockInv, UnlockGivesKeyboard, Shown
<1> QED
  BY <1>2, <1>3 DEF LockInv

\* A step of the lock alone.
LEMMA LockStep ==
  ASSUME LockInv,
         UNCHANGED <<spaces, first, stack, life, appId, zoneVars, panicked>>,
         focus' \in Window \cup {NoWindow},
         holder' \in Locker \cup {NoLocker}, lockFocus' \in Locker \cup {NoLocker}, alive' \subseteq Locker,
         \A o \in Output : surfaces'[o] \in {holder', NoLocker},
         lockFocus' # NoLocker => focus' = NoWindow,
         UnlockGivesKeyboard'
  PROVE  LockInv'
<1>1. StacksOnce'
  BY StacksAreOnce DEF LockInv, StacksOnce
<1>2. NoWindowIsLost'
  BY DEF LockInv, WindowsInv, NoWindowIsLost
<1>3. /\ spaces' \subseteq Space /\ first' \in spaces' /\ Main \in spaces' /\ panicked' \in BOOLEAN
      /\ life' \in [Window -> {"new", "open", "closed"}] /\ appId' \in [Window -> App \cup {NoApp}]
      /\ zones' \subseteq Zone /\ defaultZone' \in Zone \cup {NoZone} /\ rules' \in [App -> Zone \cup {NoZone}]
  BY DEF LockInv, WindowsInv, TypeOK, zoneVars
<1>4. WindowsInv'
  BY <1>1, <1>2, <1>3, WindowsParts
<1>5. LockIsSound'
  BY <1>4 DEF LockIsSound, WindowsInv
<1> QED
  BY <1>4, <1>5 DEF LockInv

LEMMA LockNextInv == LockInv /\ [LockNext]_allVars => LockInv'
<1> SUFFICES ASSUME LockInv, [LockNext]_allVars PROVE LockInv'
  OBVIOUS
<1>0. /\ WindowsInv /\ focus \in Window \cup {NoWindow}
      /\ holder \in Locker \cup {NoLocker} /\ lockFocus \in Locker \cup {NoLocker} /\ alive \subseteq Locker
      /\ \A o \in Output : surfaces[o] \in {holder, NoLocker}
      /\ lockFocus # NoLocker => focus = NoWindow
      /\ StacksOnce /\ first \in spaces /\ spaces \subseteq Space
  BY StacksAreOnce DEF LockInv, LockIsSound, WindowsInv, TypeOK
<1>1. ASSUME ~panicked, Client \/ User \/ Config \/ Refresh \/ ExecuteAction, KeyboardFollows PROVE LockInv'
  <2>1. CASE Client
    BY <1>0, <1>1, <2>1, ClientStep, WindowLockStep
  <2>2. CASE User
    <3>1. ASSUME NEW z \in Zone, MoveCurrentWindowToZone(z) PROVE LockInv'
      BY <1>0, <1>1, <3>1, MoveCurrentStep, WindowLockStep
    <3>2. ASSUME NEW s \in Space, NEW w, FocusWindow(s, w) PROVE LockInv'
      BY <1>0, <1>1, <3>2, FocusWindowStep, WindowLockStep
    <3> QED
      BY <1>0, <2>2, <3>1, <3>2 DEF User, UpdateKeyboardFocus, RequestActivation, FocusWindowByAppId
  <2>3. CASE Config
    <3>1. \/ \E S \in SUBSET Space : AddSpaces(S)
          \/ \E Z \in SUBSET Zone, d \in Zone \cup {NoZone} : SetZones(Z, d)
          \/ \E a \in App, z \in Zone : AddWindowRule(a, z)
      BY <2>3 DEF Config
    <3> QED
      BY <1>0, <1>1, <3>1, ConfigStep, WindowLockStep
  <2>4. CASE Refresh
    BY <1>0, <1>1, <2>4, RefreshStep, WindowLockStep
  <2>5. CASE ExecuteAction
    <3>1. ASSUME NEW z \in Zone, MoveCurrentWindowToZone(z) PROVE LockInv'
      BY <1>0, <1>1, <3>1, MoveCurrentStep, WindowLockStep
    <3>2. ASSUME NEW s \in Space, NEW w, FocusWindow(s, w) PROVE LockInv'
      BY <1>0, <1>1, <3>2, FocusWindowStep, WindowLockStep
    <3> QED
      BY <1>0, <2>5, <3>1, <3>2 DEF ExecuteAction, Tab, FocusWindowByAppId
  <2> QED
    BY <1>1, <2>1, <2>2, <2>3, <2>4, <2>5
<1>2. ASSUME NEW c \in Locker, Lock(c) PROVE LockInv'
  <2>1. /\ holder' = c /\ surfaces' = [o \in Output |-> NoLocker]
        /\ UNCHANGED <<spaces, first, stack, life, appId, focus, zoneVars, panicked, lockFocus, alive>>
    BY <1>2 DEF Lock, vars
  <2>2. UnlockGivesKeyboard'
    BY <2>1, SessionLockAssumption DEF UnlockGivesKeyboard
  <2> QED
    BY <1>0, <2>1, <2>2, LockStep
<1>3. ASSUME NEW c \in Locker, LockerDies(c) PROVE LockInv'
  <2>1. /\ alive' = alive \ {c}
        /\ UNCHANGED <<spaces, first, stack, life, appId, focus, zoneVars, panicked, lockFocus, holder, surfaces>>
    BY <1>3 DEF LockerDies, vars
  <2>2. UnlockGivesKeyboard'
    BY <2>1 DEF LockInv, UnlockGivesKeyboard
  <2> QED
    BY <1>0, <2>1, <2>2, LockStep
<1>4. ASSUME NEW o \in Output, NewSurface(o) PROVE LockInv'
  <2>1. /\ surfaces' = [surfaces EXCEPT ![o] = holder] /\ focus' = NoWindow /\ lockFocus' = holder /\ holder \in alive
        /\ UNCHANGED <<spaces, first, stack, life, appId, zoneVars, panicked, holder, alive>>
    BY <1>4 DEF NewSurface
  <2>2. \A p \in Output : surfaces'[p] \in {holder', NoLocker}
    BY <1>0, <2>1
  <2>3. UnlockGivesKeyboard'
    BY <1>0, <2>1, SessionLockAssumption DEF UnlockGivesKeyboard
  <2> QED
    BY <1>0, <2>1, <2>2, <2>3, LockStep
<1>5. ASSUME Unlock PROVE LockInv'
  <2>1. /\ holder' = NoLocker /\ surfaces' = [o \in Output |-> NoLocker]
        /\ stack[first] = <<>> => UNCHANGED <<focus, lockFocus>>
        /\ stack[first] # <<>> => focus' = Top(stack[first]) /\ lockFocus' = NoLocker
        /\ UNCHANGED <<spaces, first, stack, life, appId, zoneVars, panicked, alive>>
    BY <1>5 DEF Unlock
  <2>2. focus' \in Window \cup {NoWindow} /\ lockFocus' \in Locker \cup {NoLocker}
        /\ (lockFocus' # NoLocker => focus' = NoWindow)
    <3>1. CASE stack[first] = <<>>
      BY <1>0, <2>1, <3>1
    <3>2. CASE stack[first] # <<>>
      <4>1. stack[first] \in Seq(Window)
        BY <1>0 DEF StacksOnce
      <4>2. Len(stack[first]) \in 1 .. Len(stack[first])
        BY <3>2, <4>1, EmptySeq, LenProperties
      <4>3. Top(stack[first]) \in Window
        BY <4>1, <4>2, StackFacts DEF Top
      <4> QED
        BY <2>1, <3>2, <4>3
    <3> QED
      BY <3>1, <3>2
  <2>3. UnlockGivesKeyboard'
    BY <1>0, <2>1 DEF UnlockGivesKeyboard
  <2> QED
    BY <1>0, <2>1, <2>2, <2>3, LockStep
<1>6. CASE UNCHANGED allVars
  <2>1. UNCHANGED <<spaces, first, stack, life, appId, focus, zoneVars, panicked, holder, surfaces, lockFocus, alive>>
    BY <1>6 DEF allVars, vars, lockVars
  <2>2. UnlockGivesKeyboard'
    BY <2>1 DEF LockInv, UnlockGivesKeyboard
  <2> QED
    BY <1>0, <2>1, <2>2, LockStep
<1> QED
  BY <1>1, <1>2, <1>3, <1>4, <1>5, <1>6 DEF LockNext

LEMMA LockInitInv == LockInit => LockInv
<1> SUFFICES ASSUME LockInit PROVE LockInv
  OBVIOUS
<1>1. WindowsInv
  BY WindowsInit DEF LockInit
<1>2. LockIsSound
  BY <1>1 DEF LockInit, LockIsSound, WindowsInv
<1>3. UnlockGivesKeyboard
  BY DEF LockInit, UnlockGivesKeyboard
<1> QED
  BY <1>1, <1>2, <1>3 DEF LockInv

LEMMA LockInductive == LockSpec => []LockInv
BY LockInitInv, LockNextInv, PTL DEF LockSpec

\* A space has a window once, lock surfaces are the holder's, and one with the
\* keyboard leaves none to a window.
THEOREM LockSound == LockSpec => []LockIsSound
<1>1. LockInv => LockIsSound
  BY DEF LockInv
<1> QED
  BY <1>1, LockInductive, PTL

\* After unlock no surface of a lock that has ended keeps the keyboard.
THEOREM UnlockKeyboard == LockSpec => []UnlockGivesKeyboard
<1>1. LockInv => UnlockGivesKeyboard
  BY DEF LockInv
<1> QED
  BY <1>1, LockInductive, PTL

\* An open window is in a space, whatever became of the first space.
THEOREM WindowsStay == LockSpec => []NoWindowIsLost
<1>1. LockInv => NoWindowIsLost
  BY DEF LockInv, WindowsInv
<1> QED
  BY <1>1, LockInductive, PTL

\* The lock implements LockHolder: one holder, and nobody takes it while it lives.
THEOREM LockImplemented == LockSpec => LockPromise
<1>1. LockInit => Holder!Init
  BY DEF LockInit, Holder!Init
<1>2. LockInv /\ [LockNext]_allVars => [Holder!Next]_<<holder, alive>>
  <2> SUFFICES ASSUME LockInv, LockNext, ~UNCHANGED <<holder, alive>> PROVE Holder!Next
    BY DEF allVars, lockVars
  <2>1. alive \subseteq Locker
    BY DEF LockInv, LockIsSound
  <2>2. ASSUME NEW c \in Locker, Lock(c) PROVE Holder!Next
    <3>1. c \in alive /\ holder' = c /\ UNCHANGED alive /\ holder \notin alive
      BY <2>1, <2>2, SessionLockAssumption DEF Lock, MayLock
    <3>2. Holder!Take(c)
      BY <3>1 DEF Holder!Take
    <3> QED
      BY <3>2 DEF Holder!Next
  <2>3. ASSUME NEW c \in Locker, LockerDies(c) PROVE Holder!Next
    BY <2>3 DEF LockerDies, Holder!Next, Holder!Die
  <2>4. ASSUME Unlock PROVE Holder!Next
    BY <2>4 DEF Unlock, Holder!Next, Holder!Release
  <2> QED
    BY <2>2, <2>3, <2>4 DEF LockNext, KeyboardFollows, NewSurface
<1> QED
  BY <1>1, <1>2, LockInductive, PTL DEF LockSpec, LockPromise, Holder!Spec

-----------------------------------------------------------------------------
(* Focus goes round                                                          *)

\* The stacks that have the windows of st once, and those of an application.
Shuffled(st) == {t \in Seq(Window) : Once(t) /\ Windows(t) = Windows(st)}
Mine(st, a) == {w \in Windows(st) : appId[w] = a}

LEMMA ChosenFacts ==
  ASSUME NEW st \in Seq(Window), NEW a, Mine(st, a) # {}
  PROVE  /\ Chosen(st, a) \in Mine(st, a)
         /\ Top(st) \in Mine(st, a) =>
              \E m \in 1 .. Len(st) : st[m] = Chosen(st, a) /\ \A p \in 1 .. Len(st) : st[p] \in Mine(st, a) => m <= p
<1> DEFINE I == WindowsOf(st, a)
<1>1. /\ Len(st) \in Nat /\ I \subseteq 1 .. Len(st)
      /\ \A i \in 1 .. Len(st) : i \in I <=> st[i] \in Mine(st, a)
  BY StackFacts DEF WindowsOf, Mine
<1>2. I # {}
  <2>1. PICK w \in Windows(st) : appId[w] = a
    BY DEF Mine
  <2>2. PICK i \in 1 .. Len(st) : st[i] = w
    BY StackFacts
  <2> QED
    BY <1>1, <2>1, <2>2 DEF Mine
<1> HIDE DEF I
<1>3. Max(I) \in I
  <2>1. \E n \in I : \A m \in I : n >= m
    BY <1>1, <1>2, Greatest
  <2> QED
    BY <2>1 DEF Max
<1>4. Min(I) \in I /\ \A p \in I : Min(I) <= p
  <2>1. I \subseteq Nat
    BY <1>1
  <2>2. \E n \in I : \A m \in I : n <= m
    BY <1>2, <2>1, Least
  <2> QED
    BY <2>2 DEF Min
<1>5. Chosen(st, a) = IF Len(st) \in I THEN st[Min(I)] ELSE st[Max(I)]
  BY DEF Chosen, I
<1>6. Chosen(st, a) \in Mine(st, a)
  BY <1>1, <1>3, <1>4, <1>5
<1>7. ASSUME Top(st) \in Mine(st, a)
      PROVE  \E m \in 1 .. Len(st) : st[m] = Chosen(st, a) /\ \A p \in 1 .. Len(st) : st[p] \in Mine(st, a) => m <= p
  <2>0. PICK i \in I : TRUE
    BY <1>2
  <2>1. Len(st) \in 1 .. Len(st)
    <3>1. i \in 1 .. Len(st) /\ Len(st) \in Nat
      BY <1>1
    <3> QED
      BY <3>1
  <2>2. Len(st) \in I
    BY <1>1, <1>7, <2>1 DEF Top
  <2> QED
    BY <1>1, <1>4, <1>5, <2>2
<1> QED
  BY <1>6, <1>7

LEMMA RoundFacts ==
  ASSUME NEW st \in Seq(Window), Once(st), NEW a, Mine(st, a) # {}
  PROVE  /\ Rounds(st, a)[0] = st
         /\ \A n \in Nat : /\ Rounds(st, a)[n] \in Shuffled(st)
                           /\ Rounds(st, a)[n + 1] = Raised(Rounds(st, a)[n], Chosen(Rounds(st, a)[n], a))
<1> DEFINE X == Shuffled(st)
           F == [t \in X |-> Raised(t, Chosen(t, a))]
<1>1. st \in X
  BY DEF Shuffled
<1>2. \A t \in X : Raised(t, Chosen(t, a)) \in X
  <2> SUFFICES ASSUME NEW t \in X PROVE Raised(t, Chosen(t, a)) \in X
    OBVIOUS
  <2>1. t \in Seq(Window) /\ Once(t) /\ Windows(t) = Windows(st) /\ Mine(t, a) = Mine(st, a)
    BY DEF Shuffled, Mine
  <2>2. Chosen(t, a) \in Windows(t) /\ Chosen(t, a) \in Window
    <3>1. t \in Seq(Window) /\ Mine(t, a) # {}
      BY <2>1
    <3>2. Chosen(t, a) \in Mine(t, a)
      BY <3>1, ChosenFacts
    <3>3. Chosen(t, a) \in Windows(t)
      BY <3>2 DEF Mine
    <3> QED
      BY <3>1, <3>3, StackFacts
  <2>3. /\ Raised(t, Chosen(t, a)) \in Seq(Window) /\ Once(Raised(t, Chosen(t, a)))
        /\ Windows(Raised(t, Chosen(t, a))) = Windows(t) \cup {Chosen(t, a)}
    BY <2>1, <2>2, RaisedFacts
  <2> QED
    BY <2>1, <2>2, <2>3 DEF Shuffled
<1> HIDE DEF X
<1>3. F \in [X -> X]
  BY <1>2
<1> HIDE DEF F
<1>4. PICK g \in [Nat -> X] : Iterates(g, F, st)
  BY <1>1, <1>3, Iteration
<1>5. g[0] = st /\ \A n \in Nat : g[n + 1] = Raised(g[n], Chosen(g[n], a))
  BY <1>4 DEF F, Iterates
<1> DEFINE P(f) == f = [n \in Nat |-> IF n = 0 THEN st ELSE Raised(f[n - 1], Chosen(f[n - 1], a))]
<1>6. P(g)
  <2>1. \A n \in Nat : g[n] = IF n = 0 THEN st ELSE Raised(g[n - 1], Chosen(g[n - 1], a))
    <3> SUFFICES ASSUME NEW n \in Nat, n # 0 PROVE g[n] = Raised(g[n - 1], Chosen(g[n - 1], a))
      BY <1>5
    <3>1. n - 1 \in Nat /\ (n - 1) + 1 = n
      OBVIOUS
    <3> QED
      BY <1>5, <3>1
  <2> QED
    BY <1>4, <2>1
<1>7. Rounds(st, a) = CHOOSE f : P(f)
  BY DEF Rounds
<1>8. P(Rounds(st, a))
  <2> HIDE DEF P
  <2> QED
    BY <1>6, <1>7
<1> DEFINE r == Rounds(st, a)
<1> HIDE DEF r
<1>9. r = [n \in Nat |-> IF n = 0 THEN st ELSE Raised(r[n - 1], Chosen(r[n - 1], a))]
  BY <1>8 DEF r
<1> HIDE DEF P
<1>10. r[0] = st /\ \A n \in Nat : r[n + 1] = Raised(r[n], Chosen(r[n], a))
  <2>1. r[0] = st
    BY <1>9
  <2>2. \A n \in Nat : n + 1 \in Nat /\ n + 1 # 0 /\ (n + 1) - 1 = n
    OBVIOUS
  <2> QED
    BY <1>9, <2>1, <2>2
<1>11. \A n \in Nat : r[n] \in X
  <2> DEFINE T == {n \in Nat : r[n] \in X}
  <2>1. 0 \in T
    BY <1>1, <1>10
  <2>2. ASSUME NEW n \in Nat, n \in T PROVE n + 1 \in T
    <3>1. n + 1 \in Nat /\ r[n] \in X
      BY <2>2
    <3>2. Raised(r[n], Chosen(r[n], a)) \in X
      BY <1>2, <3>1
    <3>3. r[n + 1] = Raised(r[n], Chosen(r[n], a))
      BY <1>10
    <3> QED
      BY <3>1, <3>2, <3>3
  <2> HIDE DEF T
  <2>3. Nat \subseteq T
    BY <2>1, <2>2, Induction
  <2> QED
    BY <2>3 DEF T
<1> QED
  BY <1>10, <1>11 DEF X, r

\* Every window of A is under every one of B.
Below(t, A, B) == \A i, j \in 1 .. Len(t) : t[i] \in A /\ t[j] \in B => i < j

\* Of the windows M of an application, V were on top already, and the others
\* are under them: then the one that is chosen next is another one.
LEMMA NextOfRound ==
  ASSUME NEW t \in Seq(Window), Once(t), NEW a, NEW V, V \subseteq Mine(t, a), V # Mine(t, a),
         V # {} => Top(t) \in V, Below(t, Mine(t, a) \ V, V)
  PROVE  LET c == Chosen(t, a) IN
         /\ c \in Mine(t, a) \ V /\ Top(Raised(t, c)) = c
         /\ Below(Raised(t, c), Mine(t, a) \ (V \cup {c}), V \cup {c})
<1> DEFINE c == Chosen(t, a)
           M == Mine(t, a)
           r == Raised(t, c)
<1>1. M # {} /\ Len(t) \in Nat /\ DOMAIN t = 1 .. Len(t)
  BY StackFacts
<1>2. c \in M
  BY <1>1, ChosenFacts
<1>3. c \in Window
  BY <1>2, StackFacts DEF Mine
<1>4. c \notin V
  <2> SUFFICES ASSUME c \in V PROVE FALSE
    OBVIOUS
  <2>1. Top(t) \in M
    OBVIOUS
  <2>2. PICK m \in 1 .. Len(t) : t[m] = c /\ \A p \in 1 .. Len(t) : t[p] \in M => m <= p
    BY <1>1, <2>1, ChosenFacts
  <2>3. PICK w \in M : w \notin V
    OBVIOUS
  <2>4. PICK p \in 1 .. Len(t) : t[p] = w
    BY <2>3, StackFacts DEF Mine
  <2>5. p < m /\ m <= p
    BY <2>2, <2>3, <2>4 DEF Below
  <2> QED
    BY <1>1, <2>2, <2>4, <2>5
<1> HIDE DEF c, M
<1>5. /\ r \in Seq(Window) /\ Once(r) /\ Len(r) > 0 /\ Top(r) = c
      /\ \A i, j \in DOMAIN r : i < j /\ r[j] # c =>
           \E k, l \in DOMAIN t : k < l /\ t[k] = r[i] /\ t[l] = r[j]
  BY <1>3, RaisedFacts
<1> HIDE DEF r
<1>6. Len(r) \in Nat /\ DOMAIN r = 1 .. Len(r) /\ Len(r) \in 1 .. Len(r) /\ r[Len(r)] = c
  BY <1>5, StackFacts DEF Top
<1>7. Below(t, M \ V, V)
  BY DEF M
<1>8. Below(r, M \ (V \cup {c}), V \cup {c})
  <2> SUFFICES ASSUME NEW i \in 1 .. Len(r), NEW j \in 1 .. Len(r), r[i] \in M, r[i] \notin V, r[i] # c,
                      r[j] \in V \cup {c}
               PROVE  i < j
    BY DEF Below
  <2>1. CASE r[j] = c
    <3>0. Len(r) \in 1 .. Len(r) /\ r[j] = r[Len(r)]
      BY <1>6, <2>1
    <3>1. j = Len(r) /\ i # j
      <4>1. \A x, y \in DOMAIN r : r[x] = r[y] => x = y
        BY <1>5 DEF Once
      <4>2. j \in DOMAIN r /\ Len(r) \in DOMAIN r
        BY <1>6
      <4> QED
        BY <2>1, <3>0, <4>1, <4>2
    <3>2. \A n \in Nat : \A x, y \in 1 .. n : y = n /\ x # y => x < y
      OBVIOUS
    <3> QED
      BY <1>6, <3>1, <3>2
  <2>2. CASE r[j] # c
    <3> SUFFICES ASSUME j < i PROVE FALSE
      BY <1>6, <2>2
    <3>1. PICK k \in 1 .. Len(t), l \in 1 .. Len(t) : k < l /\ t[k] = r[j] /\ t[l] = r[i]
      BY <1>1, <1>5, <1>6
    <3>2. l < k
      BY <1>7, <2>2, <3>1 DEF Below
    <3> QED
      BY <1>1, <3>1, <3>2
  <2> QED
    BY <2>1, <2>2
<1> QED
  BY <1>2, <1>4, <1>5, <1>8 DEF c, M, r

LEMMA GoesRound ==
  ASSUME NEW st \in Seq(Window), Once(st), NEW a, Mine(st, a) # {}
  PROVE  {Top(Rounds(st, a)[n]) : n \in 1 .. Cardinality(Mine(st, a))} = Mine(st, a)
<1> DEFINE M == Mine(st, a)
           k == Cardinality(M)
           r == Rounds(st, a)
           V(n) == {Top(r[j]) : j \in 1 .. n}
           Good(n) == /\ V(n) \subseteq M /\ IsFiniteSet(V(n)) /\ Cardinality(V(n)) = n
                      /\ Below(r[n], M \ V(n), V(n))
                      /\ V(n) # {} => Top(r[n]) \in V(n)
           T == {n \in Nat : n <= k => Good(n)}
<1>1. IsFiniteSet(M) /\ k \in Nat
  <2>1. M \subseteq Window
    BY StackFacts DEF Mine
  <2> HIDE DEF M
  <2> QED
    BY <2>1, WindowsAssumption, FS_Subset, FS_CardinalityType
<1>2. \A n \in Nat : /\ r[n] \in Seq(Window) /\ Once(r[n]) /\ Mine(r[n], a) = M
                     /\ r[n + 1] = Raised(r[n], Chosen(r[n], a))
  BY RoundFacts DEF Shuffled, Mine
<1> HIDE DEF M, k, r
<1>3. 0 \in T
  <2>1. V(0) = {}
    OBVIOUS
  <2>2. Below(r[0], M \ {}, {})
    BY DEF Below
  <2> HIDE DEF V
  <2>3. Good(0)
    BY <2>1, <2>2, FS_EmptySet
  <2> HIDE DEF Good
  <2> QED
    BY <2>3
<1>4. ASSUME NEW n \in Nat, n \in T PROVE n + 1 \in T
  <2> SUFFICES ASSUME n + 1 <= k PROVE Good(n + 1)
    BY <1>1, <1>4
  <2>1. Good(n)
    BY <1>1, <1>4
  <2> DEFINE c == Chosen(r[n], a)
  <2>2. V(n) # M
    <3> HIDE DEF V
    <3>1. n # k
      BY <1>1
    <3> QED
      BY <2>1, <3>1 DEF k
  <2>3. /\ c \in M /\ c \notin V(n) /\ Top(r[n + 1]) = c
        /\ Below(r[n + 1], M \ (V(n) \cup {c}), V(n) \cup {c})
    <3> HIDE DEF V
    <3>1. r[n] \in Seq(Window) /\ Once(r[n]) /\ Mine(r[n], a) = M /\ r[n + 1] = Raised(r[n], c)
      BY <1>2
    <3>2. /\ V(n) \subseteq M /\ (V(n) # {} => Top(r[n]) \in V(n)) /\ Below(r[n], M \ V(n), V(n))
      BY <2>1
    <3>3. V(n) # Mine(r[n], a)
      BY <2>2, <3>1
    <3>4. LET d == Chosen(r[n], a) IN
            /\ d \in Mine(r[n], a) \ V(n) /\ Top(Raised(r[n], d)) = d
            /\ Below(Raised(r[n], d), Mine(r[n], a) \ (V(n) \cup {d}), V(n) \cup {d})
      BY <3>1, <3>2, <3>3, NextOfRound
    <3> QED
      BY <3>1, <3>4
  <2>4. V(n + 1) = V(n) \cup {c}
    <3>1. 1 .. n + 1 = (1 .. n) \cup {n + 1}
      OBVIOUS
    <3>2. V(n + 1) = {Top(r[j]) : j \in (1 .. n) \cup {n + 1}}
      BY <3>1
    <3>3. V(n + 1) = V(n) \cup {Top(r[n + 1])}
      BY <3>2
    <3> QED
      BY <2>3, <3>3
  <2> HIDE DEF V, c
  <2>5. IsFiniteSet(V(n) \cup {c}) /\ Cardinality(V(n) \cup {c}) = n + 1
    <3>1. IsFiniteSet(V(n)) /\ Cardinality(V(n)) = n /\ c \notin V(n)
      BY <2>1, <2>3
    <3> QED
      BY <3>1, FS_AddElement
  <2> QED
    BY <2>1, <2>3, <2>4, <2>5
<1>5. Nat \subseteq T
  <2> HIDE DEF T
  <2> QED
    BY <1>3, <1>4, Induction
<1>6. Good(k)
  <2> HIDE DEF Good
  <2>1. k \in T /\ k <= k
    BY <1>1, <1>5
  <2> QED
    BY <2>1
<1>7. V(k) = M
  <2> HIDE DEF V
  <2> QED
    BY <1>1, <1>6, FS_Subset DEF k
<1> QED
  BY <1>7 DEF M, k, r

\* The keyboard goes through all windows of an application, whatever else is
\* in the stack, when its key is pressed as often as it has windows: the loop of
\* focus_window_by_app_id.
THEOREM FocusRound == LockSpec => []FocusGoesRound
<1>1. WindowsInv => FocusGoesRound
  <2> SUFFICES ASSUME WindowsInv, NEW a \in App
               PROVE  LET st == stack[first]
                          mine == {st[i] : i \in WindowsOf(st, a)}
                          rounds == Rounds(st, a)
                      IN  mine # {} => {Top(rounds[n]) : n \in 1 .. Cardinality(mine)} = mine
    BY DEF FocusGoesRound
  <2> DEFINE st == stack[first]
  <2>1. st \in Seq(Window) /\ Once(st)
    BY StacksAreOnce DEF StacksOnce
  <2> HIDE DEF st
  <2>2. {st[i] : i \in WindowsOf(st, a)} = Mine(st, a)
    BY <2>1 DEF WindowsOf, Mine, Windows
  <2>3. Mine(st, a) # {} => {Top(Rounds(st, a)[n]) : n \in 1 .. Cardinality(Mine(st, a))} = Mine(st, a)
    BY <2>1, GoesRound
  <2> QED
    BY <2>2, <2>3 DEF st
<1> QED
  BY <1>1, LockInductive, PTL DEF LockInv

-----------------------------------------------------------------------------
(* The desktop is sound                                                      *)

FileInv ==
  /\ file \in Chunks \cup {Gone} /\ ran \in Chunks
  /\ watched \in {"off", "on", "heard"}
  /\ pending \in Seq({"Access", "Change"})
  /\ channel \in 0 .. ChannelSize
  /\ LastContentsWin

ConfigInv ==
  /\ idles \in Seq(Call)
  /\ loop \in {"start", "wait", "events", "idles"}
  /\ bound \subseteq Callback
  /\ dead \in BOOLEAN /\ turn \in BOOLEAN

ChannelInv ==
  /\ to_display \in Seq(DisplayMessage)
  /\ to_config \in Seq(ConfigMessage)
  /\ acts \in 0 .. MaxActs

DesktopInv == WindowsInv /\ FileInv /\ ConfigInv /\ ChannelInv

LEMMA FileStays ==
  ASSUME FileInv, UNCHANGED <<fileVars, dead>>
  PROVE  FileInv'
BY DEF FileInv, fileVars, LastContentsWin

LEMMA WindowsUnchanged ==
  ASSUME WindowsInv, UNCHANGED vars
  PROVE  WindowsInv'
<1>1. /\ StacksOnce' /\ NoWindowIsLost'
  BY StacksAreOnce DEF vars, WindowsInv, StacksOnce, NoWindowIsLost
<1>2. /\ spaces' \subseteq Space /\ first' \in spaces' /\ Main \in spaces' /\ panicked' \in BOOLEAN
      /\ life' \in [Window -> {"new", "open", "closed"}] /\ appId' \in [Window -> App \cup {NoApp}]
      /\ focus' \in Window \cup {NoWindow}
      /\ zones' \subseteq Zone /\ defaultZone' \in Zone \cup {NoZone} /\ rules' \in [App -> Zone \cup {NoZone}]
  BY DEF vars, WindowsInv, TypeOK, zoneVars
<1> QED
  BY <1>1, <1>2, WindowsParts

LEMMA EnterLoopSound == ASSUME DesktopInv, EnterLoop PROVE DesktopInv'
<1>1. /\ UNCHANGED <<vars, file, ran, pending, channel, idles, bound, dead, turn, to_display, to_config, acts>>
      /\ watched' \in {"off", "on"} /\ loop' = "wait"
  BY DEF EnterLoop
<1>2. FileInv' /\ ConfigInv' /\ ChannelInv'
  BY <1>1 DEF DesktopInv, FileInv, LastContentsWin, ConfigInv, ChannelInv
<1> QED
  BY <1>1, <1>2, WindowsUnchanged DEF DesktopInv

LEMMA ChangeFileSound ==
  ASSUME DesktopInv, NEW contents \in Chunks \cup {Gone}, ChangeFile(contents)
  PROVE  DesktopInv'
<1>1. /\ acts < MaxActs /\ acts' = acts + 1 /\ file' = contents
      /\ UNCHANGED <<vars, ran, channel, configVars, to_display, to_config>>
      /\ \/ watched = "off" /\ UNCHANGED <<watched, pending>>
         \/ watched' = "heard" /\ pending' = Append(pending, "Change")
  BY DEF ChangeFile
<1>2. FileInv'
  <2>1. CASE watched = "off" /\ UNCHANGED <<watched, pending>>
    BY <1>1, <2>1 DEF DesktopInv, FileInv, LastContentsWin
  <2>2. CASE watched' = "heard" /\ pending' = Append(pending, "Change")
    <3>1. /\ pending' \in Seq({"Access", "Change"})
          /\ Len(pending) \in Nat /\ Len(pending') = Len(pending) + 1 /\ pending'[Len(pending) + 1] = "Change"
      BY <2>2, AppendFacts DEF DesktopInv, FileInv
    <3>2. Len(pending) + 1 \in 1 .. Len(pending') /\ DOMAIN pending' = 1 .. Len(pending')
      BY <3>1, SeqFacts
    <3>3. LastContentsWin'
      BY <3>1, <3>2 DEF LastContentsWin
    <3> QED
      BY <1>1, <2>2, <3>1, <3>3 DEF DesktopInv, FileInv
  <2> QED
    BY <1>1, <2>1, <2>2
<1>3. ConfigInv' /\ ChannelInv'
  BY <1>1, DesktopAssumption DEF DesktopInv, ConfigInv, ChannelInv, configVars
<1> QED
  BY <1>1, <1>2, <1>3, WindowsUnchanged DEF DesktopInv

LEMMA WatchSound == ASSUME DesktopInv, Watch PROVE DesktopInv'
<1>1. /\ pending # <<>> /\ pending' = Tail(pending)
      /\ \/ Head(pending) = "Access" /\ UNCHANGED channel
         \/ channel < ChannelSize /\ channel' = channel + 1
      /\ UNCHANGED <<vars, file, ran, watched, configVars, to_display, to_config, acts>>
  BY DEF Watch
<1>2. /\ Len(pending) \in Nat /\ Head(pending) = pending[1] /\ pending' \in Seq({"Access", "Change"})
      /\ Len(pending') = Len(pending) - 1 /\ \A i \in 1 .. Len(pending') : pending'[i] = pending[i + 1]
      /\ DOMAIN pending = 1 .. Len(pending) /\ DOMAIN pending' = 1 .. Len(pending')
  <2>1. pending \in Seq({"Access", "Change"})
    BY DEF DesktopInv, FileInv
  <2>2. Tail(pending) \in Seq({"Access", "Change"})
    BY <1>1, <2>1, TailFacts
  <2> QED
    BY <1>1, <2>1, <2>2, TailFacts, SeqFacts
<1>3. channel' \in 0 .. ChannelSize
  BY <1>1, DesktopAssumption DEF DesktopInv, FileInv
<1>4. LastContentsWin'
  <2> SUFFICES ASSUME watched' = "heard", ~dead', channel' = 0, \A i \in DOMAIN pending' : pending'[i] = "Access"
               PROVE  ran' = file'
    BY DEF LastContentsWin
  <2>1. Head(pending) = "Access" /\ channel = 0
    BY <1>1 DEF DesktopInv, FileInv
  <2>2. ASSUME NEW i \in 1 .. Len(pending) PROVE pending[i] = "Access"
    <3>1. CASE i = 1
      BY <1>2, <2>1, <3>1
    <3>2. CASE i # 1
      <4>1. i - 1 \in 1 .. Len(pending') /\ (i - 1) + 1 = i
        BY <1>2, <3>2
      <4> QED
        BY <1>2, <4>1
    <3> QED
      BY <3>1, <3>2
  <2> QED
    BY <1>1, <1>2, <2>1, <2>2 DEF DesktopInv, FileInv, LastContentsWin, configVars
<1>5. FileInv'
  BY <1>1, <1>2, <1>3, <1>4 DEF DesktopInv, FileInv
<1>6. ConfigInv' /\ ChannelInv'
  BY <1>1 DEF DesktopInv, ConfigInv, ChannelInv, configVars
<1> QED
  BY <1>1, <1>5, <1>6, WindowsUnchanged DEF DesktopInv

LEMMA ReloadSound == ASSUME DesktopInv, Reload PROVE DesktopInv'
<1>1. /\ loop' = "events" /\ channel > 0 /\ channel' = channel - 1
      /\ UNCHANGED <<vars, file, watched, bound, to_display, to_config, acts>>
      /\ \/ dead' = TRUE /\ UNCHANGED <<pending, ran, idles, turn>>
         \/ /\ file # Gone /\ pending' = Append(pending, "Access") /\ ran' = file
            /\ idles' = idles \o file.calls /\ turn' = ~turn /\ dead' = file.fails
  BY DEF Reload, Event, Execute
<1>2. channel' \in 0 .. ChannelSize
  BY <1>1, DesktopAssumption DEF DesktopInv, FileInv
<1>3. FileInv' /\ ConfigInv'
  <2>1. CASE dead' = TRUE /\ UNCHANGED <<pending, ran, idles, turn>>
    BY <1>1, <1>2, <2>1 DEF DesktopInv, FileInv, LastContentsWin, ConfigInv
  <2>2. CASE /\ file # Gone /\ pending' = Append(pending, "Access") /\ ran' = file
             /\ idles' = idles \o file.calls /\ turn' = ~turn /\ dead' = file.fails
    <3>1. file \in Chunks
      BY <2>2 DEF DesktopInv, FileInv
    <3>2. file.calls \in Seq(Call) /\ file.fails \in BOOLEAN
      BY <3>1, DesktopAssumption
    <3>3. idles' \in Seq(Call)
      BY <2>2, <3>2, ConcatFacts DEF DesktopInv, ConfigInv
    <3>4. pending' \in Seq({"Access", "Change"})
      BY <2>2, AppendFacts DEF DesktopInv, FileInv
    <3>5. LastContentsWin'
      BY <1>1, <2>2 DEF LastContentsWin
    <3>6. FileInv'
      BY <1>1, <1>2, <2>2, <3>1, <3>4, <3>5 DEF DesktopInv, FileInv
    <3> QED
      BY <1>1, <2>2, <3>2, <3>3, <3>6 DEF DesktopInv, ConfigInv
  <2> QED
    BY <1>1, <2>1, <2>2
<1>4. ChannelInv'
  BY <1>1 DEF DesktopInv, ChannelInv
<1> QED
  BY <1>1, <1>3, <1>4, WindowsUnchanged DEF DesktopInv

\* An event from the display: a callback runs, or a program is started.
LEMMA ReceiveSound == ASSUME DesktopInv, HandleRunCallback \/ HandleSpawn PROVE DesktopInv'
<1>1. /\ loop' = "events" /\ to_config # <<>> /\ to_config' = Tail(to_config)
      /\ UNCHANGED <<vars, fileVars, bound, dead, to_display, acts>>
      /\ \/ UNCHANGED <<idles, turn>>
         \/ /\ Head(to_config).kind = "RunCallback"
            /\ idles' = idles \o Body[Head(to_config).callback] /\ turn' = ~turn
  BY DEF HandleRunCallback, HandleSpawn, Receive, Event, Execute
<1>2. Head(to_config) \in ConfigMessage /\ to_config' \in Seq(ConfigMessage)
  <2>1. Tail(to_config) \in Seq(ConfigMessage) /\ Head(to_config) \in ConfigMessage
    BY <1>1, TailFacts DEF DesktopInv, ChannelInv
  <2> QED
    BY <1>1, <2>1
<1>3. ConfigInv'
  <2>1. CASE UNCHANGED <<idles, turn>>
    BY <1>1, <2>1 DEF DesktopInv, ConfigInv
  <2>2. CASE /\ Head(to_config).kind = "RunCallback"
             /\ idles' = idles \o Body[Head(to_config).callback] /\ turn' = ~turn
    <3>1. Head(to_config).callback \in Callback
      BY <1>2, <2>2 DEF ConfigMessage
    <3>2. Body[Head(to_config).callback] \in Seq(Call)
      BY <3>1, DesktopAssumption
    <3>3. idles' \in Seq(Call)
      BY <2>2, <3>2, ConcatFacts DEF DesktopInv, ConfigInv
    <3> QED
      BY <1>1, <2>2, <3>3 DEF DesktopInv, ConfigInv
  <2> QED
    BY <1>1, <2>1, <2>2
<1>4. FileInv' /\ ChannelInv'
  BY <1>1, <1>2, FileStays DEF DesktopInv, ChannelInv
<1> QED
  BY <1>1, <1>3, <1>4, WindowsUnchanged DEF DesktopInv

LEMMA IdleSound == ASSUME DesktopInv, Forward \/ Spawn \/ MapKey PROVE DesktopInv'
<1>1. /\ idles # <<>> /\ idles' = Tail(idles) /\ loop' = "idles"
      /\ UNCHANGED <<vars, fileVars, dead, turn, to_config, acts>>
  BY DEF Forward, Spawn, MapKey, NextIdle
<1>2. Head(idles) \in Call /\ idles' \in Seq(Call)
  <2>1. Tail(idles) \in Seq(Call) /\ Head(idles) \in Call
    BY <1>1, TailFacts DEF DesktopInv, ConfigInv
  <2> QED
    BY <1>1, <2>1
<1>3. bound' \subseteq Callback
  <2>1. CASE MapKey
    <3>1. bound' = bound \cup {Head(idles).callback} /\ Head(idles).call = "map_key"
      BY <2>1 DEF MapKey, NextIdle
    <3>2. Head(idles).callback \in Callback
      BY <1>2, <3>1 DEF Call, DisplayMessage, ZoneCalls, WindowCalls, LayoutCalls, SpawnCalls, KeymapCalls
    <3> QED
      BY <3>1, <3>2 DEF DesktopInv, ConfigInv
  <2>2. CASE UNCHANGED bound
    BY <2>2 DEF DesktopInv, ConfigInv
  <2> QED
    BY <2>1, <2>2 DEF Forward, Spawn
<1>4. to_display' \in Seq(DisplayMessage)
  <2>1. CASE Forward
    <3>1. to_display' = Append(to_display, Head(idles)) /\ Head(idles).call \in Forwarded
      BY <2>1 DEF Forward, NextIdle
    <3>2. Head(idles) \in DisplayMessage
      BY <1>2, <3>1 DEF Call, DisplayMessage, SpawnCalls, KeymapCalls, Forwarded
    <3> QED
      BY <3>1, <3>2, AppendFacts DEF DesktopInv, ChannelInv
  <2>2. CASE UNCHANGED to_display
    BY <2>2 DEF DesktopInv, ChannelInv
  <2> QED
    BY <2>1, <2>2 DEF Spawn, MapKey
<1>5. FileInv' /\ ConfigInv' /\ ChannelInv'
  BY <1>1, <1>2, <1>3, <1>4, FileStays DEF DesktopInv, ConfigInv, ChannelInv
<1> QED
  BY <1>1, <1>5, WindowsUnchanged DEF DesktopInv

LEMMA KeyPressedSound == ASSUME DesktopInv, NEW c \in Callback, KeyPressed(c) PROVE DesktopInv'
<1>1. /\ acts < MaxActs /\ acts' = acts + 1
      /\ to_config' = Append(to_config, [kind |-> "RunCallback", callback |-> c])
      /\ UNCHANGED <<vars, fileVars, configVars, to_display>>
  BY DEF KeyPressed
<1>2. [kind |-> "RunCallback", callback |-> c] \in ConfigMessage
  BY DEF ConfigMessage
<1>3. to_config' \in Seq(ConfigMessage) /\ acts' \in 0 .. MaxActs
  BY <1>1, <1>2, AppendFacts, DesktopAssumption DEF DesktopInv, ChannelInv
<1>4. FileInv' /\ ConfigInv' /\ ChannelInv'
  BY <1>1, <1>3, FileStays DEF DesktopInv, ConfigInv, ChannelInv, configVars
<1> QED
  BY <1>1, <1>4, WindowsUnchanged DEF DesktopInv

\* A message to the display changes the windows, and may ask for a program.
LEMMA MessageSound == ASSUME DesktopInv, DisplayThread PROVE DesktopInv'
<1> DEFINE m == Head(to_display)
<1>1. /\ ~panicked /\ to_display # <<>> /\ to_display' = Tail(to_display)
      /\ UNCHANGED <<fileVars, configVars, acts>>
  BY DEF DisplayThread, HandleSetZones, HandleAddWindowRule, HandleMoveCurrentWindow, HandleSetLayout,
         HandleFocusOrSpawn, Message
<1>2. m \in DisplayMessage /\ to_display' \in Seq(DisplayMessage)
  <2>1. Tail(to_display) \in Seq(DisplayMessage) /\ m \in DisplayMessage
    BY <1>1, TailFacts DEF DesktopInv, ChannelInv
  <2> QED
    BY <1>1, <2>1
<1>3. FileInv' /\ ConfigInv'
  BY <1>1, FileStays DEF DesktopInv, ConfigInv, configVars
<1>4. WindowsInv
  BY DEF DesktopInv
<1>5. WindowsInv'
  <2>1. CASE HandleSetZones
    <3>1. m.call = "set_zones" /\ SetZones(m.zones, m.default)
      BY <2>1 DEF HandleSetZones, Message
    <3>2. m.zones \in SUBSET Zone /\ m.default \in Zone \cup {NoZone}
      BY <1>2, <3>1 DEF DisplayMessage, ZoneCalls, WindowCalls, LayoutCalls
    <3> QED
      BY <1>4, <3>1, <3>2, ConfigStep
  <2>2. CASE HandleAddWindowRule
    <3>1. m.call = "add_window_rule" /\ AddWindowRule(m.app, m.zone)
      BY <2>2 DEF HandleAddWindowRule, Message
    <3>2. m.app \in App /\ m.zone \in Zone
      BY <1>2, <3>1 DEF DisplayMessage, ZoneCalls, WindowCalls, LayoutCalls
    <3> QED
      BY <1>4, <3>1, <3>2, ConfigStep
  <2>3. CASE HandleMoveCurrentWindow
    BY <1>1, <1>4, <2>3, MoveCurrentStep, WindowsUnchanged DEF HandleMoveCurrentWindow
  <2>4. CASE HandleSetLayout
    <3>1. m.call = "set_layout" /\ (UNCHANGED vars \/ AddSpaces(m.spaces))
      BY <2>4 DEF HandleSetLayout, Message
    <3>2. m.spaces \in SUBSET Space
      BY <1>2, <3>1 DEF DisplayMessage, ZoneCalls, WindowCalls, LayoutCalls
    <3> QED
      BY <1>4, <3>1, <3>2, ConfigStep, WindowsUnchanged
  <2>5. CASE HandleFocusOrSpawn
    <3>1. UNCHANGED vars \/ FocusWindow(first, Chosen(stack[first], m.app))
      BY <2>5 DEF HandleFocusOrSpawn, FocusWindowByAppId
    <3>2. first \in Space
      BY <1>4, StacksAreOnce
    <3> QED
      BY <1>4, <3>1, <3>2, FocusWindowStep, WindowsUnchanged
  <2> QED
    BY <2>1, <2>2, <2>3, <2>4, <2>5 DEF DisplayThread
<1>6. to_config' \in Seq(ConfigMessage)
  <2>1. CASE UNCHANGED to_config
    BY <2>1 DEF DesktopInv, ChannelInv
  <2>2. CASE HandleFocusOrSpawn /\ to_config' = Append(to_config, [kind |-> "Spawn", app |-> m.app])
    <3>1. m.call = "focus_or_spawn"
      BY <2>2 DEF HandleFocusOrSpawn, Message
    <3>2. m.app \in App
      BY <1>2, <3>1 DEF DisplayMessage, ZoneCalls, WindowCalls, LayoutCalls
    <3>3. [kind |-> "Spawn", app |-> m.app] \in ConfigMessage
      BY <3>2 DEF ConfigMessage
    <3> QED
      BY <2>2, <3>3, AppendFacts DEF DesktopInv, ChannelInv
  <2> QED
    BY <2>1, <2>2 DEF DisplayThread, HandleSetZones, HandleAddWindowRule, HandleMoveCurrentWindow,
                      HandleSetLayout, HandleFocusOrSpawn
<1> QED
  BY <1>1, <1>2, <1>3, <1>5, <1>6 DEF DesktopInv, ChannelInv

LEMMA ClientsSound == ASSUME DesktopInv, Clients PROVE DesktopInv'
<1>1. ~panicked /\ UNCHANGED <<fileVars, configVars, to_display, to_config, acts>> /\ WindowsInv
  BY DEF Clients, DesktopInv
<1>2. FileInv' /\ ConfigInv' /\ ChannelInv'
  BY <1>1, FileStays DEF DesktopInv, ConfigInv, ChannelInv, configVars
<1>3. WindowsInv'
  <2>1. \A s \in spaces : s \in Space
    BY <1>1, StacksAreOnce
  <2>2. ASSUME NEW s \in spaces, NEW w \in Window, FocusWindow(s, w) PROVE WindowsInv'
    BY <1>1, <2>1, <2>2, FocusWindowStep
  <2> QED
    BY <1>1, <2>2, ClientStep, RefreshStep DEF Clients
<1> QED
  BY <1>2, <1>3 DEF DesktopInv

LEMMA DesktopInitInv == DesktopInit => DesktopInv
<1> SUFFICES ASSUME DesktopInit PROVE DesktopInv
  OBVIOUS
<1>1. WindowsInv
  BY WindowsInit DEF DesktopInit
<1>2. file \in Chunks /\ file.calls \in Seq(Call)
  BY DesktopAssumption DEF DesktopInit
<1>3. FileInv
  <2>1. pending \in Seq({"Access", "Change"}) /\ channel \in 0 .. ChannelSize
    BY DesktopAssumption DEF DesktopInit
  <2> QED
    BY <1>2, <2>1 DEF DesktopInit, FileInv, LastContentsWin
<1>4. ConfigInv
  BY <1>2 DEF DesktopInit, ConfigInv
<1>5. ChannelInv
  <2>1. to_display \in Seq(DisplayMessage) /\ to_config \in Seq(ConfigMessage)
    BY DEF DesktopInit
  <2> QED
    BY <2>1, DesktopAssumption DEF DesktopInit, ChannelInv
<1> QED
  BY <1>1, <1>3, <1>4, <1>5 DEF DesktopInv

LEMMA DesktopNextInv == DesktopInv /\ [DesktopNext]_desktopVars => DesktopInv'
<1> SUFFICES ASSUME DesktopInv, [DesktopNext]_desktopVars PROVE DesktopInv'
  OBVIOUS
<1>1. CASE UNCHANGED desktopVars
  <2>1. UNCHANGED <<vars, fileVars, configVars, to_display, to_config, acts>>
    BY <1>1 DEF desktopVars
  <2>2. FileInv' /\ ConfigInv' /\ ChannelInv'
    BY <2>1, FileStays DEF DesktopInv, ConfigInv, ChannelInv, configVars
  <2> QED
    BY <2>1, <2>2, WindowsUnchanged DEF DesktopInv
<1>2. CASE EndDispatch
  <2>1. UNCHANGED <<vars, fileVars, idles, bound, dead, turn, to_display, to_config, acts>> /\ loop' = "wait"
    BY <1>2 DEF EndDispatch
  <2>2. FileInv' /\ ConfigInv' /\ ChannelInv'
    BY <2>1, FileStays DEF DesktopInv, ConfigInv, ChannelInv
  <2> QED
    BY <2>1, <2>2, WindowsUnchanged DEF DesktopInv
<1> QED
  BY <1>1, <1>2, EnterLoopSound, WatchSound, ReloadSound, ReceiveSound, IdleSound, MessageSound,
     ChangeFileSound, KeyPressedSound, ClientsSound
     DEF DesktopNext, ConfigThread, Outside

\* The types, the bound of the watcher's channel, and that the contents run last
\* are those of the file once all reports are handled, for any contents, scripts
\* and windows.
THEOREM DesktopSound == DesktopSpec => []DesktopIsSound
<1>1. DesktopInv => DesktopIsSound
  BY DEF DesktopInv, DesktopIsSound, DesktopTypeOK, WindowsInv, FileInv, ConfigInv, ChannelInv
<1> QED
  BY <1>1, DesktopInitInv, DesktopNextInv, PTL DEF DesktopSpec

-----------------------------------------------------------------------------
(* Scripts that agree on the zones: the inductive invariant *)

Sets(c) == c.call = "set_zones"

\* The call presumes that zones were set.
Needs(c) == c.call = "map_key" \/ ZonesOf(c) # {}

\* What ScriptsAgree says about each single call.
Agrees(c) == ZonesOf(c) \subseteq Named /\ (Sets(c) => Named \subseteq c.zones)

\* Each call of the sequence that needs zones comes after one that sets them.
Prepared(calls) ==
  \A i \in 1 .. Len(calls) : Needs(calls[i]) => \E j \in 1 .. i : Sets(calls[j])

Have == Named \subseteq zones

\* The zones are there or on their way to the display.
Ready == Have \/ \E j \in 1 .. Len(to_display) : Sets(to_display[j])

Types ==
  /\ file \in Chunks \cup {Gone}
  /\ idles \in Seq(Call)
  /\ bound \subseteq Callback
  /\ to_display \in Seq(DisplayMessage)
  /\ to_config \in Seq(ConfigMessage)
  /\ rules \in [App -> Zone \cup {NoZone}]
  /\ panicked \in BOOLEAN

\* Zones in use are named by a script, and are there.
UsesAgree ==
  /\ \A a \in App : rules[a] # NoZone => rules[a] \in Named /\ Have
  /\ defaultZone # NoZone => defaultZone \in Named /\ Have

WaitAgree ==
  /\ \A i \in 1 .. Len(idles) : Agrees(idles[i])
  /\ \A i \in 1 .. Len(to_display) : Agrees(to_display[i])

DisplayPrepared == Have \/ Prepared(to_display)

IdlesPrepared == Ready \/ Prepared(idles)

\* Callbacks run only after the file that maps them has sent its zones.
KeysPrepared ==
  /\ bound # {} => Ready
  /\ \A i \in 1 .. Len(to_config) : to_config[i].kind = "RunCallback" => Ready

IInv ==
  Types /\ UsesAgree /\ WaitAgree /\ DisplayPrepared /\ IdlesPrepared /\ KeysPrepared /\ ~panicked

-----------------------------------------------------------------------------
(* Scripts *)

LEMMA ScriptFacts ==
  ASSUME ScriptsAgree
  PROVE  /\ \A s \in Scripts : s \in Seq(Call) /\ \A i \in 1 .. Len(s) : Agrees(s[i])
         /\ \A c \in Chunks : c.calls \in Scripts /\ Prepared(c.calls) /\ c.fails \in BOOLEAN
         /\ \A c \in Callback : Body[c] \in Scripts
<1>1. \A c \in Chunks : c.calls \in Seq(Call) /\ c.fails \in BOOLEAN
  BY DesktopAssumption
<1>2. \A c \in Callback : Body[c] \in Seq(Call)
  BY DesktopAssumption
<1>3. \A c \in Chunks : c.calls \in Scripts
  BY DEF Scripts
<1>4. \A c \in Callback : Body[c] \in Scripts
  BY DEF Scripts
<1>5. \A s \in Scripts : s \in Seq(Call)
  BY <1>1, <1>2 DEF Scripts
<1>6. ASSUME NEW s \in Scripts, NEW i \in 1 .. Len(s)
      PROVE  Agrees(s[i])
  <2>1. DOMAIN s = 1 .. Len(s)
    BY <1>5, SeqFacts
  <2>2. ZonesOf(s[i]) \subseteq Named
    BY <2>1 DEF Named
  <2>3. Sets(s[i]) => Named \subseteq s[i].zones
    BY <2>1 DEF ScriptsAgree, Sets
  <2> QED
    BY <2>2, <2>3 DEF Agrees
<1>7. ASSUME NEW c \in Chunks
      PROVE  Prepared(c.calls)
  <2>1. DOMAIN c.calls = 1 .. Len(c.calls)
    BY <1>1, SeqFacts
  <2> QED
    BY <2>1 DEF ScriptsAgree, Prepared, Needs, Sets
<1> QED
  BY <1>1, <1>3, <1>4, <1>5, <1>6, <1>7

-----------------------------------------------------------------------------
(* Initial states *)

LEMMA InitInv == ScriptsAgree /\ DesktopInit => IInv
<1> SUFFICES ASSUME ScriptsAgree, DesktopInit PROVE IInv
  OBVIOUS
<1>1. /\ file.calls \in Seq(Call) /\ Prepared(file.calls)
      /\ \A i \in 1 .. Len(file.calls) : Agrees(file.calls[i])
  BY ScriptFacts DEF DesktopInit
<1>2. /\ idles = file.calls /\ to_display = <<>> /\ to_config = <<>> /\ bound = {}
      /\ rules = [a \in App |-> NoZone] /\ defaultZone = NoZone /\ panicked = FALSE
      /\ file \in Chunks
  BY DEF DesktopInit, Init
<1>3. Types
  <2>1. to_display \in Seq(DisplayMessage) /\ to_config \in Seq(ConfigMessage)
    BY <1>2
  <2>2. rules \in [App -> Zone \cup {NoZone}]
    BY <1>2
  <2> QED
    BY <1>1, <1>2, <2>1, <2>2 DEF Types
<1>4. UsesAgree
  BY <1>2 DEF UsesAgree
<1>5. WaitAgree /\ DisplayPrepared
  BY <1>1, <1>2 DEF WaitAgree, DisplayPrepared, Prepared
<1>6. IdlesPrepared /\ KeysPrepared
  BY <1>1, <1>2 DEF IdlesPrepared, KeysPrepared
<1> QED
  BY <1>2, <1>3, <1>4, <1>5, <1>6 DEF IInv

-----------------------------------------------------------------------------
(* Steps of the config thread *)

\* A step that touches neither the calls nor the zones.
LEMMA OtherStep ==
  ASSUME IInv, UNCHANGED <<idles, bound, to_display, to_config, zoneVars, panicked>>,
         file' \in Chunks \cup {Gone}
  PROVE  IInv'
<1>1. (Ready <=> Ready') /\ (Have <=> Have')
  BY DEF Ready, Have, zoneVars
<1>2. Types' /\ UsesAgree' /\ WaitAgree' /\ ~panicked'
  BY DEF IInv, Types, UsesAgree, WaitAgree, Have, zoneVars
<1>3. DisplayPrepared' /\ IdlesPrepared' /\ KeysPrepared'
  BY <1>1 DEF IInv, DisplayPrepared, IdlesPrepared, KeysPrepared, Prepared
<1> QED
  BY <1>2, <1>3 DEF IInv

\* More calls wait that are prepared, or for which zones are on their way.
LEMMA ExecuteStep ==
  ASSUME IInv, NEW calls \in Seq(Call), Execute(calls),
         \A i \in 1 .. Len(calls) : Agrees(calls[i]),
         Ready \/ Prepared(calls),
         to_config' \in Seq(ConfigMessage),
         \A i \in 1 .. Len(to_config') : to_config'[i].kind = "RunCallback" => Ready,
         UNCHANGED <<file, bound, to_display, zoneVars, panicked>>
  PROVE  IInv'
<1>1. idles \in Seq(Call) /\ idles' = idles \o calls
  BY DEF IInv, Types, Execute
<1>2. /\ idles' \in Seq(Call)
      /\ Len(idles) \in Nat /\ Len(calls) \in Nat /\ Len(idles') = Len(idles) + Len(calls)
      /\ \A i \in 1 .. Len(idles) : idles'[i] = idles[i]
      /\ \A i \in 1 .. Len(calls) : idles'[Len(idles) + i] = calls[i]
  BY <1>1, ConcatFacts
<1>3. \A i \in 1 .. Len(idles') :
        \/ i \in 1 .. Len(idles)
        \/ \E k \in 1 .. Len(calls) : i = Len(idles) + k
  <2> SUFFICES ASSUME NEW i \in 1 .. Len(idles'), i \notin 1 .. Len(idles)
               PROVE  \E k \in 1 .. Len(calls) : i = Len(idles) + k
    OBVIOUS
  <2>1. i - Len(idles) \in 1 .. Len(calls) /\ i = Len(idles) + (i - Len(idles))
    BY <1>2
  <2> QED
    BY <2>1
<1>4. (Ready <=> Ready') /\ (Have <=> Have')
  BY DEF Ready, Have, zoneVars
<1>5. \A i \in 1 .. Len(idles') : Agrees(idles'[i])
  BY <1>2, <1>3 DEF IInv, WaitAgree
<1>6. ASSUME ~Ready
      PROVE  Prepared(idles')
  <2>1. Prepared(idles) /\ Prepared(calls)
    BY <1>6 DEF IInv, IdlesPrepared
  <2> SUFFICES ASSUME NEW i \in 1 .. Len(idles'), Needs(idles'[i])
               PROVE  \E j \in 1 .. i : Sets(idles'[j])
    BY DEF Prepared
  <2>2. CASE i \in 1 .. Len(idles)
    <3>1. PICK j \in 1 .. i : Sets(idles[j])
      BY <2>1, <2>2, <1>2 DEF Prepared
    <3>2. j \in 1 .. Len(idles)
      BY <2>2, <1>2
    <3> QED
      BY <3>1, <3>2, <1>2
  <2>3. CASE \E k \in 1 .. Len(calls) : i = Len(idles) + k
    <3>1. PICK k \in 1 .. Len(calls) : i = Len(idles) + k
      BY <2>3
    <3>2. PICK j \in 1 .. k : Sets(calls[j])
      BY <2>1, <3>1, <1>2 DEF Prepared
    <3>3. j \in 1 .. Len(calls) /\ Len(idles) + j \in 1 .. i
      BY <3>1, <3>2, <1>2
    <3> QED
      BY <3>2, <3>3, <1>2
  <2> QED
    BY <2>2, <2>3, <1>3
<1>7. IdlesPrepared'
  BY <1>4, <1>6 DEF IdlesPrepared
<1>8. Types' /\ UsesAgree' /\ ~panicked'
  BY <1>2 DEF IInv, Types, UsesAgree, Have, zoneVars
<1>9. WaitAgree'
  BY <1>5 DEF IInv, WaitAgree
<1>10. DisplayPrepared' /\ KeysPrepared'
  BY <1>4 DEF IInv, DisplayPrepared, KeysPrepared, Prepared
<1> QED
  BY <1>7, <1>8, <1>9, <1>10 DEF IInv

LEMMA ReloadStep == ASSUME ScriptsAgree, IInv, Reload PROVE IInv'
<1>1. UNCHANGED <<file, bound, to_display, to_config, zoneVars, panicked>>
  BY DEF Reload, vars
<1>2. CASE file = Gone
  BY <1>1, <1>2, OtherStep DEF Reload, IInv, Types
<1>3. CASE file # Gone
  <2>1. file \in Chunks /\ Execute(file.calls)
    BY <1>3 DEF Reload, IInv, Types
  <2>2. /\ file.calls \in Seq(Call) /\ Prepared(file.calls)
        /\ \A i \in 1 .. Len(file.calls) : Agrees(file.calls[i])
    BY <2>1, ScriptFacts
  <2>3. /\ to_config' \in Seq(ConfigMessage)
        /\ \A i \in 1 .. Len(to_config') : to_config'[i].kind = "RunCallback" => Ready
    BY <1>1 DEF IInv, Types, KeysPrepared
  <2> QED
    BY <1>1, <2>1, <2>2, <2>3, ExecuteStep
<1> QED
  BY <1>2, <1>3

\* The messages that stay in the channel are among those that were there.
LEMMA ReceiveFacts ==
  ASSUME IInv, NEW kind, Receive(kind)
  PROVE  /\ to_config' \in Seq(ConfigMessage) /\ Head(to_config) \in ConfigMessage
         /\ \A i \in 1 .. Len(to_config') : to_config'[i].kind = "RunCallback" => Ready
         /\ Head(to_config).kind = kind /\ (kind = "RunCallback" => Ready)
         /\ UNCHANGED <<file, bound, to_display, zoneVars, panicked>>
<1>1. /\ to_config \in Seq(ConfigMessage) /\ to_config # <<>> /\ to_config' = Tail(to_config)
      /\ Head(to_config).kind = kind
      /\ UNCHANGED <<file, bound, to_display, zoneVars, panicked>>
  BY DEF IInv, Types, Receive, vars, fileVars
<1>2. /\ Len(to_config) \in Nat /\ Len(to_config) >= 1
      /\ Head(to_config) = to_config[1] /\ Head(to_config) \in ConfigMessage
      /\ Tail(to_config) \in Seq(ConfigMessage) /\ Len(Tail(to_config)) = Len(to_config) - 1
      /\ \A i \in 1 .. Len(Tail(to_config)) : Tail(to_config)[i] = to_config[i + 1]
  BY <1>1, TailFacts
<1>3. \A i \in 1 .. Len(to_config) : to_config[i].kind = "RunCallback" => Ready
  BY DEF IInv, KeysPrepared
<1>4. \A i \in 1 .. Len(to_config') : i + 1 \in 1 .. Len(to_config)
  BY <1>1, <1>2
<1> QED
  BY <1>1, <1>2, <1>3, <1>4

LEMMA RunCallbackStep == ASSUME ScriptsAgree, IInv, HandleRunCallback PROVE IInv'
<1>1. Receive("RunCallback") /\ Execute(Body[Head(to_config).callback])
  BY DEF HandleRunCallback
<1>2. /\ to_config' \in Seq(ConfigMessage) /\ Head(to_config) \in ConfigMessage
      /\ \A i \in 1 .. Len(to_config') : to_config'[i].kind = "RunCallback" => Ready
      /\ Head(to_config).kind = "RunCallback" /\ Ready
      /\ UNCHANGED <<file, bound, to_display, zoneVars, panicked>>
  BY <1>1, ReceiveFacts
<1>3. Head(to_config).callback \in Callback
  BY <1>2 DEF ConfigMessage
<1>4. /\ Body[Head(to_config).callback] \in Seq(Call)
      /\ \A i \in 1 .. Len(Body[Head(to_config).callback]) :
            Agrees(Body[Head(to_config).callback][i])
  BY <1>3, ScriptFacts
<1> QED
  BY <1>1, <1>2, <1>4, ExecuteStep

LEMMA HandleSpawnStep == ASSUME IInv, HandleSpawn PROVE IInv'
<1>1. Receive("Spawn") /\ UNCHANGED idles
  BY DEF HandleSpawn
<1>2. /\ to_config' \in Seq(ConfigMessage)
      /\ \A i \in 1 .. Len(to_config') : to_config'[i].kind = "RunCallback" => Ready
      /\ UNCHANGED <<file, bound, to_display, zoneVars, panicked>>
  BY <1>1, ReceiveFacts
<1>3. (Ready <=> Ready') /\ (Have <=> Have')
  BY <1>2 DEF Ready, Have, zoneVars
<1>4. Types' /\ UsesAgree' /\ WaitAgree' /\ ~panicked'
  BY <1>1, <1>2 DEF IInv, Types, UsesAgree, WaitAgree, Have, zoneVars
<1>5. DisplayPrepared' /\ IdlesPrepared' /\ KeysPrepared'
  BY <1>1, <1>2, <1>3 DEF IInv, DisplayPrepared, IdlesPrepared, KeysPrepared, Prepared
<1> QED
  BY <1>4, <1>5 DEF IInv

-----------------------------------------------------------------------------
(* Idles and keys *)

\* What is left of the idles when the first of them has run; Now is what makes
\* the zones ready after it.
LEMMA NextIdleFacts ==
  ASSUME IInv, NEW names, NextIdle(names)
  PROVE  /\ idles \in Seq(Call) /\ Len(idles) \in Nat /\ Len(idles) >= 1
         /\ Head(idles) = idles[1] /\ Head(idles) \in Call /\ Head(idles).call \in names
         /\ idles' \in Seq(Call) /\ Len(idles') = Len(idles) - 1
         /\ \A i \in 1 .. Len(idles') : idles'[i] = idles[i + 1] /\ i + 1 \in 1 .. Len(idles)
         /\ Agrees(Head(idles))
         /\ \A i \in 1 .. Len(idles') : Agrees(idles'[i])
         /\ Needs(Head(idles)) => Ready \/ Sets(Head(idles))
         /\ Ready \/ Sets(Head(idles)) \/ Prepared(idles')
         /\ UNCHANGED <<file, to_config, zoneVars, panicked>>
<1>1. /\ idles \in Seq(Call) /\ idles # <<>> /\ idles' = Tail(idles)
      /\ Head(idles).call \in names
      /\ UNCHANGED <<file, to_config, zoneVars, panicked>>
  BY DEF IInv, Types, NextIdle, vars, fileVars
<1>2. /\ Len(idles) \in Nat /\ Len(idles) >= 1
      /\ Head(idles) = idles[1] /\ Head(idles) \in Call
      /\ Tail(idles) \in Seq(Call) /\ Len(Tail(idles)) = Len(idles) - 1
      /\ \A i \in 1 .. Len(Tail(idles)) : Tail(idles)[i] = idles[i + 1]
  BY <1>1, TailFacts
<1>3. \A i \in 1 .. Len(idles') : idles'[i] = idles[i + 1] /\ i + 1 \in 1 .. Len(idles)
  BY <1>1, <1>2
<1>4. \A i \in 1 .. Len(idles) : Agrees(idles[i])
  BY DEF IInv, WaitAgree
<1>5. 1 \in 1 .. Len(idles)
  BY <1>2
<1>6. Needs(Head(idles)) => Ready \/ Sets(Head(idles))
  <2> SUFFICES ASSUME Needs(Head(idles)), ~Ready PROVE Sets(Head(idles))
    OBVIOUS
  <2>1. PICK j \in 1 .. 1 : Sets(idles[j])
    BY <1>2, <1>5 DEF IInv, IdlesPrepared, Prepared
  <2> QED
    BY <1>2, <2>1
<1>7. ASSUME ~Ready, ~Sets(Head(idles))
      PROVE  Prepared(idles')
  <2> SUFFICES ASSUME NEW i \in 1 .. Len(idles'), Needs(idles'[i])
               PROVE  \E j \in 1 .. i : Sets(idles'[j])
    BY DEF Prepared
  <2>1. i + 1 \in 1 .. Len(idles) /\ Needs(idles[i + 1])
    BY <1>3
  <2>2. PICK j \in 1 .. (i + 1) : Sets(idles[j])
    BY <1>7, <2>1 DEF IInv, IdlesPrepared, Prepared
  <2>3. j # 1
    BY <1>2, <1>7, <2>2
  <2>4. j - 1 \in 1 .. i /\ j - 1 \in 1 .. Len(idles')
    BY <1>1, <1>2, <2>1, <2>2, <2>3
  <2>5. idles'[j - 1] = idles[j]
    BY <1>3, <2>4
  <2> QED
    BY <2>2, <2>4, <2>5
<1> QED
  BY <1>1, <1>2, <1>3, <1>4, <1>5, <1>6, <1>7

LEMMA ForwardStep == ASSUME IInv, Forward PROVE IInv'
<1>1. NextIdle(Forwarded) /\ to_display' = Append(to_display, Head(idles)) /\ bound' = bound
  BY DEF Forward
<1>2. /\ Head(idles) \in Call /\ Head(idles).call \in Forwarded
      /\ idles' \in Seq(Call) /\ Agrees(Head(idles))
      /\ \A i \in 1 .. Len(idles') : Agrees(idles'[i])
      /\ Needs(Head(idles)) => Ready \/ Sets(Head(idles))
      /\ Ready \/ Sets(Head(idles)) \/ Prepared(idles')
      /\ UNCHANGED <<file, to_config, zoneVars, panicked>>
  BY <1>1, NextIdleFacts
<1>3. Head(idles) \in DisplayMessage
  BY <1>2 DEF Call, DisplayMessage, SpawnCalls, KeymapCalls, Forwarded
<1>4. /\ to_display' \in Seq(DisplayMessage)
      /\ Len(to_display) \in Nat /\ Len(to_display') = Len(to_display) + 1
      /\ \A i \in 1 .. Len(to_display) : to_display'[i] = to_display[i]
      /\ to_display'[Len(to_display) + 1] = Head(idles)
  BY <1>1, <1>3, AppendFacts DEF IInv, Types
<1>5. \A i \in 1 .. Len(to_display') : i \in 1 .. Len(to_display) \/ i = Len(to_display) + 1
  BY <1>4
<1>6. Have <=> Have'
  BY <1>2 DEF Have, zoneVars
<1>7. \A i \in 1 .. Len(to_display) : i \in 1 .. Len(to_display')
  BY <1>4
<1>8. Len(to_display) + 1 \in 1 .. Len(to_display')
  BY <1>4
<1>9. Ready \/ Sets(Head(idles)) => Ready'
  BY <1>4, <1>6, <1>7, <1>8 DEF Ready
<1>10. Types' /\ UsesAgree' /\ ~panicked'
  BY <1>1, <1>2, <1>4 DEF IInv, Types, UsesAgree, Have, zoneVars
<1>11. WaitAgree'
  BY <1>2, <1>4, <1>5 DEF IInv, WaitAgree
<1>12. ASSUME ~Have
       PROVE  Prepared(to_display')
  <2>1. Prepared(to_display)
    BY <1>12 DEF IInv, DisplayPrepared
  <2> SUFFICES ASSUME NEW i \in 1 .. Len(to_display'), Needs(to_display'[i])
               PROVE  \E j \in 1 .. i : Sets(to_display'[j])
    BY DEF Prepared
  <2>2. CASE i \in 1 .. Len(to_display)
    <3>1. PICK j \in 1 .. i : Sets(to_display[j])
      BY <1>4, <2>1, <2>2 DEF Prepared
    <3>2. j \in 1 .. Len(to_display)
      BY <1>4, <2>2
    <3> QED
      BY <1>4, <3>1, <3>2
  <2>3. CASE i = Len(to_display) + 1
    <3>1. Ready \/ Sets(Head(idles))
      BY <1>2, <1>4, <2>3
    <3>2. CASE Sets(Head(idles))
      <4>1. i \in 1 .. i
        BY <1>4, <2>3
      <4> QED
        BY <1>4, <2>3, <3>2, <4>1
    <3>3. CASE Ready
      <4>1. PICK j \in 1 .. Len(to_display) : Sets(to_display[j])
        BY <1>12, <3>3 DEF Ready
      <4>2. j \in 1 .. i
        BY <1>4, <2>3, <4>1
      <4> QED
        BY <1>4, <4>1, <4>2
    <3> QED
      BY <3>1, <3>2, <3>3
  <2> QED
    BY <1>5, <2>2, <2>3
<1>13. DisplayPrepared'
  BY <1>6, <1>12 DEF DisplayPrepared
<1>14. IdlesPrepared' /\ KeysPrepared'
  BY <1>1, <1>2, <1>9 DEF IInv, IdlesPrepared, KeysPrepared
<1> QED
  BY <1>10, <1>11, <1>13, <1>14 DEF IInv

\* spawn and map_key send nothing to the display.
LEMMA SilentIdleStep ==
  ASSUME IInv, NEW names, NextIdle(names), "set_zones" \notin names,
         UNCHANGED to_display, bound' \subseteq Callback,
         bound' = bound \/ Needs(Head(idles))
  PROVE  IInv'
<1>1. /\ idles' \in Seq(Call) /\ Head(idles).call \in names
      /\ \A i \in 1 .. Len(idles') : Agrees(idles'[i])
      /\ Needs(Head(idles)) => Ready \/ Sets(Head(idles))
      /\ Ready \/ Sets(Head(idles)) \/ Prepared(idles')
      /\ UNCHANGED <<file, to_config, zoneVars, panicked>>
  BY NextIdleFacts
<1>2. ~Sets(Head(idles))
  BY <1>1 DEF Sets
<1>3. (Ready <=> Ready') /\ (Have <=> Have')
  BY <1>1 DEF Ready, Have, zoneVars
<1>4. Types' /\ UsesAgree' /\ ~panicked'
  BY <1>1 DEF IInv, Types, UsesAgree, Have, zoneVars
<1>5. WaitAgree' /\ DisplayPrepared'
  BY <1>1, <1>3 DEF IInv, WaitAgree, DisplayPrepared, Prepared
<1>6. IdlesPrepared' /\ KeysPrepared'
  BY <1>1, <1>2, <1>3 DEF IInv, IdlesPrepared, KeysPrepared
<1> QED
  BY <1>4, <1>5, <1>6 DEF IInv

LEMMA MapKeyStep == ASSUME IInv, MapKey PROVE IInv'
<1>1. /\ NextIdle({"map_key"}) /\ UNCHANGED to_display
      /\ bound' = bound \cup {Head(idles).callback}
  BY DEF MapKey
<1>2. Head(idles) \in Call /\ Head(idles).call = "map_key"
  BY <1>1, NextIdleFacts
<1>3. Head(idles).callback \in Callback
  BY <1>2 DEF Call, DisplayMessage, ZoneCalls, WindowCalls, LayoutCalls, SpawnCalls, KeymapCalls
<1>4. bound' \subseteq Callback
  BY <1>1, <1>3 DEF IInv, Types
<1>5. Needs(Head(idles))
  BY <1>2 DEF Needs
<1> QED
  BY <1>1, <1>4, <1>5, SilentIdleStep

LEMMA SpawnStep == ASSUME IInv, Spawn PROVE IInv'
<1>1. NextIdle({"spawn"}) /\ UNCHANGED <<bound, to_display>>
  BY DEF Spawn
<1>2. bound' \subseteq Callback
  BY <1>1 DEF IInv, Types
<1> QED
  BY <1>1, <1>2, SilentIdleStep

LEMMA KeyPressedStep == ASSUME IInv, NEW c \in Callback, KeyPressed(c) PROVE IInv'
<1>1. /\ c \in bound /\ to_config' = Append(to_config, [kind |-> "RunCallback", callback |-> c])
      /\ UNCHANGED <<file, idles, bound, to_display, zoneVars, panicked>>
  BY DEF KeyPressed, vars, fileVars, configVars
<1>2. Ready /\ (Ready <=> Ready') /\ (Have <=> Have')
  BY <1>1 DEF IInv, KeysPrepared, Ready, Have, zoneVars
<1>3. [kind |-> "RunCallback", callback |-> c] \in ConfigMessage
  BY DEF ConfigMessage
<1>4. to_config' \in Seq(ConfigMessage)
  BY <1>1, <1>3, AppendFacts DEF IInv, Types
<1>5. Types' /\ UsesAgree' /\ WaitAgree' /\ ~panicked'
  BY <1>1, <1>4 DEF IInv, Types, UsesAgree, WaitAgree, Have, zoneVars
<1>6. DisplayPrepared' /\ IdlesPrepared' /\ KeysPrepared'
  BY <1>1, <1>2 DEF IInv, DisplayPrepared, IdlesPrepared, KeysPrepared, Prepared
<1> QED
  BY <1>5, <1>6 DEF IInv

-----------------------------------------------------------------------------
(* Steps of the display thread and of clients *)

\* What is left of the channel when its first message is handled.
LEMMA MessageFacts ==
  ASSUME IInv, NEW name, Message(name)
  PROVE  /\ Head(to_display) \in DisplayMessage /\ Head(to_display).call = name
         /\ to_display' \in Seq(DisplayMessage)
         /\ Agrees(Head(to_display))
         /\ Needs(Head(to_display)) => Have \/ Sets(Head(to_display))
         /\ \A i \in 1 .. Len(to_display') : Agrees(to_display'[i])
         /\ Have \/ Sets(Head(to_display)) \/ Prepared(to_display')
         /\ Ready => \/ Have \/ Sets(Head(to_display))
                     \/ \E j \in 1 .. Len(to_display') : Sets(to_display'[j])
         /\ UNCHANGED <<file, idles, bound>>
<1>1. /\ to_display \in Seq(DisplayMessage) /\ to_display # <<>>
      /\ to_display' = Tail(to_display) /\ Head(to_display).call = name
      /\ UNCHANGED <<file, idles, bound>>
  BY DEF IInv, Types, Message, fileVars, configVars
<1>2. /\ Len(to_display) \in Nat /\ Len(to_display) >= 1
      /\ Head(to_display) = to_display[1] /\ Head(to_display) \in DisplayMessage
      /\ Tail(to_display) \in Seq(DisplayMessage)
      /\ Len(Tail(to_display)) = Len(to_display) - 1
      /\ \A i \in 1 .. Len(Tail(to_display)) : Tail(to_display)[i] = to_display[i + 1]
  BY <1>1, TailFacts
<1>3. \A i \in 1 .. Len(to_display') :
        to_display'[i] = to_display[i + 1] /\ i + 1 \in 1 .. Len(to_display)
  BY <1>1, <1>2
<1>4. 1 \in 1 .. Len(to_display) /\ \A i \in 1 .. Len(to_display) : Agrees(to_display[i])
  BY <1>2 DEF IInv, WaitAgree
<1>5. ASSUME Needs(Head(to_display)), ~Have
      PROVE  Sets(Head(to_display))
  <2>1. PICK j \in 1 .. 1 : Sets(to_display[j])
    BY <1>2, <1>4, <1>5 DEF IInv, DisplayPrepared, Prepared
  <2> QED
    BY <1>2, <2>1
<1>6. ASSUME NEW j \in 1 .. Len(to_display), ~Sets(Head(to_display)), Sets(to_display[j])
      PROVE  j - 1 \in 1 .. Len(to_display') /\ Sets(to_display'[j - 1])
  <2>1. j # 1
    BY <1>2, <1>6
  <2>2. j - 1 \in 1 .. Len(to_display')
    BY <1>1, <1>2, <2>1
  <2>3. to_display'[j - 1] = to_display[j]
    BY <1>3, <2>2
  <2> QED
    BY <1>6, <2>2, <2>3
<1>7. ASSUME ~Have, ~Sets(Head(to_display))
      PROVE  Prepared(to_display')
  <2> SUFFICES ASSUME NEW i \in 1 .. Len(to_display'), Needs(to_display'[i])
               PROVE  \E j \in 1 .. i : Sets(to_display'[j])
    BY DEF Prepared
  <2>1. i + 1 \in 1 .. Len(to_display) /\ Needs(to_display[i + 1])
    BY <1>3
  <2>2. PICK j \in 1 .. (i + 1) : Sets(to_display[j])
    BY <1>7, <2>1 DEF IInv, DisplayPrepared, Prepared
  <2>3. j \in 1 .. Len(to_display)
    BY <1>2, <2>1, <2>2
  <2>4. j - 1 \in 1 .. Len(to_display') /\ Sets(to_display'[j - 1])
    BY <1>6, <1>7, <2>2, <2>3
  <2>5. j - 1 \in 1 .. i
    BY <2>2, <2>4
  <2> QED
    BY <2>4, <2>5
<1>8. ASSUME Ready, ~Have, ~Sets(Head(to_display))
      PROVE  \E j \in 1 .. Len(to_display') : Sets(to_display'[j])
  <2>1. PICK j \in 1 .. Len(to_display) : Sets(to_display[j])
    BY <1>8 DEF Ready
  <2> QED
    BY <1>6, <1>8, <2>1
<1> QED
  BY <1>1, <1>2, <1>3, <1>4, <1>5, <1>7, <1>8

\* A message that keeps the zones that are needed, uses zones that are there
\* and at most asks for a program.
LEMMA MessageStep ==
  ASSUME IInv, NEW name, Message(name),
         Have \/ Sets(Head(to_display)) => Have',
         \A i \in 1 .. Len(to_config') : to_config'[i].kind = "RunCallback" =>
            \E k \in 1 .. Len(to_config) : to_config[k].kind = "RunCallback",
         to_config' \in Seq(ConfigMessage),
         rules' \in [App -> Zone \cup {NoZone}],
         UsesAgree', panicked' = FALSE
  PROVE  IInv'
<1>1. /\ to_display' \in Seq(DisplayMessage)
      /\ \A i \in 1 .. Len(to_display') : Agrees(to_display'[i])
      /\ Have \/ Sets(Head(to_display)) \/ Prepared(to_display')
      /\ Ready => \/ Have \/ Sets(Head(to_display))
                  \/ \E j \in 1 .. Len(to_display') : Sets(to_display'[j])
      /\ UNCHANGED <<file, idles, bound>>
  BY MessageFacts
<1>2. Ready => Ready'
  BY <1>1 DEF Ready
<1>3. Types' /\ ~panicked'
  BY <1>1 DEF IInv, Types
<1>4. WaitAgree' /\ DisplayPrepared'
  BY <1>1 DEF IInv, WaitAgree, DisplayPrepared
<1>5. IdlesPrepared' /\ KeysPrepared'
  BY <1>1, <1>2 DEF IInv, IdlesPrepared, KeysPrepared
<1> QED
  BY <1>3, <1>4, <1>5 DEF IInv

LEMMA SetZonesStep == ASSUME IInv, HandleSetZones PROVE IInv'
<1>1. /\ Message("set_zones") /\ UNCHANGED to_config
      /\ zones' = Head(to_display).zones
      /\ defaultZone' = IF Head(to_display).default = NoZone
                          THEN defaultZone ELSE Head(to_display).default
      /\ UNCHANGED <<rules, panicked>>
  BY DEF HandleSetZones, SetZones
<1>2. Head(to_display).call = "set_zones" /\ Agrees(Head(to_display))
  BY <1>1, MessageFacts
<1>3. Have' /\ ({Head(to_display).default} \ {NoZone}) \subseteq Named
  BY <1>1, <1>2 DEF Agrees, Sets, Have, ZonesOf
<1>4. UsesAgree'
  BY <1>1, <1>3 DEF IInv, UsesAgree
<1>5. to_config' \in Seq(ConfigMessage) /\ rules' \in [App -> Zone \cup {NoZone}] /\ panicked' = FALSE
  BY <1>1 DEF IInv, Types
<1> QED
  BY <1>1, <1>3, <1>4, <1>5, MessageStep

LEMMA AddWindowRuleStep == ASSUME IInv, HandleAddWindowRule PROVE IInv'
<1> DEFINE m == Head(to_display)
<1>1. /\ Message("add_window_rule") /\ UNCHANGED to_config
      /\ rules' = [rules EXCEPT ![m.app] = m.zone]
      /\ UNCHANGED <<zones, defaultZone, panicked>>
  BY DEF HandleAddWindowRule, AddWindowRule
<1>2. m \in DisplayMessage /\ m.call = "add_window_rule" /\ Agrees(m) /\ (Needs(m) => Have \/ Sets(m))
  BY <1>1, MessageFacts
<1>3. m.app \in App /\ m.zone \in Zone
  BY <1>2 DEF DisplayMessage, ZoneCalls, WindowCalls, LayoutCalls
<1>4. ZonesOf(m) = {m.zone} /\ ~Sets(m)
  BY <1>2 DEF ZonesOf, Sets
<1>5. m.zone \in Named /\ Have
  BY <1>2, <1>4 DEF Agrees, Needs
<1>6. rules' \in [App -> Zone \cup {NoZone}] /\ Have'
      /\ \A a \in App : rules'[a] = IF a = m.app THEN m.zone ELSE rules[a]
  BY <1>1, <1>3, <1>5 DEF IInv, Types, Have
<1>7. UsesAgree'
  BY <1>1, <1>5, <1>6 DEF IInv, UsesAgree
<1>8. to_config' \in Seq(ConfigMessage) /\ panicked' = FALSE
  BY <1>1 DEF IInv, Types
<1> QED
  BY <1>1, <1>6, <1>7, <1>8, MessageStep

\* place_window finds the zone that it looks up.
LEMMA PlaceFinds ==
  ASSUME IInv, NEW s, NEW w, NEW a, NEW newFocus,
         NEW asked, asked = NoZone \/ (asked \in Named /\ Have),
         Place(s, w, a, asked, newFocus)
  PROVE  panicked' = FALSE
<1>1. ZoneFor(a, asked) \in zones \cup {NoZone}
  BY DEF IInv, UsesAgree, ZoneFor, Have
<1>2. panicked \in BOOLEAN /\ ~panicked
  BY DEF IInv, Types
<1> QED
  BY <1>1, <1>2 DEF Place

\* A message that changes windows only.
LEMMA WindowMessageStep ==
  ASSUME IInv, NEW name, Message(name), ~Sets(Head(to_display)),
         to_config' \in Seq(ConfigMessage),
         \A i \in 1 .. Len(to_config') : to_config'[i].kind = "RunCallback" =>
            \E k \in 1 .. Len(to_config) : to_config[k].kind = "RunCallback",
         UNCHANGED zoneVars, panicked' = FALSE
  PROVE  IInv'
<1>1. (Have => Have') /\ UsesAgree' /\ rules' \in [App -> Zone \cup {NoZone}]
  BY DEF IInv, Types, UsesAgree, Have, zoneVars
<1> QED
  BY <1>1, MessageStep

LEMMA MoveStep == ASSUME IInv, HandleMoveCurrentWindow PROVE IInv'
<1> DEFINE m == Head(to_display)
<1>1. Message("move_current_window_to_zone") /\ UNCHANGED to_config
  BY DEF HandleMoveCurrentWindow
<1>2. m \in DisplayMessage /\ m.call = "move_current_window_to_zone"
      /\ Agrees(m) /\ (Needs(m) => Have \/ Sets(m))
  BY <1>1, MessageFacts
<1>3. ZonesOf(m) = {m.zone} /\ ~Sets(m)
  BY <1>2 DEF ZonesOf, Sets
<1>4. m.zone \in Named /\ Have
  BY <1>2, <1>3 DEF Agrees, Needs
<1>5. UNCHANGED zoneVars /\ panicked' = FALSE
  <2>1. CASE focus = NoWindow
    BY <2>1 DEF HandleMoveCurrentWindow, vars, IInv, Types
  <2>2. CASE focus # NoWindow
    <3>1. Place(first, focus, appId[focus], m.zone, focus) /\ UNCHANGED zoneVars
      BY <2>2 DEF HandleMoveCurrentWindow, MoveCurrentWindowToZone
    <3> QED
      BY <1>4, <3>1, PlaceFinds
  <2> QED
    BY <2>1, <2>2
<1>6. to_config' \in Seq(ConfigMessage)
  BY <1>1 DEF IInv, Types
<1> QED
  BY <1>1, <1>3, <1>5, <1>6, WindowMessageStep

LEMMA SetLayoutStep == ASSUME IInv, HandleSetLayout PROVE IInv'
<1>1. Message("set_layout") /\ UNCHANGED to_config /\ UNCHANGED <<zoneVars, panicked>>
  BY DEF HandleSetLayout, AddSpaces, vars
<1>2. ~Sets(Head(to_display))
  BY <1>1, MessageFacts DEF Sets
<1>3. to_config' \in Seq(ConfigMessage) /\ panicked' = FALSE
  BY <1>1 DEF IInv, Types
<1> QED
  BY <1>1, <1>2, <1>3, WindowMessageStep

LEMMA FocusOrSpawnStep == ASSUME IInv, HandleFocusOrSpawn PROVE IInv'
<1> DEFINE a == Head(to_display).app
           spawn == [kind |-> "Spawn", app |-> a]
<1>1. Message("focus_or_spawn") /\ UNCHANGED <<zoneVars, panicked>>
      /\ (to_config' = to_config \/ to_config' = Append(to_config, spawn))
  BY DEF HandleFocusOrSpawn, FocusWindowByAppId, FocusWindow, vars
<1>2. Head(to_display) \in DisplayMessage /\ Head(to_display).call = "focus_or_spawn"
  BY <1>1, MessageFacts
<1>3. a \in App /\ ~Sets(Head(to_display))
  BY <1>2 DEF DisplayMessage, ZoneCalls, WindowCalls, LayoutCalls, Sets
<1>4. spawn \in ConfigMessage /\ spawn.kind # "RunCallback"
  BY <1>3 DEF ConfigMessage
<1>5. to_config \in Seq(ConfigMessage) /\ panicked' = FALSE
  BY <1>1 DEF IInv, Types
<1>6. /\ to_config' \in Seq(ConfigMessage)
      /\ \A i \in 1 .. Len(to_config') : to_config'[i].kind = "RunCallback" =>
            \E k \in 1 .. Len(to_config) : to_config[k].kind = "RunCallback"
  <2>1. CASE to_config' = to_config
    BY <1>5, <2>1
  <2>2. CASE to_config' = Append(to_config, spawn)
    <3>1. /\ to_config' \in Seq(ConfigMessage)
          /\ Len(to_config) \in Nat /\ Len(to_config') = Len(to_config) + 1
          /\ \A i \in 1 .. Len(to_config) : to_config'[i] = to_config[i]
          /\ to_config'[Len(to_config) + 1] = spawn
      BY <1>4, <1>5, <2>2, AppendFacts
    <3>2. \A i \in 1 .. Len(to_config') : i \in 1 .. Len(to_config) \/ i = Len(to_config) + 1
      BY <3>1
    <3> QED
      BY <1>4, <3>1, <3>2
  <2> QED
    BY <1>1, <2>1, <2>2
<1> QED
  BY <1>1, <1>3, <1>5, <1>6, WindowMessageStep

LEMMA ClientsStep == ASSUME IInv, Clients PROVE IInv'
<1>1. UNCHANGED <<file, idles, bound, to_display, to_config>>
  BY DEF Clients, fileVars, configVars
<1>2. UNCHANGED zoneVars /\ panicked' = FALSE
  <2>0. panicked = FALSE
    BY DEF IInv, Types
  <2>1. ASSUME NEW w \in Window, NewToplevel(w)
        PROVE  UNCHANGED zoneVars /\ panicked' = FALSE
    BY <2>1, PlaceFinds DEF NewToplevel
  <2>2. ASSUME NEW w \in Window, NEW a \in App, AppIdChanged(w, a)
        PROVE  UNCHANGED zoneVars /\ panicked' = FALSE
    <3>1. CASE w \in Windows(stack[first])
      BY <2>2, <3>1, PlaceFinds DEF AppIdChanged
    <3>2. CASE w \notin Windows(stack[first])
      BY <2>0, <2>2, <3>2 DEF AppIdChanged
    <3> QED
      BY <3>1, <3>2
  <2>3. ASSUME NEW w \in Window, MapAgain(w) \/ ToplevelDestroyed(w)
        PROVE  UNCHANGED zoneVars /\ panicked' = FALSE
    BY <2>0, <2>3 DEF MapAgain, ToplevelDestroyed
  <2>4. ASSUME NEW s \in spaces, NEW w \in Window, FocusWindow(s, w)
        PROVE  UNCHANGED zoneVars /\ panicked' = FALSE
    BY <2>0, <2>4 DEF FocusWindow
  <2>5. CASE Refresh
    BY <2>0, <2>5 DEF Refresh
  <2> QED
    BY <2>1, <2>2, <2>3, <2>4, <2>5 DEF Clients, Client
<1>3. panicked' = panicked /\ file' \in Chunks \cup {Gone}
  BY <1>1, <1>2 DEF IInv, Types
<1> QED
  BY <1>1, <1>2, <1>3, OtherStep

-----------------------------------------------------------------------------
(* The theorem *)

LEMMA StepInv == ScriptsAgree /\ IInv /\ [DesktopNext]_desktopVars => IInv'
<1> SUFFICES ASSUME ScriptsAgree, IInv, [DesktopNext]_desktopVars PROVE IInv'
  OBVIOUS
<1>0. file \in Chunks \cup {Gone}
  BY DEF IInv, Types
<1>1. CASE UNCHANGED desktopVars
  BY <1>0, <1>1, OtherStep DEF desktopVars, vars, fileVars, configVars
<1>2. CASE EnterLoop
  BY <1>0, <1>2, OtherStep DEF EnterLoop, vars
<1>3. CASE Watch
  BY <1>0, <1>3, OtherStep DEF Watch, vars, configVars
<1>4. CASE ConfigThread
  <2>1. CASE EndDispatch
    BY <1>0, <2>1, OtherStep DEF EndDispatch, vars, fileVars
  <2> QED
    BY <1>4, <2>1, ReloadStep, RunCallbackStep, HandleSpawnStep, ForwardStep, SpawnStep, MapKeyStep
       DEF ConfigThread
<1>5. CASE DisplayThread
  BY <1>5, SetZonesStep, AddWindowRuleStep, MoveStep, SetLayoutStep, FocusOrSpawnStep
     DEF DisplayThread
<1>6. CASE Outside
  <2>1. ASSUME NEW contents \in Chunks \cup {Gone}, ChangeFile(contents)
        PROVE  IInv'
    BY <2>1, OtherStep DEF ChangeFile, vars, configVars
  <2> QED
    BY <1>6, <2>1, KeyPressedStep DEF Outside
<1>7. CASE Clients
  BY <1>7, ClientsStep
<1> QED
  BY <1>1, <1>2, <1>3, <1>4, <1>5, <1>6, <1>7 DEF DesktopNext

\* A configuration whose scripts agree on the zones never makes the display
\* thread panic in place_window, for any windows, zones, scripts and bounds.
THEOREM ConfigIsSafe == DesktopSpec => []ConfigNeverPanicsDisplay
<1>1. CASE ScriptsAgree
  <2>1. DesktopInit => IInv
    BY <1>1, InitInv
  <2>2. IInv /\ [DesktopNext]_desktopVars => IInv'
    BY <1>1, StepInv
  <2>3. IInv => ConfigNeverPanicsDisplay
    BY DEF IInv, ConfigNeverPanicsDisplay
  <2> QED
    BY <2>1, <2>2, <2>3, PTL DEF DesktopSpec
<1>2. CASE ~ScriptsAgree
  <2>1. ConfigNeverPanicsDisplay
    BY <1>2 DEF ConfigNeverPanicsDisplay
  <2> QED
    BY <2>1, PTL
<1> QED
  BY <1>1, <1>2

-----------------------------------------------------------------------------
(* What calls come to *)

Setting == [zones : SUBSET Zone, default : Zone \cup {NoZone}, rules : [App -> Zone \cup {NoZone}]]

LEMMA EffectFacts ==
  ASSUME NEW st \in Setting, NEW c \in Call
  PROVE  /\ Effects!Effect(st, c) \in Setting
         /\ c.call \notin {"set_zones", "add_window_rule"} => Effects!Effect(st, c) = st
<1>1. CASE c.call = "set_zones"
  <2>1. c.zones \in SUBSET Zone /\ c.default \in Zone \cup {NoZone}
    BY <1>1 DEF Call, DisplayMessage, ZoneCalls, WindowCalls, LayoutCalls, SpawnCalls, KeymapCalls
  <2> QED
    BY <1>1, <2>1 DEF Effects!Effect, Setting
<1>2. CASE c.call = "add_window_rule"
  <2>1. c.app \in App /\ c.zone \in Zone
    BY <1>2 DEF Call, DisplayMessage, ZoneCalls, WindowCalls, LayoutCalls, SpawnCalls, KeymapCalls
  <2>2. Effects!Effect(st, c) = [st EXCEPT !.rules = [st.rules EXCEPT ![c.app] = c.zone]]
    BY <1>2 DEF Effects!Effect
  <2>3. [st.rules EXCEPT ![c.app] = c.zone] \in [App -> Zone \cup {NoZone}]
    BY <2>1 DEF Setting
  <2> QED
    BY <1>2, <2>2, <2>3 DEF Setting
<1>3. CASE c.call \notin {"set_zones", "add_window_rule"}
  BY <1>3 DEF Effects!Effect
<1> QED
  BY <1>1, <1>2, <1>3

\* h tells the settings after each prefix of s.
Tells(h, st, s) == h[0] = st /\ \A i \in 1 .. Len(s) : h[i] = Effects!Effect(h[i - 1], s[i])

LEMMA AfterIs ==
  ASSUME NEW st, NEW s \in Seq(Call), NEW X, NEW h \in [0 .. Len(s) -> X], Tells(h, st, s)
  PROVE  Effects!After(st, s) = h[Len(s)]
<1> DEFINE P(f) == f = [i \in 0 .. Len(s) |-> IF i = 0 THEN st ELSE Effects!Effect(f[i - 1], s[i])]
           f == CHOOSE f : P(f)
<1>0. Len(s) \in Nat
  OBVIOUS
<1>1. P(h)
  <2>1. \A i \in 0 .. Len(s) : h[i] = IF i = 0 THEN st ELSE Effects!Effect(h[i - 1], s[i])
    <3> SUFFICES ASSUME NEW i \in 0 .. Len(s) PROVE h[i] = IF i = 0 THEN st ELSE Effects!Effect(h[i - 1], s[i])
      OBVIOUS
    <3>1. i # 0 => i \in 1 .. Len(s)
      BY <1>0
    <3> QED
      BY <3>1 DEF Tells
  <2> QED
    BY <2>1
<1>2. P(f)
  <2> HIDE DEF P
  <2> QED
    BY <1>1
<1> HIDE DEF f
<1>3. \A i \in Nat : i \in 0 .. Len(s) => f[i] = h[i]
  <2> DEFINE T == {i \in Nat : i \in 0 .. Len(s) => f[i] = h[i]}
  <2>1. 0 \in T
    BY <1>0, <1>1, <1>2
  <2>2. ASSUME NEW i \in Nat, i \in T PROVE i + 1 \in T
    <3> SUFFICES ASSUME i + 1 \in 0 .. Len(s) PROVE f[i + 1] = h[i + 1]
      OBVIOUS
    <3>1. i \in 0 .. Len(s) /\ (i + 1) - 1 = i /\ i + 1 # 0
      BY <1>0
    <3>2. f[i] = h[i]
      BY <2>2, <3>1
    <3>3. f[i + 1] = Effects!Effect(f[(i + 1) - 1], s[i + 1]) /\ h[i + 1] = Effects!Effect(h[(i + 1) - 1], s[i + 1])
      <4>1. \A j \in 0 .. Len(s) : j # 0 => f[j] = Effects!Effect(f[j - 1], s[j]) /\ h[j] = Effects!Effect(h[j - 1], s[j])
        BY <1>1, <1>2
      <4> QED
        BY <3>1, <4>1
    <3> QED
      BY <3>1, <3>2, <3>3
  <2> HIDE DEF T
  <2>3. Nat \subseteq T
    BY <2>1, <2>2, Induction
  <2> QED
    BY <2>3 DEF T
<1>4. Effects!After(st, s) = f[Len(s)]
  BY DEF Effects!After, f
<1> QED
  BY <1>0, <1>3, <1>4

LEMMA AfterExists ==
  ASSUME NEW st \in Setting, NEW s \in Seq(Call)
  PROVE  \E h \in [0 .. Len(s) -> Setting] : Tells(h, st, s)
<1> DEFINE Told(n) == {h \in [0 .. n -> Setting] : h[0] = st /\ \A i \in 1 .. n : h[i] = Effects!Effect(h[i - 1], s[i])}
           T == {n \in Nat : n <= Len(s) => Told(n) # {}}
<1>0. Len(s) \in Nat /\ \A i \in 1 .. Len(s) : s[i] \in Call
  OBVIOUS
<1>1. 0 \in T
  <2>1. [i \in 0 .. 0 |-> st] \in Told(0)
    OBVIOUS
  <2> QED
    BY <2>1
<1>2. ASSUME NEW n \in Nat, n \in T PROVE n + 1 \in T
  <2> SUFFICES ASSUME n + 1 <= Len(s) PROVE Told(n + 1) # {}
    OBVIOUS
  <2>1. PICK h \in Told(n) : TRUE
    BY <1>0, <1>2
  <2>2. /\ h \in [0 .. n -> Setting] /\ h[0] = st
        /\ \A i \in 1 .. n : h[i] = Effects!Effect(h[i - 1], s[i])
    BY <2>1
  <2> DEFINE e == Effects!Effect(h[n], s[n + 1])
             k == [i \in 0 .. n + 1 |-> IF i = n + 1 THEN e ELSE h[i]]
  <2>3. e \in Setting
    <3>1. s[n + 1] \in Call /\ h[n] \in Setting
      BY <1>0, <2>2
    <3> QED
      BY <3>1, EffectFacts
  <2> HIDE DEF e
  <2>4. k \in [0 .. n + 1 -> Setting] /\ k[0] = st
    BY <2>2, <2>3
  <2>5. ASSUME NEW i \in 1 .. n + 1 PROVE k[i] = Effects!Effect(k[i - 1], s[i])
    <3>1. CASE i = n + 1
      <4>1. k[i] = e /\ k[i - 1] = h[n] /\ s[i] = s[n + 1]
        BY <3>1
      <4> QED
        BY <4>1 DEF e
    <3>2. CASE i # n + 1
      <4>1. i \in 1 .. n /\ k[i] = h[i] /\ k[i - 1] = h[i - 1]
        BY <3>2
      <4> QED
        BY <2>2, <4>1
    <3> QED
      BY <3>1, <3>2
  <2> HIDE DEF k
  <2>6. k \in Told(n + 1)
    BY <2>4, <2>5
  <2> QED
    BY <2>6
<1>3. Nat \subseteq T
  <2> HIDE DEF T
  <2> QED
    BY <1>1, <1>2, Induction
<1>4. PICK h \in Told(Len(s)) : TRUE
  BY <1>0, <1>3
<1>5. Tells(h, st, s)
  BY <1>4 DEF Tells
<1> QED
  BY <1>4, <1>5

LEMMA AfterType ==
  ASSUME NEW st \in Setting, NEW s \in Seq(Call)
  PROVE  Effects!After(st, s) \in Setting
<1>1. PICK h \in [0 .. Len(s) -> Setting] : Tells(h, st, s)
  BY AfterExists
<1>2. Effects!After(st, s) = h[Len(s)]
  BY <1>1, AfterIs
<1> QED
  BY <1>1, <1>2

LEMMA AfterConcat ==
  ASSUME NEW st \in Setting, NEW s \in Seq(Call), NEW t \in Seq(Call)
  PROVE  Effects!After(st, s \o t) = Effects!After(Effects!After(st, s), t)
<1> DEFINE m == Effects!After(st, s)
<1>1. PICK h \in [0 .. Len(s) -> Setting] : Tells(h, st, s)
  BY AfterExists
<1>2. m = h[Len(s)] /\ m \in Setting
  BY <1>1, AfterIs, AfterType
<1> HIDE DEF m
<1>3. PICK k \in [0 .. Len(t) -> Setting] : Tells(k, m, t)
  BY <1>2, AfterExists
<1>4. Effects!After(m, t) = k[Len(t)]
  BY <1>2, <1>3, AfterIs
<1> DEFINE u == s \o t
           g == [i \in 0 .. Len(u) |-> IF i <= Len(s) THEN h[i] ELSE k[i - Len(s)]]
<1>5. /\ u \in Seq(Call) /\ Len(s) \in Nat /\ Len(t) \in Nat /\ Len(u) = Len(s) + Len(t)
      /\ \A i \in 1 .. Len(s) : u[i] = s[i]
      /\ \A i \in 1 .. Len(t) : u[Len(s) + i] = t[i]
  BY ConcatFacts
<1> HIDE DEF u
<1>6. g \in [0 .. Len(u) -> Setting]
  BY <1>1, <1>3, <1>5
<1>7. \A i \in 0 .. Len(s) : g[i] = h[i]
  BY <1>5
<1>8. \A i \in 0 .. Len(t) : g[Len(s) + i] = k[i]
  <2> SUFFICES ASSUME NEW i \in 0 .. Len(t) PROVE g[Len(s) + i] = k[i]
    OBVIOUS
  <2>1. CASE i = 0
    BY <1>2, <1>3, <1>5, <2>1 DEF Tells
  <2>2. CASE i # 0
    <3>1. Len(s) + i \in 0 .. Len(u) /\ ~(Len(s) + i <= Len(s)) /\ (Len(s) + i) - Len(s) = i
      BY <1>5, <2>2
    <3> QED
      BY <3>1
  <2> QED
    BY <2>1, <2>2
<1> HIDE DEF g
<1>9. Tells(g, st, u)
  <2>1. g[0] = st
    BY <1>1, <1>5, <1>7 DEF Tells
  <2>2. ASSUME NEW i \in 1 .. Len(u) PROVE g[i] = Effects!Effect(g[i - 1], u[i])
    <3>1. CASE i \in 1 .. Len(s)
      <4>1. g[i] = h[i] /\ g[i - 1] = h[i - 1] /\ u[i] = s[i]
        BY <1>5, <1>7, <3>1
      <4> QED
        BY <1>1, <3>1, <4>1 DEF Tells
    <3>2. CASE i \notin 1 .. Len(s)
      <4> DEFINE j == i - Len(s)
      <4>1. j \in 1 .. Len(t) /\ j - 1 \in 0 .. Len(t) /\ j \in 0 .. Len(t)
            /\ Len(s) + j = i /\ Len(s) + (j - 1) = i - 1
        BY <1>5, <3>2
      <4> HIDE DEF j
      <4>2. g[i] = k[j] /\ g[i - 1] = k[j - 1] /\ u[i] = t[j]
        BY <1>5, <1>8, <4>1
      <4> QED
        BY <1>3, <4>1, <4>2 DEF Tells
    <3> QED
      BY <3>1, <3>2
  <2> QED
    BY <2>1, <2>2 DEF Tells
<1>10. Effects!After(st, u) = g[Len(u)]
  BY <1>5, <1>6, <1>9, AfterIs
<1>11. g[Len(u)] = k[Len(t)]
  <2>1. Len(t) \in 0 .. Len(t) /\ Len(u) = Len(s) + Len(t)
    BY <1>5
  <2> QED
    BY <1>8, <2>1
<1> QED
  BY <1>4, <1>10, <1>11 DEF m, u

LEMMA AfterNone ==
  ASSUME NEW st \in Setting
  PROVE  Effects!After(st, <<>>) = st
<1> DEFINE h == [i \in 0 .. 0 |-> st]
<1>1. <<>> \in Seq(Call) /\ Len(<<>>) = 0
  OBVIOUS
<1>2. h \in [0 .. 0 -> Setting] /\ h[0] = st
  OBVIOUS
<1> HIDE DEF h
<1>3. Tells(h, st, <<>>)
  BY <1>1, <1>2 DEF Tells
<1>4. Effects!After(st, <<>>) = h[Len(<<>>)]
  BY <1>1, <1>2, <1>3, AfterIs
<1> QED
  BY <1>1, <1>2, <1>4

LEMMA AfterOne ==
  ASSUME NEW st \in Setting, NEW c \in Call
  PROVE  Effects!After(st, <<c>>) = Effects!Effect(st, c)
<1> DEFINE e == Effects!Effect(st, c)
           h == [i \in 0 .. 1 |-> IF i = 0 THEN st ELSE e]
           s == <<c>>
<1>1. s \in Seq(Call) /\ Len(s) = 1 /\ s[1] = c
  OBVIOUS
<1>2. e \in Setting
  BY EffectFacts
<1> HIDE DEF s
<1>3. h \in [0 .. 1 -> Setting] /\ h[0] = st /\ h[1] = e
  <2> HIDE DEF e
  <2> QED
    BY <1>2
<1> HIDE DEF h
<1>4. Tells(h, st, s)
  BY <1>1, <1>3 DEF Tells
<1>5. Effects!After(st, s) = h[Len(s)]
  BY <1>1, <1>3, <1>4, AfterIs
<1> QED
  BY <1>1, <1>3, <1>5 DEF s

-----------------------------------------------------------------------------
(* Counting *)

\* How often a member of Q is in s.
Count(s, Q) == Cardinality({i \in 1 .. Len(s) : s[i] \in Q})

LEMMA CountConcat ==
  ASSUME NEW M, NEW s \in Seq(M), NEW t \in Seq(M), NEW Q
  PROVE  Count(s, Q) \in Nat /\ Count(t, Q) \in Nat /\ Count(s \o t, Q) = Count(s, Q) + Count(t, Q)
<1> DEFINE u == s \o t
           A == {i \in 1 .. Len(s) : s[i] \in Q}
           B == {i \in 1 .. Len(t) : t[i] \in Q}
           C == {i \in 1 .. Len(u) : u[i] \in Q}
           D == {i \in C : i > Len(s)}
           n == Len(s)
<1>1. /\ n \in Nat /\ Len(t) \in Nat /\ Len(u) = n + Len(t)
      /\ \A i \in 1 .. n : u[i] = s[i]
      /\ \A i \in 1 .. Len(t) : u[n + i] = t[i]
  BY ConcatFacts
<1> HIDE DEF u, n
<1>2. /\ A \subseteq 1 .. n /\ B \subseteq 1 .. Len(t) /\ D \subseteq 1 .. Len(u)
      /\ IsFiniteSet(A) /\ IsFiniteSet(B) /\ IsFiniteSet(D)
  <2>1. A \subseteq 1 .. n /\ B \subseteq 1 .. Len(t) /\ D \subseteq 1 .. Len(u)
    BY DEF n
  <2>2. IsFiniteSet(1 .. n) /\ IsFiniteSet(1 .. Len(t)) /\ IsFiniteSet(1 .. Len(u))
    BY <1>1, FS_Interval
  <2> HIDE DEF A, B, D
  <2> QED
    BY <2>1, <2>2, FS_Subset
<1>3. C = A \cup D /\ A \cap D = {}
  <2>1. \A i \in 1 .. Len(u) : i \in 1 .. n \/ i > n
    BY <1>1
  <2>2. \A i \in 1 .. n : i \in 1 .. Len(u) /\ ~(i > n)
    BY <1>1
  <2>3. \A i \in 1 .. n : i \in A <=> i \in C
    BY <1>1, <2>2 DEF n
  <2> QED
    BY <1>2, <2>1, <2>2, <2>3 DEF n
<1>4. Cardinality(D) = Cardinality(B)
  <2> DEFINE f == [i \in B |-> n + i]
  <2>1. f \in [B -> D]
    <3> SUFFICES ASSUME NEW i \in B PROVE n + i \in D
      OBVIOUS
    <3>1. i \in 1 .. Len(t) /\ t[i] \in Q
      OBVIOUS
    <3>2. n + i \in 1 .. Len(u) /\ n + i > n /\ u[n + i] = t[i]
      BY <1>1, <3>1
    <3> QED
      BY <3>1, <3>2 DEF n
  <2>2. \A i, j \in B : f[i] = f[j] => i = j
    BY <1>1, <1>2
  <2>3. \A k \in D : \E i \in B : f[i] = k
    <3> SUFFICES ASSUME NEW k \in D PROVE \E i \in B : f[i] = k
      OBVIOUS
    <3>1. k \in 1 .. Len(u) /\ k > n /\ u[k] \in Q
      BY DEF n
    <3>2. k - n \in 1 .. Len(t) /\ n + (k - n) = k
      BY <1>1, <3>1
    <3>3. t[k - n] = u[k]
      BY <1>1, <3>2
    <3>4. k - n \in B
      BY <3>1, <3>2, <3>3
    <3> QED
      BY <3>2, <3>4
  <2> HIDE DEF f, B, D
  <2>4. f \in Bijection(B, D)
    BY <2>1, <2>2, <2>3 DEF Bijection, Injection, Surjection, IsInjective
  <2> QED
    BY <1>2, <2>4, FS_Bijection DEF ExistsBijection
<1> HIDE DEF A, B, C, D
<1>5. Cardinality(A) \in Nat /\ Cardinality(B) \in Nat
  BY <1>2, FS_CardinalityType
<1>6. Cardinality(C) = Cardinality(A) + Cardinality(D)
  <2>1. Cardinality(A \cup D) = Cardinality(A) + Cardinality(D) - Cardinality(A \cap D)
    BY <1>2, FS_Union
  <2>2. Cardinality(A \cap D) = 0
    BY <1>3, FS_EmptySet
  <2> QED
    BY <1>3, <1>4, <1>5, <2>1, <2>2
<1> QED
  BY <1>4, <1>5, <1>6 DEF Count, A, B, C, n, u

LEMMA CountOne ==
  ASSUME NEW c, NEW Q
  PROVE  Count(<<c>>, Q) = IF c \in Q THEN 1 ELSE 0
<1>1. {i \in 1 .. Len(<<c>>) : <<c>>[i] \in Q} = IF c \in Q THEN {1} ELSE {}
  OBVIOUS
<1> QED
  BY <1>1, FS_EmptySet, FS_Singleton DEF Count

LEMMA HeadAndTail ==
  ASSUME NEW M, NEW s \in Seq(M), s # <<>>
  PROVE  Head(s) \in M /\ Tail(s) \in Seq(M) /\ s = <<Head(s)>> \o Tail(s)
OBVIOUS

-----------------------------------------------------------------------------
(* The calls are kept *)

Asks(a) == {c \in Call : c.call \in {"spawn", "focus_or_spawn"} /\ c.app = a}

SpawnMessage(a) == [kind |-> "Spawn", app |-> a]

InForce == [zones |-> zones, default |-> defaultZone, rules |-> rules]

LEMMA RequestsCount ==
  ASSUME NEW s \in Seq(Call), NEW a \in App
  PROVE  Effects!Requests(s)[a] = Count(s, Asks(a))
<1>1. \A i \in 1 .. Len(s) : s[i] \in Call
  BY SeqFacts
<1>2. {i \in 1 .. Len(s) : s[i].call \in {"spawn", "focus_or_spawn"} /\ s[i].app = a}
        = {i \in 1 .. Len(s) : s[i] \in Asks(a)}
  BY <1>1 DEF Asks
<1> DEFINE R(b) == {i \in 1 .. Len(s) : s[i].call \in {"spawn", "focus_or_spawn"} /\ s[i].app = b}
<1>3. Effects!Requests(s) = [b \in App |-> Cardinality(R(b))]
  <2>1. \A S : Effects!Cardinality(S) = Cardinality(S)
    BY DEF Effects!Cardinality, Cardinality
  <2>2. Effects!Requests(s) = [b \in App |-> Effects!Cardinality(R(b))]
    BY DEF Effects!Requests
  <2> HIDE DEF R
  <2> QED
    BY <2>1, <2>2
<1>4. Cardinality(R(a)) = Count(s, Asks(a))
  BY <1>2 DEF Count
<1> HIDE DEF R
<1> QED
  BY <1>3, <1>4

\* Types of what the promise is about.
CallTypes ==
  /\ InForce \in Setting
  /\ to_display \in Seq(Call) /\ idles \in Seq(Call)
  /\ to_config \in Seq(ConfigMessage)

LEMMA CallTypesHold == DesktopInv => CallTypes
<1> SUFFICES ASSUME DesktopInv PROVE CallTypes
  OBVIOUS
<1>1. InForce \in Setting
  BY DEF DesktopInv, WindowsInv, TypeOK, InForce, Setting
<1>2. to_display \in Seq(Call)
  <2>1. to_display \in Seq(DisplayMessage) /\ \A c \in DisplayMessage : c \in Call
    BY DEF DesktopInv, ChannelInv, Call
  <2> QED
    BY <2>1
<1> QED
  BY <1>1, <1>2 DEF DesktopInv, ConfigInv, ChannelInv, CallTypes

\* The requests among the calls out and the messages conf.
OwedOf(out, conf) ==
  [a \in App |-> Effects!Requests(out)[a]
                 + Cardinality({i \in 1 .. Len(conf) : conf[i] = [kind |-> "Spawn", app |-> a]})]

LEMMA OwedIs ==
  /\ Settings = Effects!After(InForce, Outstanding) /\ Owed = OwedOf(Outstanding, to_config)
  /\ Settings' = Effects!After(InForce', Outstanding') /\ Owed' = OwedOf(Outstanding', to_config')
BY DEF Settings, Owed, OwedOf, InForce

LEMMA OwedFacts ==
  ASSUME NEW s \in Seq(Call), NEW t \in Seq(Call), NEW conf \in Seq(ConfigMessage), NEW a \in App
  PROVE  /\ OwedOf(s \o t, conf)[a] = Count(s, Asks(a)) + Count(t, Asks(a)) + Count(conf, {SpawnMessage(a)})
         /\ Count(s, Asks(a)) \in Nat /\ Count(t, Asks(a)) \in Nat /\ Count(conf, {SpawnMessage(a)}) \in Nat
<1>1. s \o t \in Seq(Call)
  BY ConcatFacts
<1>2. Effects!Requests(s \o t)[a] = Count(s \o t, Asks(a))
  BY <1>1, RequestsCount
<1> DEFINE S(b) == {i \in 1 .. Len(conf) : conf[i] = [kind |-> "Spawn", app |-> b]}
           u == s \o t
<1>3. S(a) = {i \in 1 .. Len(conf) : conf[i] \in {SpawnMessage(a)}}
  BY DEF SpawnMessage
<1>4. OwedOf(u, conf) = [b \in App |-> Effects!Requests(u)[b] + Cardinality(S(b))]
  BY DEF OwedOf
<1>5. Cardinality(S(a)) = Count(conf, {SpawnMessage(a)})
  BY <1>3 DEF Count
<1> HIDE DEF S, u
<1>6. OwedOf(u, conf)[a] = Count(u, Asks(a)) + Count(conf, {SpawnMessage(a)})
  <2>1. Effects!Requests(u)[a] = Count(u, Asks(a))
    BY <1>2 DEF u
  <2> QED
    BY <1>4, <1>5, <2>1
<1>7. /\ Count(s, Asks(a)) \in Nat /\ Count(t, Asks(a)) \in Nat
      /\ Count(u, Asks(a)) = Count(s, Asks(a)) + Count(t, Asks(a))
  BY CountConcat DEF u
<1>8. Count(conf, {SpawnMessage(a)}) \in Nat
  BY CountConcat
<1> QED
  BY <1>6, <1>7, <1>8 DEF u

LEMMA CountNone == ASSUME NEW Q PROVE Count(<<>>, Q) = 0
<1>1. {i \in 1 .. Len(<<>>) : <<>>[i] \in Q} = {}
  OBVIOUS
<1> QED
  BY <1>1, FS_EmptySet DEF Count

-----------------------------------------------------------------------------
(* Steps of the promise *)

\* A step that keeps the calls and what they have come to.
LEMMA CallsStutter ==
  ASSUME UNCHANGED <<InForce, Outstanding, to_config, turn>>
  PROVE  UNCHANGED <<Settings, Owed, turn>>
BY OwedIs

\* Lua code runs: its calls come last.
LEMMA RunEffect ==
  ASSUME CallTypes, CallTypes', NEW calls \in Seq(Call), idles' = idles \o calls,
         UNCHANGED <<InForce, to_display>>,
         \A a \in App : Count(to_config', {SpawnMessage(a)}) = Count(to_config, {SpawnMessage(a)})
  PROVE  /\ Settings' = Effects!After(Settings, calls)
         /\ Owed' = [a \in App |-> Owed[a] + Effects!Requests(calls)[a]]
<1>1. Outstanding' = Outstanding \o calls /\ Outstanding \in Seq(Call)
  <2>1. to_display \in Seq(Call) /\ idles \in Seq(Call)
    BY DEF CallTypes
  <2>2. (to_display \o idles) \o calls = to_display \o (idles \o calls)
    BY <2>1, ConcatAssociative
  <2>3. to_display \o idles \in Seq(Call)
    BY <2>1, ConcatFacts
  <2> QED
    BY <2>2, <2>3 DEF Outstanding
<1>2. Settings' = Effects!After(Settings, calls)
  <2>1. InForce \in Setting /\ Outstanding \in Seq(Call)
    BY <1>1 DEF CallTypes
  <2>2. Effects!After(InForce, Outstanding \o calls) = Effects!After(Effects!After(InForce, Outstanding), calls)
    BY <2>1, AfterConcat
  <2> QED
    BY <1>1, <2>2, OwedIs
<1>3. ASSUME NEW a \in App PROVE Owed'[a] = Owed[a] + Effects!Requests(calls)[a]
  <2> DEFINE out == Outstanding
             n == Count(out, Asks(a))
             m == Count(calls, Asks(a))
             k == Count(to_config, {SpawnMessage(a)})
             l == Count(to_config', {SpawnMessage(a)})
  <2>0. out \in Seq(Call) /\ to_config \in Seq(ConfigMessage) /\ to_config' \in Seq(ConfigMessage)
    BY <1>1 DEF CallTypes
  <2> HIDE DEF out
  <2>1. OwedOf(out \o calls, to_config')[a] = n + m + l /\ n \in Nat /\ m \in Nat
    BY <2>0, OwedFacts
  <2>2. out = out \o <<>>
    BY <2>0, ConcatEmptySeq
  <2>3. OwedOf(out \o <<>>, to_config)[a] = n + Count(<<>>, Asks(a)) + k /\ k \in Nat
    <3> DEFINE e == <<>>
    <3>1. e \in Seq(Call)
      OBVIOUS
    <3> HIDE DEF e
    <3>2. /\ OwedOf(out \o e, to_config)[a] = Count(out, Asks(a)) + Count(e, Asks(a)) + Count(to_config, {SpawnMessage(a)})
          /\ Count(to_config, {SpawnMessage(a)}) \in Nat
      BY <2>0, <3>1, OwedFacts
    <3> QED
      BY <3>2 DEF e
  <2>4. Count(<<>>, Asks(a)) = 0 /\ Effects!Requests(calls)[a] = m
    BY CountNone, RequestsCount
  <2>5. Owed'[a] = OwedOf(out \o calls, to_config')[a] /\ Owed[a] = OwedOf(out \o <<>>, to_config)[a]
    BY <1>1, <2>2, OwedIs DEF out
  <2>6. l = k
    OBVIOUS
  <2> HIDE DEF n, m, k, l
  <2> QED
    BY <2>1, <2>3, <2>4, <2>5, <2>6
<1> QED
  BY <1>2, <1>3, OwedIs DEF OwedOf

Runs ==
  \E calls \in Scripts :
    /\ Settings' = Effects!After(Settings, calls)
    /\ Owed' = [a \in App |-> Owed[a] + Effects!Requests(calls)[a]]
    /\ turn' = ~turn

Answers == \E a \in App : Owed[a] > 0 /\ Owed' = [Owed EXCEPT ![a] = @ - 1] /\ UNCHANGED <<Settings, turn>>

Keeps == UNCHANGED <<Settings, Owed, turn>>

\* What the config thread takes from its channel was counted there.
LEMMA ConfigHead ==
  ASSUME NEW s \in Seq(ConfigMessage), s # <<>>, NEW Q
  PROVE  /\ Head(s) \in ConfigMessage /\ Tail(s) \in Seq(ConfigMessage) /\ Count(Tail(s), Q) \in Nat
         /\ Count(s, Q) = (IF Head(s) \in Q THEN 1 ELSE 0) + Count(Tail(s), Q)
<1>1. /\ Head(s) \in ConfigMessage /\ Tail(s) \in Seq(ConfigMessage) /\ <<Head(s)>> \in Seq(ConfigMessage)
      /\ s = <<Head(s)>> \o Tail(s)
  BY HeadAndTail
<1> DEFINE h == <<Head(s)>>
           t == Tail(s)
<1>2. h \in Seq(ConfigMessage) /\ t \in Seq(ConfigMessage) /\ s = h \o t
  BY <1>1
<1>3. Count(h, Q) = IF Head(s) \in Q THEN 1 ELSE 0
  BY CountOne
<1> HIDE DEF h, t
<1>4. Count(h, Q) \in Nat /\ Count(t, Q) \in Nat /\ Count(h \o t, Q) = Count(h, Q) + Count(t, Q)
  BY <1>2, CountConcat
<1>5. Count(s, Q) = Count(h \o t, Q)
  BY <1>2
<1> QED
  BY <1>1, <1>3, <1>4, <1>5 DEF t

LEMMA ReloadCalls ==
  ASSUME CallTypes, CallTypes', file \in Chunks \cup {Gone}, Reload
  PROVE  Runs \/ Keeps
<1>1. UNCHANGED <<vars, to_display, to_config>>
  BY DEF Reload
<1>2. UNCHANGED InForce
  BY <1>1 DEF vars, zoneVars, InForce
<1>3. CASE file = Gone
  BY <1>1, <1>2, <1>3, CallsStutter DEF Reload, Outstanding, Keeps
<1>4. CASE file # Gone
  <2>1. idles' = idles \o file.calls /\ turn' = ~turn /\ file \in Chunks
    BY <1>4 DEF Reload, Execute
  <2>2. file.calls \in Seq(Call) /\ file.calls \in Scripts
    BY <2>1, DesktopAssumption DEF Scripts
  <2>3. /\ Settings' = Effects!After(Settings, file.calls)
        /\ Owed' = [a \in App |-> Owed[a] + Effects!Requests(file.calls)[a]]
    BY <1>1, <1>2, <2>1, <2>2, RunEffect
  <2> QED
    BY <2>1, <2>2, <2>3 DEF Runs
<1> QED
  BY <1>3, <1>4

LEMMA RunCallbackCalls ==
  ASSUME CallTypes, CallTypes', HandleRunCallback
  PROVE  Runs
<1> DEFINE m == Head(to_config)
           calls == Body[m.callback]
<1>1. /\ to_config # <<>> /\ m.kind = "RunCallback" /\ to_config' = Tail(to_config)
      /\ UNCHANGED <<vars, to_display>> /\ idles' = idles \o calls /\ turn' = ~turn
  BY DEF HandleRunCallback, Receive, Execute
<1>2. UNCHANGED InForce
  BY <1>1 DEF vars, zoneVars, InForce
<1>3. m \in ConfigMessage
  BY <1>1, HeadAndTail DEF CallTypes
<1>4. m.callback \in Callback
  BY <1>1, <1>3 DEF ConfigMessage
<1>5. calls \in Seq(Call) /\ calls \in Scripts
  BY <1>4, DesktopAssumption DEF Scripts
<1>6. ASSUME NEW a \in App PROVE Count(to_config', {SpawnMessage(a)}) = Count(to_config, {SpawnMessage(a)})
  <2>1. m \notin {SpawnMessage(a)}
    BY <1>1 DEF SpawnMessage
  <2>2. to_config \in Seq(ConfigMessage)
    BY DEF CallTypes
  <2>3. /\ Count(Tail(to_config), {SpawnMessage(a)}) \in Nat
        /\ Count(to_config, {SpawnMessage(a)}) = (IF m \in {SpawnMessage(a)} THEN 1 ELSE 0) + Count(Tail(to_config), {SpawnMessage(a)})
    BY <1>1, <2>2, ConfigHead
  <2>4. Count(to_config, {SpawnMessage(a)}) = Count(Tail(to_config), {SpawnMessage(a)})
    BY <2>1, <2>3
  <2> QED
    BY <1>1, <2>4
<1>7. /\ Settings' = Effects!After(Settings, calls)
      /\ Owed' = [a \in App |-> Owed[a] + Effects!Requests(calls)[a]]
  BY <1>1, <1>2, <1>5, <1>6, RunEffect
<1> QED
  BY <1>1, <1>5, <1>7 DEF Runs

\* One request fewer is left, whether among the calls or among the messages.
LEMMA OneFewer ==
  ASSUME NEW a \in App, UNCHANGED <<Settings, turn>>,
         \A b \in App : Owed'[b] \in Nat /\ Owed[b] = IF b = a THEN Owed'[b] + 1 ELSE Owed'[b]
  PROVE  Answers
<1>1. Owed[a] > 0 /\ Owed[a] - 1 = Owed'[a]
  BY Z3
<1>2. Owed' = [Owed EXCEPT ![a] = @ - 1]
  <2>1. Owed = [b \in App |-> Owed[b]] /\ Owed' = [b \in App |-> Owed'[b]]
    BY OwedIs DEF OwedOf
  <2> QED
    BY <1>1, <2>1
<1> QED
  BY <1>1, <1>2 DEF Answers

LEMMA HandleSpawnCalls ==
  ASSUME CallTypes, CallTypes', HandleSpawn
  PROVE  Answers
<1> DEFINE m == Head(to_config)
<1>1. /\ to_config # <<>> /\ m.kind = "Spawn" /\ to_config' = Tail(to_config)
      /\ UNCHANGED <<vars, to_display, idles, turn>>
  BY DEF HandleSpawn, Receive
<1>2. UNCHANGED <<InForce, Outstanding>>
  BY <1>1 DEF vars, zoneVars, InForce, Outstanding
<1>3. m \in ConfigMessage /\ to_config \in Seq(ConfigMessage) /\ to_config' \in Seq(ConfigMessage)
  BY <1>1, HeadAndTail DEF CallTypes
<1>4. m.app \in App /\ m = SpawnMessage(m.app)
  BY <1>1, <1>3 DEF ConfigMessage, SpawnMessage
<1> DEFINE a == m.app
<1>5. UNCHANGED Settings
  BY <1>2, OwedIs
<1>6. ASSUME NEW b \in App PROVE Owed'[b] \in Nat /\ Owed[b] = IF b = a THEN Owed'[b] + 1 ELSE Owed'[b]
  <2> DEFINE out == Outstanding
             n == Count(out, Asks(b))
             k == Count(to_config', {SpawnMessage(b)})
             l == Count(to_config, {SpawnMessage(b)})
  <2>1. out \in Seq(Call) /\ <<>> \in Seq(Call) /\ out = out \o <<>>
    BY ConcatFacts, ConcatEmptySeq DEF CallTypes, Outstanding
  <2> HIDE DEF out
  <2>2. OwedOf(out \o <<>>, to_config)[b] = n + Count(<<>>, Asks(b)) + l /\ n \in Nat
    BY <1>3, <2>1, OwedFacts
  <2>3. OwedOf(out \o <<>>, to_config')[b] = n + Count(<<>>, Asks(b)) + k /\ k \in Nat
    BY <1>3, <2>1, OwedFacts
  <2>4. Count(<<>>, Asks(b)) = 0
    BY CountNone
  <2>5. l = (IF b = a THEN 1 ELSE 0) + k
    <3>1. m \in {SpawnMessage(b)} <=> b = a
      BY <1>4 DEF SpawnMessage
    <3>2. l = (IF m \in {SpawnMessage(b)} THEN 1 ELSE 0) + Count(Tail(to_config), {SpawnMessage(b)})
      BY <1>1, <1>3, ConfigHead
    <3>3. Count(Tail(to_config), {SpawnMessage(b)}) = k
      BY <1>1
    <3> HIDE DEF l, k
    <3> QED
      BY <3>1, <3>2, <3>3
  <2>7. Owed[b] = OwedOf(out \o <<>>, to_config)[b] /\ Owed'[b] = OwedOf(out \o <<>>, to_config')[b]
    BY <1>2, <2>1, OwedIs DEF out
  <2> HIDE DEF n, k, l, a
  <2> QED
    BY <2>2, <2>3, <2>4, <2>5, <2>7
<1> QED
  BY <1>1, <1>4, <1>5, <1>6, OneFewer

LEMMA ForwardCalls ==
  ASSUME CallTypes, Forward
  PROVE  Keeps
<1> DEFINE c == Head(idles)
           t == Tail(idles)
<1>1. /\ idles # <<>> /\ idles' = t /\ to_display' = Append(to_display, c)
      /\ UNCHANGED <<vars, turn, to_config>>
  BY DEF Forward, NextIdle
<1>2. /\ c \in Call /\ t \in Seq(Call) /\ <<c>> \in Seq(Call) /\ idles = <<c>> \o t
      /\ to_display \in Seq(Call)
  BY <1>1, HeadAndTail DEF CallTypes
<1> HIDE DEF c, t
<1>3. to_display' = to_display \o <<c>>
  BY <1>1, <1>2, AppendIsConcat
<1>4. (to_display \o <<c>>) \o t = to_display \o (<<c>> \o t)
  BY <1>2, ConcatAssociative
<1>5. UNCHANGED Outstanding
  BY <1>1, <1>2, <1>3, <1>4 DEF Outstanding
<1>6. UNCHANGED InForce
  BY <1>1 DEF vars, zoneVars, InForce
<1> QED
  BY <1>1, <1>5, <1>6, CallsStutter DEF Keeps

\* A call that is not there any more and changes no settings.
LEMMA CallGoes ==
  ASSUME CallTypes, NEW d \in Seq(Call), NEW c \in Call, NEW t \in Seq(Call),
         Outstanding = d \o (<<c>> \o t), Outstanding' = d \o t,
         c.call \notin {"set_zones", "add_window_rule"},
         UNCHANGED <<InForce, turn>>, to_config' \in Seq(ConfigMessage)
  PROVE  /\ UNCHANGED Settings
         /\ \A b \in App :
              /\ Owed[b] = Count(d, Asks(b)) + (IF c \in Asks(b) THEN 1 ELSE 0) + Count(t, Asks(b))
                            + Count(to_config, {SpawnMessage(b)})
              /\ Owed'[b] = Count(d, Asks(b)) + Count(t, Asks(b)) + Count(to_config', {SpawnMessage(b)})
              /\ Count(d, Asks(b)) \in Nat /\ Count(t, Asks(b)) \in Nat
              /\ Count(to_config, {SpawnMessage(b)}) \in Nat /\ Count(to_config', {SpawnMessage(b)}) \in Nat
<1> DEFINE o == <<c>>
           u == o \o t
           m == Effects!After(InForce, d)
<1>1. o \in Seq(Call) /\ InForce \in Setting /\ to_config \in Seq(ConfigMessage)
  BY DEF CallTypes
<1>2. m \in Setting
  BY <1>1, AfterType
<1>3. Effects!After(m, o) = m
  BY <1>2, AfterOne, EffectFacts
<1> HIDE DEF o, m
<1>4. u \in Seq(Call) /\ Effects!After(m, u) = Effects!After(Effects!After(m, o), t)
  BY <1>1, <1>2, AfterConcat, ConcatFacts
<1>5. \A b \in App : Count(o, Asks(b)) = IF c \in Asks(b) THEN 1 ELSE 0
  BY CountOne DEF o
<1>6. \A b \in App : Count(u, Asks(b)) = Count(o, Asks(b)) + Count(t, Asks(b))
  BY <1>1, CountConcat
<1>7. Outstanding = d \o u
  BY DEF o
<1> HIDE DEF u
<1>8. /\ Effects!After(InForce, d \o u) = Effects!After(m, u)
      /\ Effects!After(InForce, d \o t) = Effects!After(m, t)
  BY <1>1, <1>4, AfterConcat DEF m
<1>9. UNCHANGED Settings
  BY <1>3, <1>4, <1>7, <1>8, OwedIs
<1>10. ASSUME NEW b \in App
       PROVE  /\ Owed[b] = Count(d, Asks(b)) + (IF c \in Asks(b) THEN 1 ELSE 0) + Count(t, Asks(b))
                           + Count(to_config, {SpawnMessage(b)})
              /\ Owed'[b] = Count(d, Asks(b)) + Count(t, Asks(b)) + Count(to_config', {SpawnMessage(b)})
              /\ Count(d, Asks(b)) \in Nat /\ Count(t, Asks(b)) \in Nat
              /\ Count(to_config, {SpawnMessage(b)}) \in Nat /\ Count(to_config', {SpawnMessage(b)}) \in Nat
  <2>1. /\ OwedOf(d \o u, to_config)[b] = Count(d, Asks(b)) + Count(u, Asks(b)) + Count(to_config, {SpawnMessage(b)})
        /\ Count(d, Asks(b)) \in Nat /\ Count(to_config, {SpawnMessage(b)}) \in Nat
    BY <1>1, <1>4, OwedFacts
  <2>2. /\ OwedOf(d \o t, to_config')[b] = Count(d, Asks(b)) + Count(t, Asks(b)) + Count(to_config', {SpawnMessage(b)})
        /\ Count(t, Asks(b)) \in Nat /\ Count(to_config', {SpawnMessage(b)}) \in Nat
    BY OwedFacts
  <2>3. Count(u, Asks(b)) = (IF c \in Asks(b) THEN 1 ELSE 0) + Count(t, Asks(b))
    BY <1>5, <1>6
  <2>4. Owed[b] = OwedOf(d \o u, to_config)[b] /\ Owed'[b] = OwedOf(d \o t, to_config')[b]
    BY <1>7, OwedIs
  <2>5. \A x, y, z \in Nat : \A e \in {0, 1} : x + (e + y) + z = x + e + y + z
    OBVIOUS
  <2>6. (IF c \in Asks(b) THEN 1 ELSE 0) \in {0, 1}
    OBVIOUS
  <2> QED
    BY <2>1, <2>2, <2>3, <2>4, <2>5, <2>6
<1> QED
  BY <1>9, <1>10

LEMMA IdleCalls ==
  ASSUME CallTypes, CallTypes', Spawn \/ MapKey
  PROVE  Answers \/ Keeps
<1> DEFINE c == Head(idles)
           t == Tail(idles)
<1>1. /\ idles # <<>> /\ idles' = t /\ c.call \in {"spawn", "map_key"}
      /\ UNCHANGED <<vars, turn, to_config, to_display>>
  BY DEF Spawn, MapKey, NextIdle
<1>2. /\ c \in Call /\ t \in Seq(Call) /\ idles = <<c>> \o t
      /\ to_display \in Seq(Call) /\ to_config' \in Seq(ConfigMessage)
  BY <1>1, HeadAndTail DEF CallTypes
<1>3. UNCHANGED <<InForce, turn>> /\ Outstanding = to_display \o (<<c>> \o t) /\ Outstanding' = to_display \o t
  BY <1>1, <1>2 DEF vars, zoneVars, InForce, Outstanding
<1>4. c.call \notin {"set_zones", "add_window_rule"}
  BY <1>1
<1> HIDE DEF c, t
<1>5. /\ UNCHANGED Settings
      /\ \A b \in App :
           /\ Owed[b] = Count(to_display, Asks(b)) + (IF c \in Asks(b) THEN 1 ELSE 0) + Count(t, Asks(b))
                         + Count(to_config, {SpawnMessage(b)})
           /\ Owed'[b] = Count(to_display, Asks(b)) + Count(t, Asks(b)) + Count(to_config', {SpawnMessage(b)})
           /\ Count(to_display, Asks(b)) \in Nat /\ Count(t, Asks(b)) \in Nat
           /\ Count(to_config, {SpawnMessage(b)}) \in Nat /\ Count(to_config', {SpawnMessage(b)}) \in Nat
  BY <1>2, <1>3, <1>4, CallGoes
<1>6. \A b \in App : Owed'[b] \in Nat /\ Owed[b] = IF c \in Asks(b) THEN Owed'[b] + 1 ELSE Owed'[b]
  <2> SUFFICES ASSUME NEW b \in App
               PROVE  Owed'[b] \in Nat /\ Owed[b] = IF c \in Asks(b) THEN Owed'[b] + 1 ELSE Owed'[b]
    OBVIOUS
  <2>1. \A x, y, z \in Nat : x + y + z \in Nat /\ x + 1 + y + z = (x + y + z) + 1 /\ x + 0 + y + z = x + y + z
    OBVIOUS
  <2>2. UNCHANGED Count(to_config, {SpawnMessage(b)})
    BY <1>1
  <2> QED
    BY <1>5, <2>1, <2>2
<1>7. CASE c.call = "spawn"
  <2>1. c.app \in App /\ \A b \in App : c \in Asks(b) <=> b = c.app
    BY <1>2, <1>7 DEF Asks, Call, DisplayMessage, ZoneCalls, WindowCalls, LayoutCalls, SpawnCalls, KeymapCalls
  <2>2. \A b \in App : Owed'[b] \in Nat /\ Owed[b] = IF b = c.app THEN Owed'[b] + 1 ELSE Owed'[b]
    BY <1>6, <2>1
  <2> QED
    BY <1>3, <1>5, <2>1, <2>2, OneFewer
<1>8. CASE c.call = "map_key"
  <2>1. \A b \in App : c \notin Asks(b)
    BY <1>8 DEF Asks
  <2>2. \A b \in App : Owed[b] = Owed'[b]
    BY <1>6, <2>1
  <2>3. UNCHANGED Owed
    BY <2>2, OwedIs DEF OwedOf
  <2> QED
    BY <1>3, <1>5, <2>3 DEF Keeps
<1> QED
  BY <1>1, <1>7, <1>8 DEF c

\* The display handles a message: the settings become what was foreseen.
LEMMA MessageGoes ==
  ASSUME CallTypes, CallTypes', to_display # <<>>, to_display' = Tail(to_display), UNCHANGED <<idles, turn>>,
         InForce' = Effects!Effect(InForce, Head(to_display))
  PROVE  /\ UNCHANGED Settings
         /\ \A b \in App : \E n \in Nat :
              /\ Owed[b] = (IF Head(to_display) \in Asks(b) THEN 1 ELSE 0) + n + Count(to_config, {SpawnMessage(b)})
              /\ Owed'[b] = n + Count(to_config', {SpawnMessage(b)})
              /\ Count(to_config, {SpawnMessage(b)}) \in Nat /\ Count(to_config', {SpawnMessage(b)}) \in Nat
<1> DEFINE m == Head(to_display)
           d == Tail(to_display)
           o == <<m>>
           r == d \o idles
           e == Effects!Effect(InForce, m)
<1>1. m \in Call /\ d \in Seq(Call) /\ o \in Seq(Call) /\ to_display = o \o d
  BY HeadAndTail DEF CallTypes
<1>2. idles \in Seq(Call) /\ InForce \in Setting /\ InForce' \in Setting
      /\ to_config \in Seq(ConfigMessage) /\ to_config' \in Seq(ConfigMessage)
  BY DEF CallTypes
<1>3. Effects!After(InForce, o) = e
  BY <1>1, <1>2, AfterOne
<1>4. \A b \in App : Count(o, Asks(b)) = IF m \in Asks(b) THEN 1 ELSE 0
  BY CountOne
<1>5. to_display' = d /\ InForce' = e
  OBVIOUS
<1> HIDE DEF m, d, o, e
<1>6. r \in Seq(Call)
  BY <1>1, <1>2, ConcatFacts
<1>7. Outstanding = o \o r /\ Outstanding' = r
  <2>1. o \in Seq(Call) /\ d \in Seq(Call) /\ idles \in Seq(Call)
    BY <1>1, <1>2
  <2>2. (o \o d) \o idles = o \o (d \o idles)
    BY <2>1, ConcatAssociative
  <2> QED
    BY <1>1, <1>5, <2>2 DEF Outstanding
<1> HIDE DEF r
<1>8. UNCHANGED Settings
  <2>1. Effects!After(InForce, o \o r) = Effects!After(Effects!After(InForce, o), r)
    BY <1>1, <1>2, <1>6, AfterConcat
  <2>2. Settings = Effects!After(InForce, o \o r) /\ Settings' = Effects!After(e, r)
    BY <1>5, <1>7, OwedIs
  <2> QED
    BY <1>3, <2>1, <2>2
<1>9. ASSUME NEW b \in App
      PROVE  \E n \in Nat :
              /\ Owed[b] = (IF m \in Asks(b) THEN 1 ELSE 0) + n + Count(to_config, {SpawnMessage(b)})
              /\ Owed'[b] = n + Count(to_config', {SpawnMessage(b)})
              /\ Count(to_config, {SpawnMessage(b)}) \in Nat /\ Count(to_config', {SpawnMessage(b)}) \in Nat
  <2> DEFINE k == Count(to_config, {SpawnMessage(b)})
             l == Count(to_config', {SpawnMessage(b)})
             n == Count(r, Asks(b))
  <2>1. OwedOf(o \o r, to_config)[b] = Count(o, Asks(b)) + n + k /\ n \in Nat /\ k \in Nat
    BY <1>1, <1>2, <1>6, OwedFacts
  <2>2. <<>> \in Seq(Call) /\ r = r \o <<>> /\ Count(<<>>, Asks(b)) = 0
    BY <1>6, ConcatEmptySeq, CountNone
  <2>3. OwedOf(r \o <<>>, to_config')[b] = n + Count(<<>>, Asks(b)) + l /\ l \in Nat
    BY <1>2, <1>6, <2>2, OwedFacts
  <2>4. Owed[b] = OwedOf(o \o r, to_config)[b] /\ Owed'[b] = OwedOf(r \o <<>>, to_config')[b]
    BY <1>7, <2>2, OwedIs
  <2> HIDE DEF k, l, n
  <2>5. Owed[b] = (IF m \in Asks(b) THEN 1 ELSE 0) + n + k /\ Owed'[b] = n + l
    BY <1>4, <2>1, <2>2, <2>3, <2>4
  <2> QED
    BY <2>1, <2>3, <2>5 DEF k, l
<1> QED
  BY <1>8, <1>9 DEF m

LEMMA MessageCalls ==
  ASSUME DesktopInv, CallTypes, CallTypes', DisplayThread
  PROVE  Answers \/ Keeps
<1> DEFINE m == Head(to_display)
<1>1. /\ to_display # <<>> /\ to_display' = Tail(to_display) /\ UNCHANGED <<idles, turn>>
  BY DEF DisplayThread, HandleSetZones, HandleAddWindowRule, HandleMoveCurrentWindow, HandleSetLayout,
         HandleFocusOrSpawn, Message, configVars
<1>2. m \in DisplayMessage /\ m \in Call /\ InForce \in Setting
  <2>1. to_display \in Seq(DisplayMessage)
    BY DEF DesktopInv, ChannelInv
  <2> QED
    BY <1>1, <2>1, HeadAndTail DEF CallTypes, Call
\* A message that is not a request leaves the config thread alone.
<1>3. ASSUME InForce' = Effects!Effect(InForce, m), UNCHANGED to_config, m.call # "focus_or_spawn"
      PROVE  Keeps
  <2>1. UNCHANGED Settings
    BY <1>1, <1>3, MessageGoes
  <2>2. \A b \in App : m \notin Asks(b)
    BY <1>2, <1>3 DEF Asks, DisplayMessage, ZoneCalls, WindowCalls, LayoutCalls
  <2>3. ASSUME NEW b \in App PROVE Owed[b] = Owed'[b]
    <3>1. PICK n \in Nat : /\ Owed[b] = (IF m \in Asks(b) THEN 1 ELSE 0) + n + Count(to_config, {SpawnMessage(b)})
                           /\ Owed'[b] = n + Count(to_config', {SpawnMessage(b)})
                           /\ Count(to_config, {SpawnMessage(b)}) \in Nat
      BY <1>1, <1>3, MessageGoes
    <3> QED
      BY <1>3, <2>2, <3>1
  <2>4. UNCHANGED Owed
    BY <2>3, OwedIs DEF OwedOf
  <2> QED
    BY <1>1, <2>1, <2>4 DEF Keeps
<1>4. CASE HandleSetZones
  <2>1. /\ m.call = "set_zones" /\ zones' = m.zones /\ UNCHANGED <<rules, to_config>>
        /\ defaultZone' = IF m.default = NoZone THEN defaultZone ELSE m.default
    BY <1>4 DEF HandleSetZones, Message, SetZones
  <2>2. InForce' = Effects!Effect(InForce, m)
    BY <2>1 DEF InForce, Effects!Effect
  <2> QED
    BY <1>3, <2>1, <2>2
<1>5. CASE HandleAddWindowRule
  <2>1. /\ m.call = "add_window_rule" /\ rules' = [rules EXCEPT ![m.app] = m.zone]
        /\ UNCHANGED <<zones, defaultZone, to_config>>
    BY <1>5 DEF HandleAddWindowRule, Message, AddWindowRule
  <2>2. InForce' = Effects!Effect(InForce, m)
    <3>1. Effects!Effect(InForce, m) = [InForce EXCEPT !.rules = [InForce.rules EXCEPT ![m.app] = m.zone]]
      BY <2>1 DEF Effects!Effect
    <3>2. InForce.rules = rules
      BY DEF InForce
    <3>3. Effects!Effect(InForce, m) = [InForce EXCEPT !.rules = rules']
      BY <2>1, <3>1, <3>2
    <3> QED
      BY <2>1, <3>3 DEF InForce
  <2> QED
    BY <1>3, <2>1, <2>2
<1>6. CASE HandleMoveCurrentWindow \/ HandleSetLayout
  <2>1. /\ m.call \in {"move_current_window_to_zone", "set_layout"} /\ UNCHANGED <<zoneVars, to_config>>
    BY <1>6 DEF HandleMoveCurrentWindow, HandleSetLayout, Message, MoveCurrentWindowToZone, AddSpaces, vars
  <2>2. InForce' = Effects!Effect(InForce, m)
    BY <1>2, <2>1, EffectFacts DEF InForce, zoneVars
  <2> QED
    BY <1>3, <2>1, <2>2
<1>7. CASE HandleFocusOrSpawn
  <2> DEFINE a == m.app
  <2>1. /\ m.call = "focus_or_spawn" /\ UNCHANGED zoneVars
        /\ UNCHANGED to_config \/ to_config' = Append(to_config, SpawnMessage(a))
    BY <1>7 DEF HandleFocusOrSpawn, Message, FocusWindowByAppId, FocusWindow, vars, SpawnMessage
  <2>2. a \in App /\ \A b \in App : m \in Asks(b) <=> b = a
    BY <1>2, <2>1 DEF Asks, DisplayMessage, ZoneCalls, WindowCalls, LayoutCalls
  <2>3. InForce' = Effects!Effect(InForce, m)
    BY <1>2, <2>1, EffectFacts DEF InForce, zoneVars
  <2>4. UNCHANGED Settings
    BY <1>1, <2>3, MessageGoes
  <2>5. \A b \in App : \E n \in Nat :
          /\ Owed[b] = (IF m \in Asks(b) THEN 1 ELSE 0) + n + Count(to_config, {SpawnMessage(b)})
          /\ Owed'[b] = n + Count(to_config', {SpawnMessage(b)})
          /\ Count(to_config, {SpawnMessage(b)}) \in Nat /\ Count(to_config', {SpawnMessage(b)}) \in Nat
    BY <1>1, <2>3, MessageGoes
  <2> HIDE DEF m, a
  <2>6. CASE UNCHANGED to_config
    <3>1. ASSUME NEW b \in App PROVE Owed'[b] \in Nat /\ Owed[b] = IF b = a THEN Owed'[b] + 1 ELSE Owed'[b]
      <4>1. PICK n \in Nat : /\ Owed[b] = (IF m \in Asks(b) THEN 1 ELSE 0) + n + Count(to_config, {SpawnMessage(b)})
                             /\ Owed'[b] = n + Count(to_config', {SpawnMessage(b)})
                             /\ Count(to_config, {SpawnMessage(b)}) \in Nat
        BY <2>5
      <4> QED
        BY <2>2, <2>6, <4>1
    <3> QED
      BY <1>1, <2>2, <2>4, <3>1, OneFewer
  <2>7. CASE to_config' = Append(to_config, SpawnMessage(a))
    <3> DEFINE g == SpawnMessage(a)
    <3>1. g \in ConfigMessage /\ <<g>> \in Seq(ConfigMessage) /\ to_config \in Seq(ConfigMessage)
      BY <2>2 DEF SpawnMessage, ConfigMessage, CallTypes
    <3>2. to_config' = to_config \o <<g>>
      BY <2>7, <3>1, AppendIsConcat
    <3>3. ASSUME NEW b \in App PROVE Owed[b] = Owed'[b]
      <4>1. PICK n \in Nat : /\ Owed[b] = (IF m \in Asks(b) THEN 1 ELSE 0) + n + Count(to_config, {SpawnMessage(b)})
                             /\ Owed'[b] = n + Count(to_config', {SpawnMessage(b)})
                             /\ Count(to_config, {SpawnMessage(b)}) \in Nat
        BY <2>5
      <4>2. Count(<<g>>, {SpawnMessage(b)}) = IF b = a THEN 1 ELSE 0
        <5>1. g \in {SpawnMessage(b)} <=> b = a
          BY DEF SpawnMessage
        <5> HIDE DEF g
        <5> QED
          BY <5>1, CountOne
      <4> HIDE DEF g
      <4> DEFINE z == <<g>>
      <4> HIDE DEF z
      <4>5. \A S : Count(to_config \o z, S) = Count(to_config, S) + Count(z, S)
        <5>1. to_config \in Seq(ConfigMessage) /\ z \in Seq(ConfigMessage)
          BY <3>1 DEF z
        <5> QED
          BY <5>1, CountConcat
      <4>3. Count(to_config \o <<g>>, {SpawnMessage(b)})
              = Count(to_config, {SpawnMessage(b)}) + Count(<<g>>, {SpawnMessage(b)})
        BY <4>5 DEF z
      <4>4. Count(to_config', {SpawnMessage(b)}) = Count(to_config, {SpawnMessage(b)}) + (IF b = a THEN 1 ELSE 0)
        BY <3>2, <4>2, <4>3
      <4> QED
        BY <2>2, <4>1, <4>4
    <3>4. UNCHANGED Owed
      BY <3>3, OwedIs DEF OwedOf
    <3> QED
      BY <1>1, <2>4, <3>4 DEF Keeps
  <2> QED
    BY <2>1, <2>6, <2>7
<1> QED
  BY <1>4, <1>5, <1>6, <1>7 DEF DisplayThread

\* A key press adds a message that asks for no program.
LEMMA KeyCalls ==
  ASSUME CallTypes, NEW c \in Callback, KeyPressed(c)
  PROVE  Keeps
<1> DEFINE m == [kind |-> "RunCallback", callback |-> c]
<1>1. to_config' = Append(to_config, m) /\ UNCHANGED <<vars, idles, turn, to_display>>
  BY DEF KeyPressed, configVars
<1>2. to_config \in Seq(ConfigMessage) /\ m \in ConfigMessage /\ \A a \in App : m # SpawnMessage(a)
  BY DEF CallTypes, ConfigMessage, SpawnMessage
<1> HIDE DEF m
<1> DEFINE z == <<m>>
<1>3. z \in Seq(ConfigMessage) /\ to_config' = to_config \o z
  BY <1>1, <1>2, AppendIsConcat
<1>4. UNCHANGED <<InForce, Outstanding>>
  BY <1>1 DEF vars, zoneVars, InForce, Outstanding
<1>5. Outstanding \in Seq(Call)
  BY ConcatFacts DEF CallTypes, Outstanding
<1>6. \A a \in App : Count(z, {SpawnMessage(a)}) = 0
  BY <1>2, CountOne
<1> HIDE DEF z
<1>7. ASSUME NEW a \in App PROVE Owed'[a] = Owed[a]
  <2> DEFINE out == Outstanding
             k == Count(to_config, {SpawnMessage(a)})
             n == Count(out, Asks(a))
             e == Count(<<>>, Asks(a))
  <2>1. <<>> \in Seq(Call) /\ out = out \o <<>> /\ out \in Seq(Call)
    BY <1>5, ConcatEmptySeq
  <2>2. to_config \o z \in Seq(ConfigMessage)
    BY <1>2, <1>3, ConcatFacts
  <2>3. Count(to_config \o z, {SpawnMessage(a)}) = k + 0 /\ k \in Nat
    <3>1. Count(to_config \o z, {SpawnMessage(a)}) = k + Count(z, {SpawnMessage(a)}) /\ k \in Nat
      BY <1>2, <1>3, CountConcat
    <3> QED
      BY <1>6, <3>1
  <2> HIDE DEF out
  <2>4. OwedOf(out \o <<>>, to_config)[a] = n + e + k /\ n \in Nat /\ e \in Nat
    BY <1>2, <2>1, OwedFacts
  <2>5. OwedOf(out \o <<>>, to_config \o z)[a] = n + e + Count(to_config \o z, {SpawnMessage(a)})
    BY <2>1, <2>2, OwedFacts
  <2>6. Owed[a] = OwedOf(out \o <<>>, to_config)[a] /\ Owed'[a] = OwedOf(out \o <<>>, to_config \o z)[a]
    BY <1>3, <1>4, <2>1, OwedIs DEF out
  <2> HIDE DEF n, k, e
  <2> QED
    BY <2>3, <2>4, <2>5, <2>6
<1>8. UNCHANGED Owed
  BY <1>7, OwedIs DEF OwedOf
<1> QED
  BY <1>1, <1>4, <1>8, OwedIs DEF Keeps

\* What neither runs Lua code nor handles a call.
LEMMA OtherCalls ==
  ASSUME EnterLoop \/ Watch \/ EndDispatch \/ Clients \/ (\E contents \in Chunks \cup {Gone} : ChangeFile(contents))
  PROVE  Keeps
<1>1. UNCHANGED <<zoneVars, idles, to_display, to_config, turn>>
  BY DEF EnterLoop, Watch, EndDispatch, Clients, Client, ChangeFile, configVars, vars,
         NewToplevel, AppIdChanged, MapAgain, ToplevelDestroyed, FocusWindow, Refresh
<1>2. UNCHANGED <<InForce, Outstanding, to_config, turn>>
  BY <1>1 DEF zoneVars, InForce, Outstanding
<1> QED
  BY <1>2, CallsStutter DEF Keeps

\* What Promise computes is what Effects does.
LEMMA SameEffects ==
  /\ Promise!Nothing = Effects!Nothing
  /\ \A st, calls : Promise!After(st, calls) = Effects!After(st, calls)
  /\ \A calls : Promise!Requests(calls) = Effects!Requests(calls)
<1>1. \A st, c : Promise!Effect(st, c) = Effects!Effect(st, c)
  BY DEF Promise!Effect, Effects!Effect
<1>2. \A S : Promise!Cardinality(S) = Effects!Cardinality(S)
  BY DEF Promise!Cardinality, Effects!Cardinality
<1>3. Promise!Nothing = Effects!Nothing
  BY DEF Promise!Nothing, Effects!Nothing
<1>4. \A st, calls : Promise!After(st, calls) = Effects!After(st, calls)
  BY <1>1 DEF Promise!After, Effects!After
<1>5. \A calls : Promise!Requests(calls) = Effects!Requests(calls)
  BY <1>2 DEF Promise!Requests, Effects!Requests
<1> QED
  BY <1>3, <1>4, <1>5

LEMMA CallsInit == DesktopInit => Promise!Init
<1> SUFFICES ASSUME DesktopInit PROVE Promise!Init
  OBVIOUS
<1> DEFINE c == file.calls
<1>1. file \in Chunks /\ c \in Seq(Call)
  BY DesktopAssumption DEF DesktopInit
<1>2. Outstanding = <<>> \o c /\ to_config = <<>> /\ turn = FALSE
  BY DEF DesktopInit, Outstanding
<1>3. <<>> \o c = c /\ <<>> \in Seq(Call) /\ <<>> \in Seq(ConfigMessage)
  BY <1>1, ConcatEmptySeq
<1>4. InForce = Promise!Nothing
  BY SameEffects DEF DesktopInit, Init, InForce, Effects!Nothing
<1> HIDE DEF c
<1>5. Settings = Promise!After(Promise!Nothing, c)
  BY <1>2, <1>3, <1>4, OwedIs, SameEffects
<1>6. Owed = Promise!Requests(c)
  <2>1. ASSUME NEW a \in App PROVE Owed[a] = Promise!Requests(c)[a]
    <3> DEFINE n == Count(c, Asks(a))
               e == Count(<<>>, Asks(a))
               k == Count(<<>>, {SpawnMessage(a)})
    <3>1. OwedOf(<<>> \o c, <<>>)[a] = e + n + k /\ n \in Nat
      BY <1>1, <1>3, OwedFacts
    <3>2. e = 0 /\ k = 0
      BY CountNone
    <3>3. Promise!Requests(c)[a] = n
      BY <1>1, RequestsCount, SameEffects
    <3> HIDE DEF n, e, k
    <3> QED
      BY <1>2, <3>1, <3>2, <3>3, OwedIs
  <2>2. Promise!Requests(c) = [a \in App |-> Promise!Requests(c)[a]]
    BY SameEffects DEF Effects!Requests
  <2>3. Owed = [a \in App |-> Owed[a]]
    BY OwedIs DEF OwedOf
  <2> QED
    BY <2>1, <2>2, <2>3
<1> QED
  BY <1>1, <1>2, <1>5, <1>6 DEF Promise!Init, c

LEMMA CallsStep ==
  DesktopInv /\ DesktopInv' /\ [DesktopNext]_desktopVars
    => [Promise!Run \/ Promise!Answer]_<<Settings, Owed, turn>>
<1> SUFFICES ASSUME DesktopInv, DesktopInv', [DesktopNext]_desktopVars
             PROVE  [Promise!Run \/ Promise!Answer]_<<Settings, Owed, turn>>
  OBVIOUS
<1>1. CallTypes
  BY CallTypesHold
<1>2. CallTypes'
  BY CallTypesHold, PTL
<1>3. Runs => Promise!Run
  BY SameEffects DEF Runs, Promise!Run, Scripts
<1>4. Answers => Promise!Answer
  BY DEF Answers, Promise!Answer
<1>5. Runs \/ Answers \/ Keeps
  <2>1. CASE UNCHANGED desktopVars
    <3>1. UNCHANGED <<InForce, Outstanding, to_config, turn>>
      BY <2>1 DEF desktopVars, vars, zoneVars, configVars, InForce, Outstanding
    <3> QED
      BY <3>1, CallsStutter DEF Keeps
  <2>2. CASE EnterLoop \/ Watch \/ Clients
    BY <2>2, OtherCalls
  <2>3. CASE ConfigThread
    <3>1. file \in Chunks \cup {Gone}
      BY DEF DesktopInv, FileInv
    <3> QED
      BY <1>1, <1>2, <2>3, <3>1, ReloadCalls, RunCallbackCalls, HandleSpawnCalls, ForwardCalls, IdleCalls,
         OtherCalls DEF ConfigThread
  <2>4. CASE DisplayThread
    BY <1>1, <1>2, <2>4, MessageCalls
  <2>5. CASE Outside
    BY <1>1, <2>5, KeyCalls, OtherCalls DEF Outside
  <2> QED
    BY <2>1, <2>2, <2>3, <2>4, <2>5 DEF DesktopNext
<1> QED
  BY <1>3, <1>4, <1>5 DEF Keeps

(***************************************************************************)
(* The threads together keep the promise of Calls: whatever the scripts,   *)
(* keys, reloads and messages, what the outstanding calls will have made   *)
(* of the settings changes only when Lua code runs, and then by its calls  *)
(* in their order; every request for a program is answered once.           *)
(***************************************************************************)
THEOREM CallsImplemented == DesktopSpec => CallsKeepOrder
<1>1. DesktopInit => Promise!Init
  BY CallsInit
<1>2. DesktopInv /\ DesktopInv' /\ [DesktopNext]_desktopVars
        => [Promise!Run \/ Promise!Answer]_<<Settings, Owed, turn>>
  BY CallsStep
<1> QED
  BY <1>1, <1>2, DesktopInitInv, DesktopNextInv, PTL DEF DesktopSpec, CallsKeepOrder, Promise!Spec
=============================================================================
