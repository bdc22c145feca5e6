------------------------- MODULE SeatSessionProofs --------------------------
(* Proofs about Keyboard.tla for every xkb keymap and every set of key maps, *)
(* and about SeatSession.tla, which hands it the keys of its keyboards, for  *)
(* any keyboards, GPUs and bounds.                                           *)
EXTENDS SeatSession, FiniteSetTheorems, SequenceTheorems, WellFoundedInduction, TLAPS

\* A symbol has a symbol type, whatever is held.
LEMMA SymOfType ==
  ASSUME NEW k \in Key, NEW keys
  PROVE  SymOf(k, keys) \in Keysym
BY KeyboardAssumption DEF SymOf

LEMMA NextTypeOK == TypeOK /\ [Next]_vars => TypeOK'
<1> SUFFICES ASSUME TypeOK, [Next]_vars PROVE TypeOK'
  OBVIOUS
<1> USE DEF TypeOK
<1>1. ASSUME NEW k \in Key, Press(k) PROVE TypeOK'
  BY <1>1, SymOfType, KeyboardAssumption DEF Press, RunShortcut, Forward
<1>2. ASSUME NEW k \in Key, Release(k) PROVE TypeOK'
  BY <1>2, SymOfType, KeyboardAssumption DEF Release, RunShortcut, Swallow, Forward
<1>3. ASSUME NEW slot \in Slots, Keymap(slot) PROVE TypeOK'
  BY <1>3 DEF Keymap
<1>4. CASE UNCHANGED vars
  BY <1>4 DEF vars
<1> QED
  BY <1>1, <1>2, <1>3, <1>4 DEF Next

\* Every variable keeps its type.
THEOREM TypeCorrect == Spec => []TypeOK
<1>1. Init => TypeOK
  BY DEF Init, TypeOK
<1> QED
  BY <1>1, NextTypeOK, PTL DEF Spec

-----------------------------------------------------------------------------
\* Only the symbol of a key map is ever suppressed.
SuppressedIsMapped == \A sym \in suppressed : \E slot \in keymaps : slot[2] = sym

IInv == TypeOK /\ SuppressedIsMapped /\ PlainKeysAreFaithful

\* A shortcut needs a key map with the symbol of its key.
LEMMA ShortcutIsMapped ==
  ASSUME NEW k \in Key, NEW keys, Shortcut(k, keys)
  PROVE  ~Unmapped(k) /\ \E slot \in keymaps : slot[2] = SymOf(k, keys)
<1> DEFINE slot == <<keys \cap ModKey, SymOf(k, keys)>>
<1>1. slot \in keymaps /\ slot[2] = Sym[k][keys \cap ModKey] /\ slot[2] = SymOf(k, keys)
  BY DEF Shortcut, SymOf
<1> HIDE DEF slot
<1>2. keys \cap ModKey \in SUBSET ModKey
  OBVIOUS
<1>3. ~Unmapped(k)
  BY <1>1, <1>2 DEF Unmapped
<1> QED
  BY <1>1, <1>3

\* So does a symbol that is suppressed.
LEMMA SuppressedKey ==
  ASSUME SuppressedIsMapped, NEW k \in Key, NEW keys, SymOf(k, keys) \in suppressed
  PROVE  ~Unmapped(k)
<1>1. PICK slot \in keymaps : slot[2] = Sym[k][keys \cap ModKey]
  BY DEF SuppressedIsMapped, SymOf
<1>2. keys \cap ModKey \in SUBSET ModKey
  OBVIOUS
<1> QED
  BY <1>1, <1>2 DEF Unmapped

LEMMA NextIInv == IInv /\ [Next]_vars => IInv'
<1> SUFFICES ASSUME IInv, [Next]_vars PROVE IInv'
  OBVIOUS
<1>0. TypeOK'
  BY NextTypeOK DEF IInv
<1>1. ASSUME NEW k \in Key, Press(k) PROVE SuppressedIsMapped' /\ PlainKeysAreFaithful'
  <2>1. CASE RunShortcut(k, pressed \cup {k})
    BY <1>1, <2>1, ShortcutIsMapped
       DEF IInv, Press, RunShortcut, SuppressedIsMapped, PlainKeysAreFaithful, Unmapped
  <2>2. CASE Forward(down \cup {k})
    BY <1>1, <2>2 DEF IInv, Press, Forward, SuppressedIsMapped, PlainKeysAreFaithful, Unmapped
  <2> QED
    BY <1>1, <2>1, <2>2 DEF Press
<1>2. ASSUME NEW k \in Key, Release(k) PROVE SuppressedIsMapped' /\ PlainKeysAreFaithful'
  <2>1. CASE RunShortcut(k, pressed \ {k})
    BY <1>2, <2>1, ShortcutIsMapped
       DEF IInv, Release, RunShortcut, SuppressedIsMapped, PlainKeysAreFaithful, Unmapped
  <2>2. CASE Swallow(k, pressed \ {k})
    BY <1>2, <2>2, SuppressedKey
       DEF IInv, Release, Swallow, SuppressedIsMapped, PlainKeysAreFaithful, Unmapped
  <2>3. CASE Forward(down \ {k})
    BY <1>2, <2>3 DEF IInv, Release, Forward, SuppressedIsMapped, PlainKeysAreFaithful, Unmapped
  <2> QED
    BY <1>2, <2>1, <2>2, <2>3 DEF Release
<1>3. ASSUME NEW slot \in Slots, Keymap(slot) PROVE SuppressedIsMapped' /\ PlainKeysAreFaithful'
  BY <1>3 DEF IInv, Keymap, SuppressedIsMapped, PlainKeysAreFaithful, Unmapped
<1>4. CASE UNCHANGED vars
  <2>1. UNCHANGED <<pressed, keymaps, suppressed, down>>
    BY <1>4 DEF vars
  <2>2. SuppressedIsMapped'
    BY <2>1 DEF IInv, SuppressedIsMapped
  <2>3. PlainKeysAreFaithful'
    BY <2>1 DEF IInv, PlainKeysAreFaithful, Unmapped
  <2> QED
    BY <1>0, <2>2, <2>3 DEF IInv
<1> QED
  BY <1>0, <1>1, <1>2, <1>3, <1>4 DEF Next, IInv

\* Shortcuts never interfere with a key that has none of their symbols.
THEOREM PlainKeys == Spec => []PlainKeysAreFaithful
<1>1. Init => IInv
  BY DEF Init, IInv, TypeOK, SuppressedIsMapped, PlainKeysAreFaithful
<1>2. IInv => PlainKeysAreFaithful
  BY DEF IInv
<1> QED
  BY <1>1, <1>2, NextIInv, PTL DEF Spec

-----------------------------------------------------------------------------
(* The session                                                               *)

Event ==
  [kind : {"added", "removed"}, board : Board] \cup [kind : {"press", "release"}, key : Key]

\* What the queue s makes of x, of which yes and no tell: the last of them says
\* whether x is in after; without one, x is there if it is in now.
Leads(s, yes, no, x, now, after) ==
  /\ \A i \in 1..Len(s) :
       s[i] \in {yes, no} /\ (\A j \in (i + 1)..Len(s) : s[j] \notin {yes, no}) => (s[i] = yes <=> x \in after)
  /\ (\A i \in 1..Len(s) : s[i] \notin {yes, no}) => (x \in now <=> x \in after)

\* The queue takes the input thread's keyboards and keys to those of libinput ...
BoardsFollow == \A b \in Board : Leads(events, On(b, "added"), On(b, "removed"), b, keyboards, opened)
KeysFollow == \A k \in Key : Leads(events, Of(k, "press"), Of(k, "release"), k, pressed, Holding)

\* ... and the LEDs of a keyboard that is not to be added any more are right.
LampsFollow == \A b \in opened : On(b, "added") \notin Range(events) => lamps[b] = led

\* No key is held on two keyboards.
HeldOnce == \A b, c \in Board : \A k \in held[b] \cap held[c] : b = c

Queues ==
  /\ events \in Seq(Event)
  /\ toInput \in Seq(Gpu)
  /\ toRenderer \in Seq(Gpu \cup {"created", "paused", "resumed"})

SessionIInv ==
  /\ SessionTypeOK
  /\ Queues
  /\ HeldOnce
  /\ BoardsFollow
  /\ KeysFollow
  /\ LampsFollow
  /\ NoGpuIsForgotten

-----------------------------------------------------------------------------
(* Sequences of all the elements of a set, and what a queue makes of one     *)

LEMMA SeqsOfASet ==
  ASSUME NEW S, IsFiniteSet(S), NEW s \in SetToSeqs(S)
  PROVE  /\ s \in Seq(S)
         /\ \A x \in S : \E i \in 1..Len(s) : s[i] = x
<1> DEFINE n == Cardinality(S)
<1>1. n \in Nat
  BY FS_CardinalityType
<1>2. s \in [1..n -> S] /\ \A i, j \in 1..n : i # j => s[i] # s[j]
  BY DEF SetToSeqs
<1>3. s \in Injection(1..n, S)
  BY <1>2 DEF Injection, IsInjective
<1>4. Cardinality(1..n) = n
  BY <1>1, FS_Interval
<1>5. s \in Surjection(1..n, S)
  BY <1>3, <1>4, FS_Injection
<1>6. \A x \in S : \E i \in 1..n : s[i] = x
  BY <1>5 DEF Surjection
<1>7. s \in Seq(S) /\ Len(s) = n
  BY <1>1, <1>2
<1> QED
  BY <1>6, <1>7

\* An event that is added to the queue is the last one.
LEMMA LeadsOn ==
  ASSUME NEW E, NEW s \in Seq(E), NEW t \in Seq(E), NEW yes, NEW no, NEW x, NEW now, NEW after, NEW then,
         Leads(s, yes, no, x, now, after),
         \A i \in 1..Len(t) : t[i] \in {yes, no} => (t[i] = yes <=> x \in then),
         (\A i \in 1..Len(t) : t[i] \notin {yes, no}) => (x \in then <=> x \in after)
  PROVE  Leads(s \o t, yes, no, x, now, then)
<1> DEFINE u == s \o t
<1>1. /\ Len(s) \in Nat /\ Len(t) \in Nat /\ Len(u) = Len(s) + Len(t)
      /\ \A i \in 1..Len(s) : u[i] = s[i]
      /\ \A i \in 1..Len(t) : u[Len(s) + i] = t[i]
  BY ConcatProperties, LenProperties
<1>2. \A i \in 1..Len(u) : i \notin 1..Len(s) => i - Len(s) \in 1..Len(t) /\ u[i] = t[i - Len(s)]
  BY ConcatProperties, LenProperties
<1> HIDE DEF u
<1>3. ASSUME NEW i \in 1..Len(u), u[i] \in {yes, no}, \A j \in (i + 1)..Len(u) : u[j] \notin {yes, no}
      PROVE  u[i] = yes <=> x \in then
  <2>1. CASE i \in 1..Len(s)
    <3>1. \A j \in 1..Len(t) : t[j] \notin {yes, no}
      <4> SUFFICES ASSUME NEW j \in 1..Len(t) PROVE t[j] \notin {yes, no}
        OBVIOUS
      <4>1. Len(s) + j \in (i + 1)..Len(u)
        BY <1>1, <2>1
      <4> QED
        BY <1>1, <1>3, <4>1
    <3>2. \A j \in (i + 1)..Len(s) : s[j] \notin {yes, no}
      BY <1>1, <1>3, <2>1
    <3> QED
      BY <1>1, <1>3, <2>1, <3>1, <3>2 DEF Leads
  <2>2. CASE i \notin 1..Len(s)
    BY <1>2, <1>3, <2>2
  <2> QED
    BY <2>1, <2>2
<1>4. ASSUME \A i \in 1..Len(u) : u[i] \notin {yes, no}
      PROVE  x \in now <=> x \in then
  <2>1. \A i \in 1..Len(s) : s[i] \notin {yes, no}
    BY <1>1, <1>4
  <2>2. \A i \in 1..Len(t) : t[i] \notin {yes, no}
    <3> SUFFICES ASSUME NEW i \in 1..Len(t) PROVE t[i] \notin {yes, no}
      OBVIOUS
    <3>1. Len(s) + i \in 1..Len(u)
      BY <1>1
    <3> QED
      BY <1>1, <1>4, <3>1
  <2> QED
    BY <2>1, <2>2 DEF Leads
<1> QED
  BY <1>3, <1>4 DEF Leads, u

\* An event that is handled is done, and the rest of the queue leads on.
LEMMA LeadsRest ==
  ASSUME NEW E, NEW s \in Seq(E), s # <<>>, NEW yes, NEW no, yes # no, NEW x, NEW now, NEW after, NEW next,
         Leads(s, yes, no, x, now, after),
         Head(s) = yes => x \in next,
         Head(s) = no => x \notin next,
         Head(s) \notin {yes, no} => (x \in next <=> x \in now)
  PROVE  Leads(Tail(s), yes, no, x, next, after)
<1> DEFINE t == Tail(s)
<1>1. /\ Len(s) \in Nat \ {0} /\ Len(t) = Len(s) - 1 /\ Head(s) = s[1]
      /\ \A i \in 1..Len(t) : t[i] = s[i + 1]
  BY HeadTailProperties, EmptySeq
<1> HIDE DEF t
<1>2. ASSUME NEW i \in 1..Len(t), t[i] \in {yes, no}, \A j \in (i + 1)..Len(t) : t[j] \notin {yes, no}
      PROVE  t[i] = yes <=> x \in after
  <2>1. i + 1 \in 1..Len(s) /\ s[i + 1] = t[i]
    BY <1>1
  <2>2. \A j \in (i + 2)..Len(s) : s[j] \notin {yes, no}
    <3> SUFFICES ASSUME NEW j \in (i + 2)..Len(s) PROVE s[j] \notin {yes, no}
      OBVIOUS
    <3>1. j - 1 \in (i + 1)..Len(t) /\ (j - 1) + 1 = j
      BY <1>1
    <3>2. t[j - 1] = s[j]
      BY <1>1, <3>1
    <3> QED
      BY <1>2, <3>1, <3>2
  <2> QED
    BY <1>2, <2>1, <2>2 DEF Leads
<1>3. ASSUME \A i \in 1..Len(t) : t[i] \notin {yes, no}
      PROVE  x \in next <=> x \in after
  <2>1. \A j \in 2..Len(s) : s[j] \notin {yes, no}
    <3> SUFFICES ASSUME NEW j \in 2..Len(s) PROVE s[j] \notin {yes, no}
      OBVIOUS
    <3>1. j - 1 \in 1..Len(t) /\ (j - 1) + 1 = j
      BY <1>1
    <3> QED
      BY <1>1, <1>3, <3>1
  <2>2. CASE s[1] \in {yes, no}
    <3>1. s[1] = yes <=> x \in after
      BY <1>1, <2>1, <2>2 DEF Leads
    <3> QED
      BY <1>1, <2>2, <3>1
  <2>3. CASE s[1] \notin {yes, no}
    <3>1. \A i \in 1..Len(s) : s[i] \notin {yes, no}
      BY <1>1, <2>1, <2>3
    <3> QED
      BY <1>1, <2>3, <3>1 DEF Leads
  <2> QED
    BY <2>2, <2>3
<1> QED
  BY <1>2, <1>3 DEF Leads, t

LEMMA InRange ==
  ASSUME NEW E, NEW s \in Seq(E), NEW x, x \in Range(s)
  PROVE  \E i \in 1..Len(s) : s[i] = x
BY LenProperties DEF Range

LEMMA RangeHas ==
  ASSUME NEW E, NEW s \in Seq(E), NEW i \in 1..Len(s)
  PROVE  s[i] \in Range(s)
BY LenProperties DEF Range

\* A set of numbers has a least one, and a queue its latest event of a kind.
LEMMA Least ==
  ASSUME NEW T, T \subseteq Nat, T # {}
  PROVE  \E n \in T : \A m \in T : n <= m
<1> DEFINE R == {ss \in Nat \X Nat : ss[1] < ss[2]}
<1>1. IsWellFoundedOn(R, Nat)
  BY NatLessThanWellFounded DEF OpToRel
<1>2. \A m, n \in Nat : <<m, n>> \in R <=> m < n
  OBVIOUS
<1> HIDE DEF R
<1>3. PICK n \in T : \A m \in T : ~(<<m, n>> \in R)
  BY <1>1, WFMin
<1>4. \A m \in T : m \in Nat /\ n \in Nat
  OBVIOUS
<1>5. \A m \in T : ~(m < n)
  BY <1>2, <1>3, <1>4
<1> QED
  BY <1>4, <1>5

LEMMA Latest ==
  ASSUME NEW E, NEW s \in Seq(E), NEW i \in 1..Len(s), NEW A, s[i] \in A
  PROVE  \E k \in 1..Len(s) : s[k] \in A /\ \A j \in (k + 1)..Len(s) : s[j] \notin A
<1> DEFINE T == {Len(s) - j : j \in {j \in 1..Len(s) : s[j] \in A}}
<1>1. Len(s) \in Nat
  BY LenProperties
<1>2. T \subseteq Nat
  BY <1>1
<1>3. Len(s) - i \in T
  OBVIOUS
<1>4. \A n \in T : \E j \in 1..Len(s) : s[j] \in A /\ n = Len(s) - j
  OBVIOUS
<1>5. \A j \in 1..Len(s) : s[j] \in A => Len(s) - j \in T
  OBVIOUS
<1> HIDE DEF T
<1>6. PICK n \in T : \A m \in T : n <= m
  BY <1>2, <1>3, Least
<1>7. PICK k \in 1..Len(s) : s[k] \in A /\ n = Len(s) - k
  BY <1>4
<1>8. \A j \in (k + 1)..Len(s) : s[j] \notin A
  <2> SUFFICES ASSUME NEW j \in (k + 1)..Len(s), s[j] \in A PROVE FALSE
    OBVIOUS
  <2>1. j \in 1..Len(s)
    BY <1>1
  <2>2. n <= Len(s) - j
    BY <1>5, <1>6, <2>1
  <2> QED
    BY <1>1, <1>7, <2>2
<1> QED
  BY <1>7, <1>8

\* What is there in the end, and is not added by an event, is there already.
LEMMA LeadsPresent ==
  ASSUME NEW E, NEW s \in Seq(E), NEW yes, NEW no, yes # no, NEW x, NEW now, NEW after,
         Leads(s, yes, no, x, now, after), x \in after,
         \A i \in 1..Len(s) : s[i] # yes
  PROVE  x \in now
<1>1. CASE \A i \in 1..Len(s) : s[i] \notin {yes, no}
  BY <1>1 DEF Leads
<1>2. CASE \E i \in 1..Len(s) : s[i] \in {yes, no}
  <2>1. PICK k \in 1..Len(s) : s[k] \in {yes, no} /\ \A j \in (k + 1)..Len(s) : s[j] \notin {yes, no}
    BY <1>2, Latest
  <2> QED
    BY <2>1 DEF Leads
<1> QED
  BY <1>1, <1>2

\* What is in a queue when another is added, and when its head is taken.
LEMMA RangeRest ==
  ASSUME NEW E, NEW s \in Seq(E), s # <<>>
  PROVE  /\ Head(s) \in E /\ Tail(s) \in Seq(E)
         /\ Range(s) = {Head(s)} \cup Range(Tail(s))
<1> DEFINE t == Tail(s)
<1>1. /\ Len(s) \in Nat \ {0} /\ Len(t) = Len(s) - 1 /\ Head(s) = s[1] /\ Head(s) \in E /\ t \in Seq(E)
      /\ \A i \in 1..Len(t) : t[i] = s[i + 1]
  BY HeadTailProperties, EmptySeq
<1> HIDE DEF t
<1>2. ASSUME NEW x \in Range(s) PROVE x = Head(s) \/ x \in Range(t)
  <2>1. PICK i \in 1..Len(s) : s[i] = x
    BY InRange
  <2>2. CASE i = 1
    BY <1>1, <2>1, <2>2
  <2>3. CASE i # 1
    <3>1. i - 1 \in 1..Len(t) /\ (i - 1) + 1 = i
      BY <1>1, <2>3
    <3>2. t[i - 1] = x
      BY <1>1, <2>1, <3>1
    <3> QED
      BY <1>1, <3>1, <3>2, RangeHas
  <2> QED
    BY <2>2, <2>3
<1>3. Head(s) \in Range(s)
  BY <1>1, RangeHas
<1>4. ASSUME NEW x \in Range(t) PROVE x \in Range(s)
  <2>1. PICK i \in 1..Len(t) : t[i] = x
    BY <1>1, <1>4, InRange
  <2>2. i + 1 \in 1..Len(s) /\ s[i + 1] = x
    BY <1>1, <2>1
  <2> QED
    BY <2>2, RangeHas
<1>5. Range(s) = {Head(s)} \cup Range(t)
  BY <1>2, <1>3, <1>4
<1> QED
  BY <1>1, <1>5 DEF t

LEMMA RangeAppend ==
  ASSUME NEW E, NEW s \in Seq(E), NEW e \in E
  PROVE  Append(s, e) \in Seq(E) /\ Range(Append(s, e)) = Range(s) \cup {e}
<1>1. <<e>> \in Seq(E)
  OBVIOUS
<1>2. Append(s, e) \in Seq(E) /\ Append(s, e) = s \o <<e>>
  BY AppendIsConcat, AppendProperties
<1>3. Range(<<e>>) = {e}
  BY DEF Range
<1>4. Range(s \o <<e>>) = Range(s) \cup Range(<<e>>)
  BY <1>1, RangeConcatenation
<1> QED
  BY <1>2, <1>3, <1>4

-----------------------------------------------------------------------------
(* Events                                                                    *)

LEMMA EventFacts ==
  /\ \A b \in Board : On(b, "added") \in Event /\ On(b, "removed") \in Event
  /\ \A k \in Key : Of(k, "press") \in Event /\ Of(k, "release") \in Event
  /\ \A b, c, x, y : On(b, x) = On(c, y) <=> b = c /\ x = y
  /\ \A k, l, x, y : Of(k, x) = Of(l, y) <=> k = l /\ x = y
  /\ \A b, k : \A x \in {"added", "removed"}, y \in {"press", "release"} : On(b, x) # Of(k, y)
<1>1. \A b \in Board : On(b, "added") \in Event /\ On(b, "removed") \in Event
  BY DEF On, Event
<1>2. \A k \in Key : Of(k, "press") \in Event /\ Of(k, "release") \in Event
  BY DEF Of, Event
<1>3. \A b, x : On(b, x).board = b /\ On(b, x).kind = x
  BY DEF On
<1>4. \A k, x : Of(k, x).key = k /\ Of(k, x).kind = x
  BY DEF Of
<1> QED
  BY <1>1, <1>2, <1>3, <1>4

\* What is at the head of the queue, by its kind.
LEMMA HeadEvent ==
  ASSUME NEW e \in Event
  PROVE  /\ e.kind \in {"added", "removed"} => e.board \in Board /\ e = On(e.board, e.kind)
         /\ e.kind \in {"press", "release"} => e.key \in Key /\ e = Of(e.key, e.kind)
BY DEF Event, On, Of

LEMMA AddedEvents ==
  ASSUME NEW S \in SUBSET Board, NEW s \in SetToSeqs({On(b, "added") : b \in S})
  PROVE  /\ s \in Seq(Event)
         /\ \A b \in S : \E i \in 1..Len(s) : s[i] = On(b, "added")
         /\ \A i \in 1..Len(s) : \E b \in S : s[i] = On(b, "added")
<1> DEFINE T == {On(b, "added") : b \in S}
           f == [b \in S |-> On(b, "added")]
<1>1. IsFiniteSet(S)
  BY SeatSessionAssumption, FS_Subset
<1>2. f \in Surjection(S, T)
  BY DEF Surjection
<1>3. IsFiniteSet(T)
  BY <1>1, <1>2, FS_Surjection
<1>4. s \in Seq(T) /\ \A x \in T : \E i \in 1..Len(s) : s[i] = x
  BY <1>3, SeqsOfASet
<1>5. T \subseteq Event
  BY EventFacts
<1>6. s \in Seq(Event)
  BY <1>4, <1>5, SeqMonotonic
<1>7. \A i \in 1..Len(s) : s[i] \in T
  BY <1>4, ElementOfSeq
<1> QED
  BY <1>4, <1>6, <1>7

LEMMA LastEvents ==
  ASSUME SessionTypeOK, NEW S \in SUBSET Board, NEW s \in Farewells(S)
  PROVE  /\ s \in Seq(Event)
         /\ \A b \in S : \E i \in 1..Len(s) : s[i] = On(b, "removed")
         /\ \A b \in S : \A k \in held[b] : \E i \in 1..Len(s) : s[i] = Of(k, "release")
         /\ \A i \in 1..Len(s) : \/ \E b \in S : s[i] = On(b, "removed")
                                 \/ \E b \in S : \E k \in held[b] : s[i] = Of(k, "release")
<1> DEFINE K == UNION {held[b] : b \in S}
           R == {Of(k, "release") : k \in K}
           T == {On(b, "removed") : b \in S}
           f == [k \in K |-> Of(k, "release")]
           g == [b \in S |-> On(b, "removed")]
<1>1. K \in SUBSET Key
  BY DEF SessionTypeOK
<1>2. IsFiniteSet(S) /\ IsFiniteSet(K)
  BY <1>1, SeatSessionAssumption, FS_Subset
<1>3. f \in Surjection(K, R) /\ g \in Surjection(S, T)
  BY DEF Surjection
<1>4. IsFiniteSet(R \cup T)
  BY <1>2, <1>3, FS_Surjection, FS_Union
<1>5. s \in SetToSeqs(R \cup T)
  BY DEF Farewells
<1>6. s \in Seq(R \cup T) /\ \A x \in R \cup T : \E i \in 1..Len(s) : s[i] = x
  <2> HIDE DEF R, T
  <2> QED
    BY <1>4, <1>5, SeqsOfASet
<1>7. R \cup T \subseteq Event
  BY <1>1, EventFacts
<1>8. s \in Seq(Event)
  BY <1>6, <1>7, SeqMonotonic
<1>9. \A i \in 1..Len(s) : s[i] \in R \cup T
  <2> HIDE DEF R, T
  <2> QED
    BY <1>6, ElementOfSeq
<1>10. \A b \in S : On(b, "removed") \in T
  OBVIOUS
<1>11. \A b \in S : \A k \in held[b] : Of(k, "release") \in R
  OBVIOUS
<1>12. \A i \in 1..Len(s) : s[i] \in T => \E b \in S : s[i] = On(b, "removed")
  OBVIOUS
<1>13. \A i \in 1..Len(s) : s[i] \in R => \E b \in S : \E k \in held[b] : s[i] = Of(k, "release")
  OBVIOUS
<1> HIDE DEF R, T
<1> QED
  BY <1>6, <1>8, <1>9, <1>10, <1>11, <1>12, <1>13

-----------------------------------------------------------------------------
(* libinput                                                                  *)

LEMMA HoldingIs ==
  ASSUME NEW h \in [Board -> SUBSET Key], NEW k
  PROVE  k \in UNION Range(h) <=> \E b \in Board : k \in h[b]
BY DEF Range

\* What the queue leads to when libinput adds an event of a key or of no key.
LEMMA MoveFollows ==
  ASSUME SessionIInv, NEW b \in Board, NEW k \in Key, KeyMoves(b, k)
  PROVE  SessionIInv'
<1> USE DEF allVars, boardVars, gpuVars, vars
<1>1. PICK x \in {"press", "release"} :
        /\ events' = Append(events, Of(k, x))
        /\ x = "press" => k \notin Holding /\ held' = [held EXCEPT ![b] = @ \cup {k}]
        /\ x = "release" => k \in held[b] /\ held' = [held EXCEPT ![b] = @ \ {k}]
  BY DEF KeyMoves
<1>2. UNCHANGED <<vars, opened, lamps, keyboards, led, session, switches, gpuVars, threads>> /\ b \in opened
  BY DEF KeyMoves
<1>3. held \in [Board -> SUBSET Key] /\ events \in Seq(Event) /\ Of(k, x) \in Event
  BY EventFacts DEF SessionIInv, SessionTypeOK, Queues
<1>4. held' \in [Board -> SUBSET Key] /\ \A c \in Board \ {b} : held'[c] = held[c]
  BY <1>1, <1>3
<1>5. events' = events \o <<Of(k, x)>> /\ events' \in Seq(Event) /\ <<Of(k, x)>> \in Seq(Event)
  BY <1>1, <1>3, AppendIsConcat, AppendProperties
<1>6. HeldOnce'
  <2>1. CASE x = "press"
    <3>1. \A c \in Board : k \notin held[c]
      BY <1>1, <1>3, <2>1, HoldingIs DEF Holding
    <3> QED
      BY <1>1, <1>3, <2>1, <3>1 DEF HeldOnce, SessionIInv
  <2>2. CASE x = "release"
    BY <1>1, <1>3, <2>2 DEF HeldOnce, SessionIInv
  <2> QED
    BY <2>1, <2>2
<1>7. k \in Holding' <=> x = "press"
  <2>1. CASE x = "press"
    BY <1>1, <1>3, <1>4, <2>1, HoldingIs DEF Holding
  <2>2. CASE x = "release"
    <3>1. \A c \in Board : k \notin held'[c]
      BY <1>1, <1>3, <1>4, <2>2 DEF SessionIInv, HeldOnce
    <3> QED
      BY <1>4, <2>2, <3>1, HoldingIs DEF Holding
  <2> QED
    BY <2>1, <2>2
<1>8. \A l \in Key \ {k} : l \in Holding' <=> l \in Holding
  <2> SUFFICES ASSUME NEW l \in Key \ {k} PROVE l \in Holding' <=> l \in Holding
    OBVIOUS
  <2>1. \A c \in Board : l \in held'[c] <=> l \in held[c]
    BY <1>1, <1>3, <1>4
  <2> QED
    BY <1>3, <1>4, <2>1, HoldingIs DEF Holding
<1>9. KeysFollow'
  <2> SUFFICES ASSUME NEW l \in Key PROVE Leads(events', Of(l, "press"), Of(l, "release"), l, pressed, Holding')
    BY <1>2 DEF KeysFollow
  <2>1. Leads(events, Of(l, "press"), Of(l, "release"), l, pressed, Holding)
    BY DEF SessionIInv, KeysFollow
  <2>2. Len(<<Of(k, x)>>) = 1 /\ <<Of(k, x)>>[1] = Of(k, x)
    OBVIOUS
  <2>3. \A i \in 1..Len(<<Of(k, x)>>) : <<Of(k, x)>>[i] \in {Of(l, "press"), Of(l, "release")} =>
          (<<Of(k, x)>>[i] = Of(l, "press") <=> l \in Holding')
    BY <1>7, <2>2, EventFacts
  <2>4. (\A i \in 1..Len(<<Of(k, x)>>) : <<Of(k, x)>>[i] \notin {Of(l, "press"), Of(l, "release")}) =>
          (l \in Holding' <=> l \in Holding)
    <3>1. CASE l = k
      BY <2>2, <3>1
    <3>2. CASE l # k
      BY <1>8, <3>2
    <3> QED
      BY <3>1, <3>2
  <2> QED
    BY <1>3, <1>5, <2>1, <2>3, <2>4, LeadsOn
<1>10. BoardsFollow'
  <2> SUFFICES ASSUME NEW c \in Board PROVE Leads(events', On(c, "added"), On(c, "removed"), c, keyboards, opened)
    BY <1>2 DEF BoardsFollow
  <2>1. Leads(events, On(c, "added"), On(c, "removed"), c, keyboards, opened)
    BY DEF SessionIInv, BoardsFollow
  <2>2. \A i \in 1..Len(<<Of(k, x)>>) : <<Of(k, x)>>[i] \notin {On(c, "added"), On(c, "removed")}
    BY EventFacts
  <2> QED
    BY <1>3, <1>5, <2>1, <2>2, LeadsOn
<1>11. LampsFollow'
  <2> SUFFICES ASSUME NEW c \in opened, On(c, "added") \notin Range(events') PROVE lamps[c] = led
    BY <1>2 DEF LampsFollow
  <2>1. On(c, "added") \notin Range(events)
    <3>1. \A i \in 1..Len(events) : i \in 1..Len(events') /\ events'[i] = events[i]
      BY <1>1, <1>3, AppendProperties, LenProperties
    <3>2. \A i \in 1..Len(events') : events'[i] # On(c, "added")
      <4> SUFFICES ASSUME NEW i \in 1..Len(events') PROVE events'[i] # On(c, "added")
        OBVIOUS
      <4>1. events'[i] \in Range(events')
        BY <1>5, RangeHas
      <4> QED
        BY <4>1
    <3>3. \A i \in 1..Len(events) : events[i] # On(c, "added")
      BY <3>1, <3>2
    <3> QED
      BY <1>3, <3>3, InRange
  <2> QED
    BY <2>1 DEF SessionIInv, LampsFollow
<1>12. SessionTypeOK'
  BY <1>1, <1>2, <1>3, <1>4 DEF SessionIInv, SessionTypeOK, TypeOK
<1>13. Queues' /\ NoGpuIsForgotten'
  BY <1>2, <1>5 DEF SessionIInv, Queues, NoGpuIsForgotten
<1> QED
  BY <1>6, <1>9, <1>10, <1>11, <1>12, <1>13 DEF SessionIInv

\* The types of what libinput changes.
BoardTypes ==
  /\ opened \subseteq Board
  /\ held \in [Board -> SUBSET Key] /\ \A b \in Board \ opened : held[b] = {}
  /\ lamps \in [Board -> BOOLEAN]
  /\ events \in Seq(Event)

Following == HeldOnce /\ BoardsFollow /\ KeysFollow /\ LampsFollow

LEMMA SessionBoards ==
  SessionIInv => BoardTypes /\ Following
BY DEF SessionIInv, SessionTypeOK, Queues, BoardTypes, Following

LEMMA CloseFollows ==
  ASSUME SessionIInv, NEW S \in SUBSET opened, Close(S), UNCHANGED <<pressed, keyboards, led>>
  PROVE  BoardTypes' /\ Following'
<1>1. BoardTypes /\ Following /\ SessionTypeOK
  BY SessionBoards DEF SessionIInv
<1>2. S \in SUBSET Board
  BY <1>1 DEF BoardTypes
<1>3. PICK last \in Farewells(S) : events' = events \o last
  BY DEF Close
<1>4. /\ last \in Seq(Event)
      /\ \A b \in S : \E i \in 1..Len(last) : last[i] = On(b, "removed")
      /\ \A b \in S : \A k \in held[b] : \E i \in 1..Len(last) : last[i] = Of(k, "release")
      /\ \A i \in 1..Len(last) : \/ \E b \in S : last[i] = On(b, "removed")
                                 \/ \E b \in S : \E k \in held[b] : last[i] = Of(k, "release")
  BY <1>1, <1>2, LastEvents
<1>5. /\ opened' = opened \ S /\ UNCHANGED <<pressed, keyboards, led, lamps>>
      /\ held' = [b \in Board |-> IF b \in S THEN {} ELSE held[b]]
  BY DEF Close
<1>6. events \in Seq(Event) /\ events' \in Seq(Event)
  BY <1>1, <1>3, <1>4, ConcatProperties DEF BoardTypes
<1>7. BoardTypes'
  BY <1>1, <1>5, <1>6 DEF BoardTypes
<1>8. HeldOnce'
  BY <1>1, <1>5 DEF BoardTypes, Following, HeldOnce
<1>9. BoardsFollow'
  <2> SUFFICES ASSUME NEW c \in Board PROVE Leads(events', On(c, "added"), On(c, "removed"), c, keyboards, opened')
    BY <1>5 DEF BoardsFollow
  <2>1. Leads(events, On(c, "added"), On(c, "removed"), c, keyboards, opened)
    BY <1>1 DEF Following, BoardsFollow
  <2>2. ASSUME NEW i \in 1..Len(last), last[i] \in {On(c, "added"), On(c, "removed")}
        PROVE  last[i] = On(c, "added") <=> c \in opened'
    <3>1. PICK b \in S : last[i] = On(b, "removed")
      <4>1. ASSUME NEW b \in S, NEW k \in held[b] PROVE last[i] # Of(k, "release")
        BY <2>2, EventFacts
      <4> QED
        BY <1>4, <4>1
    <3>2. b = c /\ last[i] # On(c, "added")
      BY <2>2, <3>1, EventFacts
    <3> QED
      BY <1>5, <3>2
  <2>3. (\A i \in 1..Len(last) : last[i] \notin {On(c, "added"), On(c, "removed")}) => (c \in opened' <=> c \in opened)
    <3>1. c \in S => \E i \in 1..Len(last) : last[i] = On(c, "removed")
      BY <1>4
    <3> QED
      BY <1>5, <3>1
  <2> QED
    BY <1>3, <1>4, <1>6, <2>1, <2>2, <2>3, LeadsOn
<1>10. KeysFollow'
  <2> SUFFICES ASSUME NEW l \in Key PROVE Leads(events', Of(l, "press"), Of(l, "release"), l, pressed, Holding')
    BY <1>5 DEF KeysFollow
  <2>1. Leads(events, Of(l, "press"), Of(l, "release"), l, pressed, Holding)
    BY <1>1 DEF Following, KeysFollow
  <2>2. /\ l \in Holding' <=> \E b \in Board : l \in held'[b]
        /\ l \in Holding <=> \E b \in Board : l \in held[b]
    BY <1>1, <1>7, HoldingIs DEF BoardTypes, Holding
  <2>3. ASSUME NEW i \in 1..Len(last), last[i] \in {Of(l, "press"), Of(l, "release")}
        PROVE  last[i] = Of(l, "press") <=> l \in Holding'
    <3>1. PICK b \in S : \E k \in held[b] : last[i] = Of(k, "release")
      <4>1. ASSUME NEW b \in S PROVE last[i] # On(b, "removed")
        BY <2>3, EventFacts
      <4> QED
        BY <1>4, <4>1
    <3>2. l \in held[b] /\ last[i] # Of(l, "press")
      BY <2>3, <3>1, EventFacts
    <3>3. \A c \in Board : l \in held[c] => c = b
      BY <1>1, <1>2, <3>2 DEF Following, HeldOnce
    <3>4. \A c \in Board : l \notin held'[c]
      BY <1>5, <3>3
    <3> QED
      BY <2>2, <3>2, <3>4
  <2>4. (\A i \in 1..Len(last) : last[i] \notin {Of(l, "press"), Of(l, "release")}) => (l \in Holding' <=> l \in Holding)
    <3>1. \A b \in S : l \in held[b] => \E i \in 1..Len(last) : last[i] = Of(l, "release")
      BY <1>4
    <3> QED
      BY <1>5, <2>2, <3>1
  <2> QED
    BY <1>3, <1>4, <1>6, <2>1, <2>3, <2>4, LeadsOn
<1>11. LampsFollow'
  <2>1. Range(events) \subseteq Range(events')
    BY <1>3, <1>4, <1>6, RangeConcatenation
  <2> QED
    BY <1>1, <1>5, <2>1 DEF Following, LampsFollow
<1> QED
  BY <1>7, <1>8, <1>9, <1>10, <1>11 DEF Following

LEMMA OpenFollows ==
  ASSUME SessionIInv, NEW S \in SUBSET Board, S \cap opened = {}, OpenBoards(S), UNCHANGED <<pressed, keyboards, led>>
  PROVE  BoardTypes' /\ Following'
<1>1. BoardTypes /\ Following
  BY SessionBoards
<1>2. PICK first \in SetToSeqs({On(b, "added") : b \in S}) : events' = events \o first
  BY DEF OpenBoards
<1>3. /\ first \in Seq(Event)
      /\ \A b \in S : \E i \in 1..Len(first) : first[i] = On(b, "added")
      /\ \A i \in 1..Len(first) : \E b \in S : first[i] = On(b, "added")
  BY AddedEvents
<1>4. /\ opened' = opened \cup S /\ UNCHANGED <<pressed, keyboards, led, held>>
      /\ lamps' \in [Board -> BOOLEAN] /\ \A b \in Board \ S : lamps'[b] = lamps[b]
  BY DEF OpenBoards
<1>5. events \in Seq(Event) /\ events' \in Seq(Event)
  BY <1>1, <1>2, <1>3, ConcatProperties DEF BoardTypes
<1>6. BoardTypes'
  BY <1>1, <1>4, <1>5 DEF BoardTypes
<1>7. HeldOnce'
  BY <1>1, <1>4 DEF Following, HeldOnce
<1>8. BoardsFollow'
  <2> SUFFICES ASSUME NEW c \in Board PROVE Leads(events', On(c, "added"), On(c, "removed"), c, keyboards, opened')
    BY <1>4 DEF BoardsFollow
  <2>1. Leads(events, On(c, "added"), On(c, "removed"), c, keyboards, opened)
    BY <1>1 DEF Following, BoardsFollow
  <2>2. ASSUME NEW i \in 1..Len(first), first[i] \in {On(c, "added"), On(c, "removed")}
        PROVE  first[i] = On(c, "added") <=> c \in opened'
    <3>1. PICK b \in S : first[i] = On(b, "added")
      BY <1>3
    <3>2. b = c
      BY <2>2, <3>1, EventFacts
    <3> QED
      BY <1>4, <3>1, <3>2
  <2>3. (\A i \in 1..Len(first) : first[i] \notin {On(c, "added"), On(c, "removed")}) => (c \in opened' <=> c \in opened)
    <3>1. c \in S => \E i \in 1..Len(first) : first[i] = On(c, "added")
      BY <1>3
    <3> QED
      BY <1>4, <3>1
  <2> QED
    BY <1>2, <1>3, <1>5, <2>1, <2>2, <2>3, LeadsOn
<1>9. KeysFollow'
  <2> SUFFICES ASSUME NEW l \in Key PROVE Leads(events', Of(l, "press"), Of(l, "release"), l, pressed, Holding)
    BY <1>4 DEF KeysFollow, Holding
  <2>1. Leads(events, Of(l, "press"), Of(l, "release"), l, pressed, Holding)
    BY <1>1 DEF Following, KeysFollow
  <2>2. \A i \in 1..Len(first) : first[i] \notin {Of(l, "press"), Of(l, "release")}
    <3> SUFFICES ASSUME NEW i \in 1..Len(first) PROVE first[i] \notin {Of(l, "press"), Of(l, "release")}
      OBVIOUS
    <3>1. PICK b \in S : first[i] = On(b, "added")
      BY <1>3
    <3> QED
      BY <3>1, EventFacts
  <2> QED
    BY <1>2, <1>3, <1>5, <2>1, <2>2, LeadsOn
<1>10. LampsFollow'
  <2> SUFFICES ASSUME NEW c \in opened', On(c, "added") \notin Range(events') PROVE lamps'[c] = led
    BY <1>4 DEF LampsFollow
  <2>1. Range(events') = Range(events) \cup Range(first)
    BY <1>2, <1>3, <1>5, RangeConcatenation
  <2>2. c \in S => On(c, "added") \in Range(first)
    BY <1>3, RangeHas
  <2>3. c \in opened /\ c \in Board \ S
    BY <1>1, <1>4, <2>1, <2>2 DEF BoardTypes
  <2> QED
    BY <1>1, <1>4, <2>1, <2>3 DEF Following, LampsFollow
<1> QED
  BY <1>6, <1>7, <1>8, <1>9, <1>10 DEF Following

\* The GPUs are left alone, and no thread starts.
LEMMA GpusRest ==
  ASSUME SessionIInv, UNCHANGED gpuVars, threads' \subseteq threads
  PROVE  /\ NoGpuIsForgotten'
         /\ toInput' \in Seq(Gpu) /\ toRenderer' \in Seq(Gpu \cup {"created", "paused", "resumed"})
         /\ Range(toInput') \subseteq Gpu /\ Range(toRenderer') \subseteq Gpu \cup {"created", "paused", "resumed"}
         /\ known' \subseteq Gpu /\ tested' \subseteq Gpu /\ refused' \subseteq Gpu /\ threads' \subseteq {"input", "renderer"}
BY DEF SessionIInv, SessionTypeOK, Queues, NoGpuIsForgotten, gpuVars

\* The parts of the invariant, put together again.
LEMMA SessionParts ==
  ASSUME SessionIInv, BoardTypes', Following', TypeOK',
         keyboards' \subseteq Board, led' \in BOOLEAN,
         session' # "active" => opened' = {}, session' \in {"active", "paused", "deaf"}, switches' \in 0..MaxSwitches,
         UNCHANGED gpuVars, threads' \subseteq threads
  PROVE  SessionIInv'
<1>1. /\ NoGpuIsForgotten'
      /\ toInput' \in Seq(Gpu) /\ toRenderer' \in Seq(Gpu \cup {"created", "paused", "resumed"})
      /\ Range(toInput') \subseteq Gpu /\ Range(toRenderer') \subseteq Gpu \cup {"created", "paused", "resumed"}
      /\ known' \subseteq Gpu /\ tested' \subseteq Gpu /\ refused' \subseteq Gpu /\ threads' \subseteq {"input", "renderer"}
  BY GpusRest
<1>2. SessionTypeOK'
  BY <1>1 DEF SessionTypeOK, BoardTypes
<1>3. Queues'
  BY <1>1 DEF Queues, BoardTypes
<1> QED
  BY <1>1, <1>2, <1>3 DEF SessionIInv, Following

-----------------------------------------------------------------------------
(* The input thread                                                          *)

LEMMA HandlesHead ==
  ASSUME SessionIInv, NEW kind, Handles(kind)
  PROVE  /\ events \in Seq(Event) /\ events # <<>> /\ events' = Tail(events) /\ events' \in Seq(Event)
         /\ Head(events) \in Event /\ Head(events).kind = kind
         /\ Range(events) = {Head(events)} \cup Range(events')
BY RangeRest DEF SessionIInv, Queues, Handles

LEMMA PressIsNext ==
  ASSUME TypeOK, NEW k \in Key, Press(k) \/ Release(k)
  PROVE  TypeOK'
BY NextTypeOK DEF Next

LEMMA KeyFollows ==
  ASSUME SessionIInv, NEW kind \in {"press", "release"}, KeyEvent(kind)
  PROVE  SessionIInv'
<1> DEFINE k == Head(events).key
<1>1. /\ events \in Seq(Event) /\ events # <<>> /\ events' = Tail(events) /\ events' \in Seq(Event)
      /\ k \in Key /\ Head(events) = Of(k, kind)
      /\ Range(events) = {Of(k, kind)} \cup Range(events')
  BY HandlesHead, HeadEvent DEF KeyEvent
<1>2. /\ Light(k) /\ (IF kind = "press" THEN Press(k) ELSE Release(k))
      /\ UNCHANGED <<opened, held, keyboards, session, switches, gpuVars, threads>>
  BY DEF KeyEvent
<1> HIDE DEF k
<1>3. /\ kind = "press" => pressed' = pressed \cup {k}
      /\ kind = "release" => pressed' = pressed \ {k}
  BY <1>2 DEF Press, Release
<1>4. BoardTypes /\ Following /\ led \in BOOLEAN
  BY SessionBoards DEF SessionIInv, SessionTypeOK
<1>5. led' \in BOOLEAN /\ lamps' = [b \in Board |-> IF led' # led /\ Reached(b) THEN led' ELSE lamps[b]]
  BY <1>2, <1>4 DEF Light
<1>6. BoardTypes'
  BY <1>1, <1>2, <1>4, <1>5 DEF BoardTypes
<1>7. HeldOnce'
  BY <1>2, <1>4 DEF Following, HeldOnce
<1>8. BoardsFollow'
  <2> SUFFICES ASSUME NEW c \in Board PROVE Leads(events', On(c, "added"), On(c, "removed"), c, keyboards, opened)
    BY <1>2 DEF BoardsFollow
  <2>1. Leads(events, On(c, "added"), On(c, "removed"), c, keyboards, opened)
    BY <1>4 DEF Following, BoardsFollow
  <2>2. Head(events) \notin {On(c, "added"), On(c, "removed")} /\ On(c, "added") # On(c, "removed")
    BY <1>1, EventFacts
  <2> QED
    BY <1>1, <2>1, <2>2, LeadsRest
<1>9. KeysFollow'
  <2> SUFFICES ASSUME NEW l \in Key PROVE Leads(events', Of(l, "press"), Of(l, "release"), l, pressed', Holding)
    BY <1>2 DEF KeysFollow, Holding
  <2>1. Leads(events, Of(l, "press"), Of(l, "release"), l, pressed, Holding)
    BY <1>4 DEF Following, KeysFollow
  <2>2. /\ Of(l, "press") # Of(l, "release")
        /\ Head(events) = Of(l, "press") => l = k /\ kind = "press"
        /\ Head(events) = Of(l, "release") => l = k /\ kind = "release"
        /\ Head(events) \notin {Of(l, "press"), Of(l, "release")} => l # k
    BY <1>1, EventFacts
  <2>3. /\ Head(events) = Of(l, "press") => l \in pressed'
        /\ Head(events) = Of(l, "release") => l \notin pressed'
        /\ Head(events) \notin {Of(l, "press"), Of(l, "release")} => (l \in pressed' <=> l \in pressed)
    BY <1>3, <2>2
  <2> QED
    BY <1>1, <2>1, <2>2, <2>3, LeadsRest
<1>10. LampsFollow'
  <2> SUFFICES ASSUME NEW c \in opened, On(c, "added") \notin Range(events') PROVE lamps'[c] = led'
    BY <1>2 DEF LampsFollow
  <2>1. c \in Board
    BY <1>4 DEF BoardTypes
  <2>2. On(c, "added") # Of(k, kind)
    BY EventFacts
  <2>3. On(c, "added") \notin Range(events)
    BY <1>1, <2>2
  <2>4. lamps[c] = led
    BY <1>4, <2>3 DEF Following, LampsFollow
  <2>5. c \in keyboards
    <3>1. Leads(events, On(c, "added"), On(c, "removed"), c, keyboards, opened)
      BY <1>4, <2>1 DEF Following, BoardsFollow
    <3>2. \A i \in 1..Len(events) : events[i] # On(c, "added")
      BY <1>1, <2>3, RangeHas
    <3>3. On(c, "added") # On(c, "removed")
      BY EventFacts
    <3> QED
      BY <1>1, <3>1, <3>2, <3>3, LeadsPresent
  <2>6. Reached(c)
    BY <2>3, <2>5 DEF Reached
  <2> QED
    BY <1>5, <2>1, <2>4, <2>6
<1>11. TypeOK'
  BY <1>1, <1>2, PressIsNext DEF SessionIInv, SessionTypeOK
<1>12. /\ keyboards' \subseteq Board /\ (session' # "active" => opened' = {})
       /\ session' \in {"active", "paused", "deaf"} /\ switches' \in 0..MaxSwitches
       /\ UNCHANGED gpuVars /\ threads' \subseteq threads
  BY <1>2 DEF SessionIInv, SessionTypeOK
<1> QED
  BY <1>5, <1>6, <1>7, <1>8, <1>9, <1>10, <1>11, <1>12, SessionParts DEF Following

\* A keyboard's own event.
LEMMA BoardFollows ==
  ASSUME SessionIInv, DeviceAdded \/ DeviceRemoved
  PROVE  SessionIInv'
<1> DEFINE b == Head(events).board
<1>1. PICK kind \in {"added", "removed"} :
        /\ Handles(kind)
        /\ kind = "added" => DeviceAdded
        /\ kind = "removed" => DeviceRemoved
  BY DEF DeviceAdded, DeviceRemoved
<1>2. /\ events \in Seq(Event) /\ events # <<>> /\ events' = Tail(events) /\ events' \in Seq(Event)
      /\ b \in Board /\ Head(events) = On(b, kind)
      /\ Range(events) = {On(b, kind)} \cup Range(events')
  BY <1>1, HandlesHead, HeadEvent
<1>3. /\ UNCHANGED <<vars, opened, held, led, session, switches, gpuVars, threads>>
      /\ kind = "added" => keyboards' = keyboards \cup {b} /\ lamps' = IF b \in opened THEN [lamps EXCEPT ![b] = led] ELSE lamps
      /\ kind = "removed" => keyboards' = keyboards \ {b} /\ lamps' = lamps
  BY <1>1 DEF DeviceAdded, DeviceRemoved
<1> HIDE DEF b
<1>4. BoardTypes /\ Following /\ led \in BOOLEAN /\ keyboards \subseteq Board
  BY SessionBoards DEF SessionIInv, SessionTypeOK
<1>5. /\ keyboards' \subseteq Board /\ lamps' \in [Board -> BOOLEAN]
      /\ \A c \in Board : lamps'[c] = IF kind = "added" /\ c = b /\ b \in opened THEN led ELSE lamps[c]
  BY <1>2, <1>3, <1>4 DEF BoardTypes
<1>6. BoardTypes'
  BY <1>2, <1>3, <1>4, <1>5 DEF BoardTypes
<1>7. HeldOnce'
  BY <1>3, <1>4 DEF Following, HeldOnce
<1>8. BoardsFollow'
  <2> SUFFICES ASSUME NEW c \in Board PROVE Leads(events', On(c, "added"), On(c, "removed"), c, keyboards', opened)
    BY <1>3 DEF BoardsFollow
  <2>1. Leads(events, On(c, "added"), On(c, "removed"), c, keyboards, opened)
    BY <1>4 DEF Following, BoardsFollow
  <2>2. /\ On(c, "added") # On(c, "removed")
        /\ Head(events) = On(c, "added") => c = b /\ kind = "added"
        /\ Head(events) = On(c, "removed") => c = b /\ kind = "removed"
        /\ Head(events) \notin {On(c, "added"), On(c, "removed")} => c # b
    BY <1>2, EventFacts
  <2>3. /\ Head(events) = On(c, "added") => c \in keyboards'
        /\ Head(events) = On(c, "removed") => c \notin keyboards'
        /\ Head(events) \notin {On(c, "added"), On(c, "removed")} => (c \in keyboards' <=> c \in keyboards)
    BY <1>3, <2>2
  <2> QED
    BY <1>2, <2>1, <2>2, <2>3, LeadsRest
<1>9. KeysFollow'
  <2> SUFFICES ASSUME NEW l \in Key PROVE Leads(events', Of(l, "press"), Of(l, "release"), l, pressed, Holding)
    BY <1>3 DEF KeysFollow, Holding, vars
  <2>1. Leads(events, Of(l, "press"), Of(l, "release"), l, pressed, Holding)
    BY <1>4 DEF Following, KeysFollow
  <2>2. Head(events) \notin {Of(l, "press"), Of(l, "release")} /\ Of(l, "press") # Of(l, "release")
    BY <1>2, EventFacts
  <2> QED
    BY <1>2, <2>1, <2>2, LeadsRest
<1>10. LampsFollow'
  <2> SUFFICES ASSUME NEW c \in opened, On(c, "added") \notin Range(events') PROVE lamps'[c] = led
    BY <1>3 DEF LampsFollow
  <2>1. c \in Board
    BY <1>4 DEF BoardTypes
  <2>2. CASE On(c, "added") = On(b, kind)
    <3>1. c = b /\ kind = "added"
      BY <2>2, EventFacts
    <3> QED
      BY <1>5, <2>1, <3>1
  <2>3. CASE On(c, "added") # On(b, kind)
    BY <1>2, <1>4, <1>5, <2>1, <2>3 DEF Following, LampsFollow
  <2> QED
    BY <2>2, <2>3
<1>11. TypeOK'
  BY <1>3 DEF SessionIInv, SessionTypeOK, TypeOK, vars
<1>12. /\ led' \in BOOLEAN /\ (session' # "active" => opened' = {})
       /\ session' \in {"active", "paused", "deaf"} /\ switches' \in 0..MaxSwitches
       /\ UNCHANGED gpuVars /\ threads' \subseteq threads
  BY <1>3, <1>4 DEF SessionIInv, SessionTypeOK
<1> QED
  BY <1>5, <1>6, <1>7, <1>8, <1>9, <1>10, <1>11, <1>12, SessionParts DEF Following

\* The keyboards are left alone.
LEMMA BoardsRest ==
  ASSUME SessionIInv, UNCHANGED <<pressed, boardVars>>
  PROVE  /\ BoardTypes' /\ Following' /\ keyboards' \subseteq Board /\ led' \in BOOLEAN
         /\ (session' # "active" => opened' = {})
         /\ session' \in {"active", "paused", "deaf"} /\ switches' \in 0..MaxSwitches
<1>1. BoardTypes /\ Following /\ SessionTypeOK
  BY SessionBoards DEF SessionIInv
<1>2. BoardTypes'
  BY <1>1 DEF BoardTypes, boardVars
<1>3. HeldOnce' /\ LampsFollow'
  BY <1>1 DEF Following, HeldOnce, LampsFollow, boardVars
<1>4. BoardsFollow'
  BY <1>1 DEF Following, BoardsFollow, boardVars
<1>5. KeysFollow'
  BY <1>1 DEF Following, KeysFollow, Holding, boardVars
<1> QED
  BY <1>1, <1>2, <1>3, <1>4, <1>5 DEF Following, SessionTypeOK, boardVars

LEMMA HotplugFollows ==
  ASSUME SessionIInv, NEW b \in Board, Hotplug(b)
  PROVE  SessionIInv'
<1>1. /\ UNCHANGED <<vars, keyboards, led, session, switches, gpuVars, threads>> /\ session = "active"
      /\ b \in opened => Close({b})
      /\ b \notin opened => OpenBoards({b})
  BY DEF Hotplug
<1>2. UNCHANGED <<pressed, keyboards, led>>
  BY <1>1 DEF vars
<1>3. BoardTypes' /\ Following'
  <2>1. CASE b \in opened
    BY <1>1, <1>2, <2>1, CloseFollows
  <2>2. CASE b \notin opened
    BY <1>1, <1>2, <2>2, OpenFollows
  <2> QED
    BY <2>1, <2>2
<1>4. /\ TypeOK' /\ keyboards' \subseteq Board /\ led' \in BOOLEAN /\ session' = "active"
      /\ switches' \in 0..MaxSwitches /\ UNCHANGED gpuVars /\ threads' \subseteq threads
  BY <1>1 DEF SessionIInv, SessionTypeOK, TypeOK, vars
<1> QED
  BY <1>3, <1>4, SessionParts

\* A message of the input thread to the renderer changes nothing else there.
LEMMA MessageFollows ==
  ASSUME SessionIInv, NEW m \in {"paused", "resumed"}, toRenderer' = Append(toRenderer, m),
         UNCHANGED <<toInput, known, tested, refused, threads>>
  PROVE  /\ toRenderer' \in Seq(Gpu \cup {"created", "paused", "resumed"})
         /\ Range(toRenderer') \subseteq Gpu \cup {"created", "paused", "resumed"}
         /\ NoGpuIsForgotten'
<1>1. toRenderer \in Seq(Gpu \cup {"created", "paused", "resumed"}) /\ m \in Gpu \cup {"created", "paused", "resumed"}
  BY DEF SessionIInv, Queues
<1>3. toRenderer' \in Seq(Gpu \cup {"created", "paused", "resumed"}) /\ Range(toRenderer) \subseteq Range(toRenderer')
  BY <1>1, RangeAppend
<1>4. Range(toRenderer') \subseteq Gpu \cup {"created", "paused", "resumed"}
  BY <1>3, RangeOfSeq
<1> QED
  BY <1>3, <1>4 DEF SessionIInv, NoGpuIsForgotten

LEMMA SwitchFollows ==
  ASSUME SessionIInv, PauseSession \/ ActivateSession
  PROVE  SessionIInv'
<1>1. PICK m \in {"paused", "resumed"} :
        /\ toRenderer' = Append(toRenderer, m)
        /\ UNCHANGED <<vars, keyboards, led, toInput, known, tested, refused, threads>>
  BY DEF PauseSession, ActivateSession
<1>2. /\ toRenderer' \in Seq(Gpu \cup {"created", "paused", "resumed"})
      /\ Range(toRenderer') \subseteq Gpu \cup {"created", "paused", "resumed"}
      /\ NoGpuIsForgotten'
  BY <1>1, MessageFollows
<1>3. BoardTypes' /\ Following' /\ session' \in {"active", "paused", "deaf"} /\ (session' # "active" => opened' = {})
      /\ switches' \in 0..MaxSwitches
  <2>1. CASE PauseSession
    <3>1. Close(opened) /\ session' = "paused" /\ switches' = switches + 1 /\ switches < MaxSwitches
      BY <2>1 DEF PauseSession
    <3>2. BoardTypes' /\ Following'
      BY <1>1, <3>1, CloseFollows DEF vars
    <3>3. opened' = {}
      BY <3>1 DEF Close
    <3>4. switches' \in 0..MaxSwitches
      BY <3>1, SeatSessionAssumption DEF SessionIInv, SessionTypeOK
    <3> QED
      BY <3>1, <3>2, <3>3, <3>4
  <2>2. CASE ActivateSession
    <3>1. opened = {} /\ session = "paused" /\ switches' = switches /\ switches \in 0..MaxSwitches
      BY <2>2 DEF ActivateSession, SessionIInv, SessionTypeOK
    <3>2. CASE session' = "active" /\ \E S \in SUBSET Board : OpenBoards(S)
      <4>1. PICK S \in SUBSET Board : OpenBoards(S)
        BY <3>2
      <4>2. BoardTypes' /\ Following'
        BY <1>1, <3>1, <4>1, OpenFollows DEF vars
      <4> QED
        BY <3>1, <3>2, <4>2
    <3>3. CASE session' = "deaf" /\ UNCHANGED <<opened, held, events, lamps>>
      <4>1. BoardTypes /\ Following
        BY SessionBoards
      <4>2. UNCHANGED <<opened, held, events, lamps, pressed, keyboards, led>>
        BY <1>1, <3>3 DEF vars
      <4>3. BoardTypes' /\ HeldOnce' /\ LampsFollow'
        BY <4>1, <4>2 DEF BoardTypes, Following, HeldOnce, LampsFollow
      <4>4. BoardsFollow' /\ KeysFollow'
        BY <4>1, <4>2 DEF Following, BoardsFollow, KeysFollow, Holding
      <4> QED
        BY <3>1, <3>3, <4>2, <4>3, <4>4 DEF Following
    <3> QED
      BY <2>2, <3>2, <3>3 DEF ActivateSession
  <2> QED
    BY <2>1, <2>2
<1>4. SessionTypeOK'
  <2>1. TypeOK'
    BY <1>1 DEF SessionIInv, SessionTypeOK, TypeOK, vars
  <2> QED
    BY <1>1, <1>2, <1>3, <2>1 DEF SessionIInv, SessionTypeOK, BoardTypes
<1>5. Queues'
  BY <1>1, <1>2, <1>3 DEF SessionIInv, Queues, BoardTypes
<1> QED
  BY <1>2, <1>3, <1>4, <1>5 DEF SessionIInv, Following

-----------------------------------------------------------------------------
(* The GPUs                                                                  *)

\* The parts of the invariant when the keyboards are left alone.
LEMMA GpuParts ==
  ASSUME SessionIInv, UNCHANGED <<vars, boardVars>>,
         toInput' \in Seq(Gpu), toRenderer' \in Seq(Gpu \cup {"created", "paused", "resumed"}),
         known' \subseteq Gpu, tested' \subseteq Gpu, refused' \subseteq Gpu, threads' \subseteq {"input", "renderer"},
         NoGpuIsForgotten'
  PROVE  SessionIInv'
<1>1. UNCHANGED <<pressed, boardVars>>
  BY DEF vars
<1>2. /\ BoardTypes' /\ Following' /\ keyboards' \subseteq Board /\ led' \in BOOLEAN
      /\ (session' # "active" => opened' = {})
      /\ session' \in {"active", "paused", "deaf"} /\ switches' \in 0..MaxSwitches
  BY <1>1, BoardsRest
<1>3. TypeOK'
  BY DEF SessionIInv, SessionTypeOK, TypeOK, vars
<1>4. Range(toInput') \subseteq Gpu /\ Range(toRenderer') \subseteq Gpu \cup {"created", "paused", "resumed"}
  BY RangeOfSeq
<1>5. SessionTypeOK'
  BY <1>2, <1>3, <1>4 DEF SessionTypeOK, BoardTypes
<1>6. Queues'
  BY <1>2 DEF Queues, BoardTypes
<1> QED
  BY <1>2, <1>5, <1>6 DEF SessionIInv, Following

\* The types of the GPUs' variables.
LEMMA GpuTypes ==
  SessionIInv =>
    /\ toInput \in Seq(Gpu) /\ toRenderer \in Seq(Gpu \cup {"created", "paused", "resumed"})
    /\ known \subseteq Gpu /\ tested \subseteq Gpu /\ refused \subseteq Gpu /\ threads \subseteq {"input", "renderer"}
    /\ NoGpuIsForgotten
BY DEF SessionIInv, SessionTypeOK, Queues

LEMMA FileFollows ==
  ASSUME SessionIInv, OpenFileInSession
  PROVE  SessionIInv'
<1>1. /\ toInput # <<>> /\ toInput' = Tail(toInput)
      /\ \/ toRenderer' = Append(toRenderer, Head(toInput)) /\ UNCHANGED refused
         \/ refused' = refused \cup {Head(toInput)} /\ UNCHANGED toRenderer
      /\ UNCHANGED <<vars, boardVars, known, tested, threads>>
  BY DEF OpenFileInSession
<1>2. /\ Head(toInput) \in Gpu /\ toInput' \in Seq(Gpu) /\ Range(toInput) = {Head(toInput)} \cup Range(toInput')
  BY <1>1, GpuTypes, RangeRest
<1>3. CASE toRenderer' = Append(toRenderer, Head(toInput)) /\ UNCHANGED refused
  <2>1. Head(toInput) \in Gpu \cup {"created", "paused", "resumed"}
    BY <1>2
  <2>2. toRenderer \in Seq(Gpu \cup {"created", "paused", "resumed"})
    BY GpuTypes
  <2>3. /\ toRenderer' \in Seq(Gpu \cup {"created", "paused", "resumed"})
        /\ Range(toRenderer') = Range(toRenderer) \cup {Head(toInput)}
    BY <1>3, <2>1, <2>2, RangeAppend
  <2>5. NoGpuIsForgotten'
    BY <1>1, <1>2, <1>3, <2>3, GpuTypes DEF NoGpuIsForgotten
  <2> QED
    BY <1>1, <1>2, <1>3, <2>3, <2>5, GpuTypes, GpuParts
<1>4. CASE refused' = refused \cup {Head(toInput)} /\ UNCHANGED toRenderer
  <2>1. NoGpuIsForgotten'
    BY <1>1, <1>2, <1>4, GpuTypes DEF NoGpuIsForgotten
  <2> QED
    BY <1>1, <1>2, <1>4, <2>1, GpuTypes, GpuParts
<1> QED
  BY <1>1, <1>3, <1>4

\* A GPU is known to the renderer when its request is on its way.
LEMMA DevicesAsked ==
  ASSUME SessionIInv, NEW S \in SUBSET Gpu, AddDevices(S)
  PROVE  /\ toInput' \in Seq(Gpu) /\ known' \subseteq Gpu /\ known' = known \cup S
         /\ tested' = tested \ S /\ refused' = refused \ S
         /\ "input" \in threads => Range(toInput') = Range(toInput) \cup S
<1>1. PICK asked \in SetToSeqs(S) : toInput' = IF "input" \in threads THEN toInput \o asked ELSE toInput
  BY DEF AddDevices
<1>2. IsFiniteSet(S)
  BY SeatSessionAssumption, FS_Subset
<1>3. asked \in Seq(S) /\ \A x \in S : \E i \in 1..Len(asked) : asked[i] = x
  BY <1>2, SeqsOfASet
<1>4. asked \in Seq(Gpu)
  BY <1>3, SeqMonotonic
<1>5. S \subseteq Range(asked) /\ Range(asked) \subseteq S
  BY <1>3, RangeHas, RangeOfSeq
<1>6. toInput \o asked \in Seq(Gpu) /\ Range(toInput \o asked) = Range(toInput) \cup Range(asked)
  BY <1>4, GpuTypes, ConcatProperties, RangeConcatenation
<1>7. toInput' \in Seq(Gpu)
  BY <1>1, <1>6, GpuTypes
<1>8. "input" \in threads => Range(toInput') = Range(toInput) \cup S
  BY <1>1, <1>5, <1>6
<1>9. known' \subseteq Gpu /\ known' = known \cup S /\ tested' = tested \ S /\ refused' = refused \ S
  BY GpuTypes DEF AddDevices
<1> QED
  BY <1>7, <1>8, <1>9

LEMMA ReceivesHead ==
  ASSUME SessionIInv, Receives
  PROVE  /\ toRenderer' \in Seq(Gpu \cup {"created", "paused", "resumed"})
         /\ Range(toRenderer) = {Head(toRenderer)} \cup Range(toRenderer')
BY GpuTypes, RangeRest DEF Receives

LEMMA RendererFollows ==
  ASSUME SessionIInv, SeatSessionCreated \/ SessionSwitched \/ FileOpened
  PROVE  SessionIInv'
<1>1. /\ toRenderer' \in Seq(Gpu \cup {"created", "paused", "resumed"})
      /\ Range(toRenderer) = {Head(toRenderer)} \cup Range(toRenderer')
  BY ReceivesHead DEF SeatSessionCreated, SessionSwitched, FileOpened
<1>2. {"created", "paused", "resumed"} \cap Gpu = {}
  BY SeatSessionAssumption
<1>3. CASE SeatSessionCreated
  <2>1. PICK S \in SUBSET Gpu : AddDevices(S)
    BY <1>3 DEF SeatSessionCreated
  <2>2. UNCHANGED <<vars, boardVars, threads>> /\ Head(toRenderer) \notin Gpu
    BY <1>2, <1>3 DEF SeatSessionCreated
  <2>3. /\ toInput' \in Seq(Gpu) /\ known' \subseteq Gpu /\ known' = known \cup S
        /\ tested' = tested \ S /\ refused' = refused \ S
        /\ "input" \in threads => Range(toInput') = Range(toInput) \cup S
    BY <2>1, DevicesAsked
  <2>4. NoGpuIsForgotten'
    BY <1>1, <2>2, <2>3, GpuTypes DEF NoGpuIsForgotten
  <2> QED
    BY <1>1, <2>2, <2>3, <2>4, GpuTypes, GpuParts
<1>4. CASE SessionSwitched
  <2>1. UNCHANGED <<vars, boardVars, toInput, known, tested, refused, threads>> /\ Head(toRenderer) \notin Gpu
    BY <1>2, <1>4 DEF SessionSwitched
  <2>2. NoGpuIsForgotten'
    BY <1>1, <2>1, GpuTypes DEF NoGpuIsForgotten
  <2> QED
    BY <1>1, <2>1, <2>2, GpuTypes, GpuParts
<1>5. CASE FileOpened
  <2>1. /\ UNCHANGED <<vars, boardVars, toInput, known>> /\ Head(toRenderer) \in Gpu
        /\ \/ tested' = tested \cup {Head(toRenderer)} /\ UNCHANGED <<refused, threads>>
           \/ refused' = refused \cup {Head(toRenderer)} /\ UNCHANGED <<tested, threads>>
           \/ threads' = threads \ {"renderer"} /\ UNCHANGED <<tested, refused>>
    BY <1>5 DEF FileOpened
  <2>2. NoGpuIsForgotten'
    BY <1>1, <2>1, GpuTypes DEF NoGpuIsForgotten
  <2> QED
    BY <1>1, <2>1, <2>2, GpuTypes, GpuParts
<1> QED
  BY <1>3, <1>4, <1>5

LEMMA GpuFollows ==
  ASSUME SessionIInv, NEW g \in Gpu, GpuAdded(g)
  PROVE  SessionIInv'
<1>1. AddDevices({g}) /\ UNCHANGED <<vars, boardVars, toRenderer, threads>>
  BY DEF GpuAdded
<1>2. /\ toInput' \in Seq(Gpu) /\ known' \subseteq Gpu /\ known' = known \cup {g}
      /\ tested' = tested \ {g} /\ refused' = refused \ {g}
      /\ "input" \in threads => Range(toInput') = Range(toInput) \cup {g}
  BY <1>1, DevicesAsked
<1>3. NoGpuIsForgotten'
  BY <1>1, <1>2, GpuTypes DEF NoGpuIsForgotten
<1> QED
  BY <1>1, <1>2, <1>3, GpuTypes, GpuParts

-----------------------------------------------------------------------------
(* The whole thread                                                          *)

LEMMA SessionInitIInv == SessionInit => SessionIInv
<1> SUFFICES ASSUME SessionInit PROVE SessionIInv
  OBVIOUS
<1>1. /\ Init /\ opened \in SUBSET Board /\ held = [b \in Board |-> {}] /\ lamps \in [Board -> BOOLEAN]
      /\ keyboards = {} /\ led = FALSE /\ session = "active" /\ switches = 0
      /\ toInput = <<>> /\ toRenderer = <<"created">> /\ known = {} /\ tested = {} /\ refused = {}
      /\ threads \subseteq {"input", "renderer"}
      /\ events \in SetToSeqs({On(b, "added") : b \in opened})
  BY DEF SessionInit
<1>2. /\ events \in Seq(Event)
      /\ \A b \in opened : \E i \in 1..Len(events) : events[i] = On(b, "added")
      /\ \A i \in 1..Len(events) : \E b \in opened : events[i] = On(b, "added")
  BY <1>1, AddedEvents
<1>3. held \in [Board -> SUBSET Key] /\ \A k : k \notin Holding
  <2>1. held \in [Board -> SUBSET Key] /\ \A b \in Board : held[b] = {}
    BY <1>1
  <2>2. ASSUME NEW k PROVE k \notin UNION Range(held)
    BY <2>1, HoldingIs
  <2> QED
    BY <2>1, <2>2 DEF Holding
<1>4. HeldOnce
  BY <1>1 DEF HeldOnce
<1>5. BoardsFollow
  <2> SUFFICES ASSUME NEW c \in Board PROVE Leads(events, On(c, "added"), On(c, "removed"), c, keyboards, opened)
    BY DEF BoardsFollow
  <2>1. \A i \in 1..Len(events) : events[i] = On(c, "added") => c \in opened
    BY <1>2, EventFacts
  <2>2. \A i \in 1..Len(events) : events[i] # On(c, "removed")
    BY <1>2, EventFacts
  <2>3. (\A i \in 1..Len(events) : events[i] # On(c, "added")) => c \notin opened
    BY <1>2
  <2> QED
    BY <1>1, <2>1, <2>2, <2>3 DEF Leads
<1>6. KeysFollow
  <2> SUFFICES ASSUME NEW l \in Key PROVE Leads(events, Of(l, "press"), Of(l, "release"), l, pressed, Holding)
    BY DEF KeysFollow
  <2>1. \A i \in 1..Len(events) : events[i] \notin {Of(l, "press"), Of(l, "release")}
    BY <1>2, EventFacts
  <2> QED
    BY <1>1, <1>3, <2>1 DEF Leads, Init
<1>7. LampsFollow
  BY <1>2, RangeHas DEF LampsFollow
<1>8. Queues
  BY <1>1, <1>2 DEF Queues
<1>9. Range(toInput) \subseteq Gpu /\ Range(toRenderer) \subseteq Gpu \cup {"created", "paused", "resumed"}
  BY <1>8, RangeOfSeq DEF Queues
<1>10. SessionTypeOK
  <2>1. TypeOK /\ keyboards \subseteq Board /\ known \subseteq Gpu /\ tested \subseteq Gpu /\ refused \subseteq Gpu
    BY <1>1 DEF TypeOK, Init
  <2>2. \A b \in Board \ opened : held[b] = {}
    BY <1>1
  <2>3. switches \in 0..MaxSwitches
    BY <1>1, SeatSessionAssumption
  <2>4. led \in BOOLEAN /\ session = "active" /\ session \in {"active", "paused", "deaf"}
    BY <1>1
  <2> QED
    BY <1>1, <1>3, <1>9, <2>1, <2>2, <2>3, <2>4 DEF SessionTypeOK
<1>11. NoGpuIsForgotten
  BY <1>1 DEF NoGpuIsForgotten
<1> QED
  BY <1>4, <1>5, <1>6, <1>7, <1>8, <1>10, <1>11 DEF SessionIInv

LEMMA SessionNextIInv == SessionIInv /\ [SessionNext]_allVars => SessionIInv'
<1> SUFFICES ASSUME SessionIInv, [SessionNext]_allVars PROVE SessionIInv'
  OBVIOUS
<1>1. ASSUME OtherEvent PROVE SessionIInv'
  <2>1. UNCHANGED <<vars, boardVars, gpuVars>> /\ threads' = threads \ {"input"}
    BY <1>1 DEF OtherEvent
  <2>2. UNCHANGED <<toInput, toRenderer, known, tested, refused>> /\ NoGpuIsForgotten'
    BY <2>1 DEF NoGpuIsForgotten, gpuVars
  <2> QED
    BY <2>1, <2>2, GpuTypes, GpuParts
<1>2. ASSUME NEW slot \in Slots, Configure(slot) PROVE SessionIInv'
  <2>1. Keymap(slot) /\ UNCHANGED <<boardVars, gpuVars, threads>>
    BY <1>2 DEF Configure
  <2>2. TypeOK'
    BY <2>1, NextTypeOK DEF SessionIInv, SessionTypeOK, Next
  <2>3. UNCHANGED <<pressed, boardVars>>
    BY <2>1 DEF Keymap
  <2> QED
    BY <2>1, <2>2, <2>3, BoardsRest, SessionParts
<1>3. CASE UNCHANGED allVars
  <2>1. UNCHANGED <<vars, boardVars, gpuVars, threads>>
    BY <1>3 DEF allVars
  <2>2. UNCHANGED <<toInput, toRenderer, known, tested, refused>> /\ NoGpuIsForgotten'
    BY <2>1, GpuTypes DEF NoGpuIsForgotten, gpuVars
  <2> QED
    BY <2>1, <2>2, GpuTypes, GpuParts
<1> QED
  BY <1>1, <1>2, <1>3, HotplugFollows, MoveFollows, KeyFollows, BoardFollows, SwitchFollows, FileFollows,
     RendererFollows, GpuFollows DEF SessionNext

LEMMA SessionInductive == SessionSpec => []SessionIInv
BY SessionInitIInv, SessionNextIInv, PTL DEF SessionSpec

\* Every variable has its type, and a GPU the renderer knows is on its way, was
\* tested, or was given up with an error in the log.
THEOREM SessionSound == SessionSpec => []SessionIsSound
<1>1. SessionIInv => SessionIsSound
  BY DEF SessionIInv, SessionIsSound
<1> QED
  BY <1>1, SessionInductive, PTL

\* However keyboards and sessions came and went with keys down, the input
\* thread has the open keyboards, their keys and their LEDs when it is idle.
THEOREM InputFollows == SessionSpec => []InputFollowsDevices
<1>1. SessionIInv => InputFollowsDevices
  <2> SUFFICES ASSUME SessionIInv, events = <<>>
               PROVE  keyboards = opened /\ pressed = Holding /\ \A b \in opened : lamps[b] = led
    BY DEF InputFollowsDevices
  <2>1. 1..Len(events) = {} /\ Range(events) = {}
    BY DEF Range
  <2>2. keyboards \subseteq Board /\ opened \subseteq Board /\ pressed \subseteq Key /\ held \in [Board -> SUBSET Key]
    BY DEF SessionIInv, SessionTypeOK, TypeOK
  <2>3. \A b \in Board : b \in keyboards <=> b \in opened
    BY <2>1 DEF SessionIInv, BoardsFollow, Leads
  <2>4. \A k \in Key : k \in pressed <=> k \in Holding
    BY <2>1 DEF SessionIInv, KeysFollow, Leads
  <2>5. Holding \subseteq Key
    BY <2>2, HoldingIs DEF Holding
  <2>6. \A b \in opened : lamps[b] = led
    BY <2>1 DEF SessionIInv, LampsFollow
  <2> QED
    BY <2>2, <2>3, <2>4, <2>5, <2>6
<1> QED
  BY <1>1, SessionInductive, PTL

\* The session makes of libinput's events the steps of the keyboard.
THEOREM SessionRunsKeyboard == SessionSpec => Spec
<1>1. SessionInit => Init
  BY DEF SessionInit
<1>2. SessionIInv /\ [SessionNext]_allVars => [Next]_vars
  <2> SUFFICES ASSUME SessionIInv, SessionNext, ~UNCHANGED vars PROVE Next
    BY DEF allVars
  <2>1. ASSUME NEW kind \in {"press", "release"}, KeyEvent(kind) PROVE Next
    BY <2>1, HandlesHead, HeadEvent DEF KeyEvent, Next
  <2>2. ASSUME NEW slot \in Slots, Configure(slot) PROVE Next
    BY <2>2 DEF Configure, Next
  <2> QED
    BY <2>1, <2>2
       DEF SessionNext, Hotplug, KeyMoves, OtherEvent, DeviceAdded, DeviceRemoved, PauseSession, ActivateSession,
           OpenFileInSession, SeatSessionCreated, SessionSwitched, FileOpened, GpuAdded
<1> QED
  BY <1>1, <1>2, SessionInductive, PTL DEF SessionSpec, Spec

\* So shortcuts never interfere with a plain key of any of the keyboards.
THEOREM SessionPlainKeys == SessionSpec => []PlainKeysAreFaithful
BY SessionRunsKeyboard, PlainKeys, PTL
=============================================================================
