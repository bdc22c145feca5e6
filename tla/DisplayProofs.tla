---------------------------- MODULE DisplayProofs ----------------------------
(***************************************************************************)
(* Theorems about the display thread: the outputs and spaces of Outputs,   *)
(* for all names and layouts, and the pointer and the keyboard of Seat,    *)
(* for all windows, layers, outputs, regions and places.                   *)
(***************************************************************************)
EXTENDS Outputs, Seat, FiniteSetTheorems, SequenceTheorems, WellFoundedInduction, TLAPS

-----------------------------------------------------------------------------
(* Outputs and spaces *)

\* Objects that do not exist yet have no space and are in none; those that do are
\* counted.
ObjectsAreCounted ==
  /\ \A o \in outputs : o[2] <= made[o[1]]
  /\ \A o \in Output : active[o] # NoSpace => o[2] <= made[o[1]]
  /\ \A s \in Space : \A o \in mapped[s] : o[2] <= made[o[1]]

\* Of the connected outputs a space has none but those its last layout listed.
MappedAreListed == \A s \in Space : \A o \in mapped[s] \cap outputs : o[1] \in listed[s]

\* Readiness is announced when it is there, and counted.
ReadyIsCounted ==
  /\ startups = IF onReady THEN 1 ELSE 0
  /\ onReady => backend /\ xwayland = "ready"

IInv ==
  /\ TypeOK
  /\ ObjectsAreCounted
  /\ MappedAreListed
  /\ RenderFindsOutput
  /\ ReadyIsCounted

-----------------------------------------------------------------------------
\* A layout is a function from some of the spaces to sets of names.
LEMMA LayoutType ==
  ASSUME NEW L \in Layouts
  PROVE  /\ DOMAIN L \subseteq Space
         /\ \A s \in DOMAIN L : L[s] \subseteq Name
BY OutputsAssumption

\* What a layout does to the ActiveSpace of an output: it keeps it, or sets it
\* for a connected output to a space that lists the output.
LEMMA ActiveStep ==
  ASSUME TypeOK, NEW L \in Layouts, SetLayout(L)
  PROVE  /\ active' \in [Output -> Space \cup {NoSpace}]
         /\ \A o \in Output :
              \/ active'[o] = active[o]
              \/ o \in outputs /\ active'[o] \in DOMAIN L /\ o[1] \in L[active'[o]]
<1>1. PICK pick \in [Fresh(L) -> DOMAIN L] :
        /\ \A o \in Fresh(L) : pick[o] \in SpacesFor(L, o)
        /\ active' = [o \in Output |-> IF o \in Fresh(L) THEN pick[o] ELSE active[o]]
  BY DEF SetLayout
<1>2. \A o \in Fresh(L) : o \in outputs /\ pick[o] \in DOMAIN L /\ o[1] \in L[pick[o]]
  BY <1>1 DEF SpacesFor, Fresh
<1>3. DOMAIN L \subseteq Space
  BY LayoutType
<1> QED
  BY <1>1, <1>2, <1>3 DEF TypeOK

\* What a layout does to the outputs that a space has, and what it lists there.
LEMMA MappedStep ==
  ASSUME TypeOK, NEW L \in Layouts, SetLayout(L)
  PROVE  /\ mapped' \in [Space -> SUBSET Output]
         /\ \A s \in Space : s \notin DOMAIN L => mapped'[s] = mapped[s]
         /\ \A s \in DOMAIN L : mapped'[s] = (mapped[s] \ outputs) \cup {o \in outputs : o[1] \in L[s]}
         /\ listed' \in [Space -> SUBSET Name]
         /\ \A s \in Space : s \notin DOMAIN L => listed'[s] = listed[s]
         /\ \A s \in DOMAIN L : listed'[s] = L[s]
<1>1. DOMAIN L \subseteq Space /\ \A s \in DOMAIN L : L[s] \subseteq Name
  BY LayoutType
<1> QED
  BY <1>1 DEF TypeOK, SetLayout, MappedAfter, Listed

\* The names and numbers of the objects.
LEMMA OutputType ==
  ASSUME NEW o \in Output
  PROVE  o[1] \in Name /\ o[2] \in 1 .. MaxObject
BY DEF Output

-----------------------------------------------------------------------------
LEMMA InitInvariant == Init => IInv
<1> SUFFICES ASSUME Init PROVE IInv
  OBVIOUS
<1>1. TypeOK
  <2>1. made \in [Name -> 0 .. MaxObject] /\ startups \in 0 .. 1
    BY OutputsAssumption DEF Init
  <2>2. mapped \in [Space -> SUBSET Output]
    BY Zenon DEF Init
  <2>3. active \in [Output -> Space \cup {NoSpace}]
    BY Zenon DEF Init
  <2>4. spaces \subseteq Space
    BY OutputsAssumption DEF Init
  <2>5. listed \in [Space -> SUBSET Name]
    BY Zenon DEF Init
  <2> QED
    BY <2>1, <2>2, <2>3, <2>4, <2>5 DEF Init, TypeOK
<1>2. ObjectsAreCounted /\ MappedAreListed /\ RenderFindsOutput
  BY DEF Init, ObjectsAreCounted, MappedAreListed, RenderFindsOutput
<1>3. ReadyIsCounted
  BY DEF Init, ReadyIsCounted
<1> QED
  BY <1>1, <1>2, <1>3 DEF IInv

LEMMA ConnectedInvariant ==
  ASSUME IInv, NEW n \in Name, ConnectorConnected(n)
  PROVE  IInv'
<1> USE DEF ConnectorConnected
<1>1. <<n, made[n] + 1>> \in Output
  BY OutputsAssumption DEF IInv, TypeOK, Output
<1>2. TypeOK'
  BY <1>1, OutputsAssumption DEF IInv, TypeOK, readyVars
<1>3. \A m \in Name : made[m] <= made'[m] /\ made[m] \in Nat /\ made'[m] \in Nat
  BY OutputsAssumption DEF IInv, TypeOK
<1>4. \A o \in Output : o[2] <= made[o[1]] => o[2] <= made'[o[1]]
  BY <1>3, OutputType, OutputsAssumption
<1>5. \A o \in outputs' : o[2] <= made'[o[1]]
  <2>1. SUFFICES ASSUME NEW o \in outputs'
                 PROVE  o[2] <= made'[o[1]]
    OBVIOUS
  <2>2. CASE o = <<n, made[n] + 1>>
    BY <2>2, <1>3 DEF IInv, TypeOK
  <2>3. CASE o \in outputs
    BY <2>3, <1>4 DEF IInv, TypeOK, ObjectsAreCounted
  <2> QED
    BY <2>2, <2>3
<1>6. ObjectsAreCounted'
  BY <1>4, <1>5 DEF IInv, TypeOK, ObjectsAreCounted
<1>7. /\ active[<<n, made[n] + 1>>] = NoSpace
      /\ \A s \in Space : <<n, made[n] + 1>> \notin mapped[s]
  <2>1. ~(made[n] + 1 <= made[n])
    BY DEF IInv, TypeOK
  <2> QED
    BY <1>1, <2>1 DEF IInv, ObjectsAreCounted
<1>8. (MappedAreListed /\ RenderFindsOutput)'
  BY <1>7 DEF IInv, MappedAreListed, RenderFindsOutput
<1>9. ReadyIsCounted'
  BY DEF IInv, ReadyIsCounted, readyVars
<1> QED
  BY <1>2, <1>6, <1>8, <1>9 DEF IInv

LEMMA LayoutInvariant ==
  ASSUME IInv, NEW L \in Layouts, SetLayout(L)
  PROVE  IInv'
<1>0. TypeOK
  BY DEF IInv
<1>1. TypeOK'
  <2>1. started' \subseteq Output /\ readyIdle' \in BOOLEAN
    BY <1>0 DEF SetLayout, StartOutputs, TypeOK
  <2>2. spaces' \subseteq Space
    BY <1>0, LayoutType DEF SetLayout, TypeOK
  <2> QED
    BY <1>0, <2>1, <2>2, ActiveStep, MappedStep DEF SetLayout, TypeOK, readyVars
<1>2. ObjectsAreCounted'
  <2>1. outputs' = outputs /\ made' = made
    BY DEF SetLayout
  <2>2. ASSUME NEW s \in Space, NEW o \in mapped'[s] PROVE o[2] <= made[o[1]]
    BY <1>0, <2>2, MappedStep DEF IInv, ObjectsAreCounted
  <2>3. ASSUME NEW o \in Output, active'[o] # NoSpace PROVE o[2] <= made[o[1]]
    BY <1>0, <2>3, ActiveStep DEF IInv, ObjectsAreCounted
  <2> QED
    BY <2>1, <2>2, <2>3 DEF IInv, ObjectsAreCounted
<1>3. MappedAreListed'
  <2>1. SUFFICES ASSUME NEW s \in Space, NEW o \in mapped'[s], o \in outputs
                 PROVE  o[1] \in listed'[s]
    BY DEF MappedAreListed, SetLayout
  <2> QED
    BY <1>0, <2>1, MappedStep DEF IInv, MappedAreListed
<1>4. RenderFindsOutput'
  <2>1. outputs' = outputs /\ spaces' = spaces \cup DOMAIN L
    BY DEF SetLayout
  <2>2. SUFFICES ASSUME NEW o \in outputs, active'[o] # NoSpace
                 PROVE  /\ active'[o] \in spaces'
                        /\ o \in mapped'[active'[o]] <=> o[1] \in listed'[active'[o]]
    BY <2>1 DEF RenderFindsOutput
  <2>3. o \in Output
    BY <1>0 DEF TypeOK
  <2>4. CASE active'[o] \in DOMAIN L
    BY <1>0, <2>1, <2>4, MappedStep
  <2>5. CASE active'[o] \notin DOMAIN L
    <3>1. active'[o] = active[o] /\ active[o] \in Space
      BY <1>0, <2>2, <2>3, <2>5, ActiveStep DEF TypeOK
    <3>2. active[o] \in spaces /\ (o \in mapped[active[o]] <=> o[1] \in listed[active[o]])
      BY <2>2, <3>1 DEF IInv, RenderFindsOutput
    <3> QED
      BY <1>0, <2>1, <2>5, <3>1, <3>2, MappedStep
  <2> QED
    BY <2>4, <2>5
<1>5. ReadyIsCounted'
  BY DEF IInv, ReadyIsCounted, SetLayout, readyVars
<1> QED
  BY <1>1, <1>2, <1>3, <1>4, <1>5 DEF IInv

\* The steps that leave the layout alone.
LEMMA ReadyInvariant ==
  ASSUME IInv, BackendReady \/ XWaylandReady \/ XWaylandFailed \/ UNCHANGED vars
  PROVE  IInv'
<1> USE DEF layoutVars, readyVars
<1>1. UNCHANGED layoutVars
  BY DEF BackendReady, XWaylandReady, XWaylandFailed, vars
<1>2. (ObjectsAreCounted /\ MappedAreListed /\ RenderFindsOutput)'
  BY <1>1 DEF IInv, ObjectsAreCounted, MappedAreListed, RenderFindsOutput
<1>3. /\ readyIdle' \in BOOLEAN
      /\ backend' \in BOOLEAN
      /\ xwayland' \in {"starting", "ready", "failed"}
      /\ backend => backend'
      /\ xwayland = "ready" => xwayland' = "ready"
  BY DEF IInv, TypeOK, BackendReady, XWaylandReady, XWaylandFailed, vars
<1>4. CheckReadyness \/ UNCHANGED <<onReady, startups>>
  BY DEF BackendReady, XWaylandReady, XWaylandFailed, vars
<1>5. onReady \in BOOLEAN /\ ReadyIsCounted
  BY DEF IInv, TypeOK
<1>6. ReadyIsCounted' /\ onReady' \in BOOLEAN /\ startups' \in 0 .. 1
  <2>1. CASE UNCHANGED <<onReady, startups>>
    BY <2>1, <1>3, <1>5 DEF ReadyIsCounted
  <2>2. CASE ~onReady /\ backend' /\ xwayland' = "ready" /\ onReady' = TRUE /\ startups' = startups + 1
    BY <2>2, <1>5 DEF ReadyIsCounted
  <2> QED
    BY <1>4, <2>1, <2>2 DEF CheckReadyness
<1>7. TypeOK'
  BY <1>1, <1>3, <1>6 DEF IInv, TypeOK
<1> QED
  BY <1>2, <1>6, <1>7 DEF IInv

LEMMA DisconnectedInvariant ==
  ASSUME IInv, NEW o \in outputs, ConnectorDisconnected(o)
  PROVE  IInv'
<1> USE DEF ConnectorDisconnected, readyVars
<1>1. TypeOK'
  BY DEF IInv, TypeOK
<1>2. (ObjectsAreCounted /\ MappedAreListed /\ RenderFindsOutput /\ ReadyIsCounted)'
  BY DEF IInv, ObjectsAreCounted, MappedAreListed, RenderFindsOutput, ReadyIsCounted
<1> QED
  BY <1>1, <1>2 DEF IInv

LEMMA NextInvariant ==
  ASSUME IInv, [Next]_vars
  PROVE  IInv'
BY ConnectedInvariant, DisconnectedInvariant, LayoutInvariant, ReadyInvariant DEF Next

THEOREM Invariance == Spec => []IInv
<1>1. Init => IInv
  BY InitInvariant
<1>2. IInv /\ [Next]_vars => IInv'
  BY NextInvariant
<1> QED
  BY <1>1, <1>2, PTL DEF Spec

-----------------------------------------------------------------------------
(* Results *)

\* Type correctness of the outputs, the spaces and the readiness of the display.
THEOREM TypeCorrect == Spec => []TypeOK
<1>1. IInv => TypeOK
  BY DEF IInv
<1> QED
  BY <1>1, Invariance, PTL

\* check_readyness sends Startup once, and not before both flags are set.
THEOREM StartupIsOnce == Spec => []StartupOnce
<1>1. IInv => StartupOnce
  BY DEF IInv, ReadyIsCounted, StartupOnce
<1> QED
  BY <1>1, Invariance, PTL

\* set_layout shows an output in two spaces only when the last layouts of both list
\* it, whatever was listed before and whichever outputs come and go.
THEOREM NotInTwoSpaces == Spec => []OneSpacePerOutput
<1>1. IInv => OneSpacePerOutput
  BY DEF IInv, TypeOK, MappedAreListed, OneSpacePerOutput
<1> QED
  BY <1>1, Invariance, PTL

\* The ActiveSpace of an output always exists, and the geometry that the renderer
\* unwraps there is missing exactly when the last layout of that space leaves the
\* output out, across hotplug and any sequence of layouts that agree or do not.
THEOREM RenderFinds == Spec => []RenderFindsOutput
<1>1. IInv => RenderFindsOutput
  BY DEF IInv
<1> QED
  BY <1>1, Invariance, PTL

-----------------------------------------------------------------------------
(* Numbers *)

\* A set of numbers has a least one, and a bounded one a greatest.
LEMMA Least ==
  ASSUME NEW T, T \subseteq Nat, T # {}
  PROVE  \E n \in T : \A m \in T : n <= m
<1> DEFINE R == {ss \in Nat \X Nat : ss[1] < ss[2]}
<1>1. IsWellFoundedOn(R, Nat)
  BY NatLessThanWellFounded DEF OpToRel
<1>2. \A m, n \in Nat : <<m, n>> \in R <=> m < n
  OBVIOUS
<1> HIDE DEF R
<1>3. PICK n \in T : \A m \in T : ~(<<m, n>> \in R)
  BY <1>1, WFMin
<1>4. \A m \in T : m \in Nat /\ n \in Nat
  OBVIOUS
<1>5. \A m \in T : ~(m < n)
  BY <1>2, <1>3, <1>4
<1> QED
  BY <1>4, <1>5

LEMMA Greatest ==
  ASSUME NEW b \in Nat, NEW T, T \subseteq 1 .. b, T # {}
  PROVE  \E n \in T : \A m \in T : n >= m
<1> DEFINE U == {b - n : n \in T}
<1>1. \A n \in T : n \in Nat /\ b - n \in Nat
  OBVIOUS
<1>0. U \subseteq Nat /\ U # {}
  BY <1>1
<1>2. PICK u \in U : \A v \in U : u <= v
  BY <1>0, Least
<1>3. PICK n \in T : u = b - n
  OBVIOUS
<1>4. \A m \in T : b - n <= b - m
  BY <1>2, <1>3
<1>5. \A m \in T : n >= m
  BY <1>1, <1>4
<1> QED
  BY <1>5

\* What holds of 0 and, when it holds of a number, of the next, holds of all.
LEMMA Induction ==
  ASSUME NEW T, 0 \in T, \A n \in Nat : n \in T => n + 1 \in T
  PROVE  Nat \subseteq T
<1> SUFFICES ASSUME Nat \ T # {} PROVE FALSE
  OBVIOUS
<1>1. PICK n \in Nat \ T : \A m \in Nat \ T : n <= m
  BY Least
<1>2. n - 1 \in Nat /\ n - 1 \in T
  BY <1>1
<1> QED
  BY <1>1, <1>2

-----------------------------------------------------------------------------
(* The seat: what is where *)

LEMMA OneOfFacts ==
  ASSUME NEW S, S # {}
  PROVE  OneOf(S) \in S
BY DEF OneOf

\* The outputs have a width together, by induction over how many they are.
LEMMA WidthType == Width \in Nat
<1> DEFINE Sum(f, S) == IF S = {} THEN 0 ELSE OneOf(S).w + f[S \ {OneOf(S)}]
           P(f) == f = [S \in SUBSET Screen |-> Sum(f, S)]
           Upto(n) == {S \in SUBSET Screen : Cardinality(S) <= n}
           F(n) == {f \in [Upto(n) -> Nat] : \A S \in Upto(n) : f[S] = Sum(f, S)}
<1>0. \A s \in Screen : s.w \in Nat
  BY SeatAssumption
<1>1. \A S \in SUBSET Screen : IsFiniteSet(S) /\ Cardinality(S) \in Nat
  BY SeatAssumption, FS_Subset, FS_CardinalityType
<1>2. ASSUME NEW S \in SUBSET Screen, S # {}
      PROVE  /\ OneOf(S) \in Screen /\ S \ {OneOf(S)} \in SUBSET Screen
             /\ Cardinality(S \ {OneOf(S)}) = Cardinality(S) - 1
  BY <1>1, <1>2, OneOfFacts, FS_RemoveElement
<1>3. \A S \in SUBSET Screen : Cardinality(S) = 0 => S = {}
  BY <1>1, FS_EmptySet
<1>4. \A n \in Nat : F(n) # {}
  <2> DEFINE T == {n \in Nat : F(n) # {}}
  <2>1. 0 \in T
    <3> DEFINE f == [S \in Upto(0) |-> 0]
    <3>1. \A S \in Upto(0) : S = {}
      BY <1>1, <1>3
    <3>2. f \in F(0)
      BY <3>1
    <3> QED
      BY <3>2
  <2>2. ASSUME NEW n \in Nat, n \in T PROVE n + 1 \in T
    <3>1. PICK f \in F(n) : TRUE
      BY <2>2
    <3>2. f \in [Upto(n) -> Nat] /\ \A S \in Upto(n) : f[S] = Sum(f, S)
      BY <3>1
    <3> DEFINE g == [S \in Upto(n + 1) |-> Sum(f, S)]
    <3>3. ASSUME NEW S \in Upto(n + 1), S # {} PROVE S \ {OneOf(S)} \in Upto(n) /\ S \in SUBSET Screen
      BY <1>1, <1>2, <3>3
    <3>4. g \in [Upto(n + 1) -> Nat]
      <4>1. ASSUME NEW S \in Upto(n + 1) PROVE Sum(f, S) \in Nat
        <5>1. CASE S = {}
          BY <5>1
        <5>2. CASE S # {}
          <6>1. OneOf(S).w \in Nat /\ f[S \ {OneOf(S)}] \in Nat
            BY <1>0, <1>2, <3>2, <3>3, <5>2
          <6> QED
            BY <5>2, <6>1
        <5> QED
          BY <5>1, <5>2
      <4> HIDE DEF Sum
      <4> QED
        BY <4>1
    <3>5. ASSUME NEW S \in Upto(n) PROVE S \in Upto(n + 1) /\ g[S] = f[S]
      BY <1>1, <3>2
    <3>6. ASSUME NEW S \in Upto(n + 1) PROVE g[S] = Sum(g, S)
      <4>1. g[S] = Sum(f, S)
        OBVIOUS
      <4>2. S # {} => g[S \ {OneOf(S)}] = f[S \ {OneOf(S)}]
        <5> HIDE DEF g
        <5> QED
          BY <3>3, <3>5
      <4> HIDE DEF g
      <4> QED
        BY <4>1, <4>2
    <3>7. g \in F(n + 1)
      <4> HIDE DEF g, Sum, Upto
      <4> QED
        BY <3>4, <3>6
    <3> HIDE DEF F
    <3>8. n + 1 \in Nat /\ F(n + 1) # {}
      BY <3>7
    <3> QED
      BY <3>8
  <2> HIDE DEF T
  <2>3. Nat \subseteq T
    BY <2>1, <2>2, Induction
  <2> QED
    BY <2>3 DEF T
<1>5. \E f : P(f)
  <2> DEFINE c == Cardinality(Screen)
  <2>1. c \in Nat /\ Upto(c) = SUBSET Screen
    <3>1. \A S \in SUBSET Screen : Cardinality(S) <= c
      BY SeatAssumption, FS_Subset
    <3> QED
      BY <1>1, <3>1
  <2>2. PICK f \in F(c) : TRUE
    BY <1>4, <2>1
  <2>3. f \in [SUBSET Screen -> Nat] /\ \A S \in SUBSET Screen : f[S] = Sum(f, S)
    BY <2>1, <2>2
  <2>4. P(f)
    <3> HIDE DEF Sum
    <3> QED
      BY <2>3
  <2> QED
    BY <2>4
<1>6. ASSUME NEW f, P(f) PROVE f[Screen] \in Nat
  <2>0. \A S \in SUBSET Screen : f[S] = Sum(f, S)
    <3> HIDE DEF Sum
    <3> QED
      BY <1>6
  <2> DEFINE T == {n \in Nat : \A S \in Upto(n) : f[S] \in Nat}
  <2>1. 0 \in T
    BY <1>1, <1>3, <2>0
  <2>2. ASSUME NEW n \in Nat, n \in T PROVE n + 1 \in T
    <3> SUFFICES ASSUME NEW S \in Upto(n + 1) PROVE f[S] \in Nat
      OBVIOUS
    <3>1. CASE S = {}
      BY <2>0, <3>1
    <3>2. CASE S # {}
      <4>1. S \ {OneOf(S)} \in Upto(n) /\ OneOf(S).w \in Nat
        BY <1>0, <1>1, <1>2, <3>2
      <4>2. f[S \ {OneOf(S)}] \in Nat
        BY <2>2, <4>1
      <4>3. f[S] = OneOf(S).w + f[S \ {OneOf(S)}]
        BY <2>0, <3>2
      <4> QED
        BY <4>1, <4>2, <4>3
    <3> QED
      BY <3>1, <3>2
  <2> HIDE DEF T
  <2>3. Cardinality(Screen) \in T
    BY <1>1, <2>1, <2>2, Induction
  <2>4. Screen \in Upto(Cardinality(Screen))
    BY <1>1
  <2> QED
    BY <2>3, <2>4 DEF T
<1>7. Width = (CHOOSE f : P(f))[Screen]
  BY DEF Width
<1> HIDE DEF P
<1> QED
  BY <1>5, <1>6, <1>7

LEMMA ClampType ==
  ASSUME NEW p \in Point
  PROVE  ClampCoords(p) \in Point
<1> DEFINE x == Between(p[1], 0, Width)
           above == ScreensAt(<<x, 0>>)
<1>1. x \in Int
  BY WidthType DEF Between, Point
<1>2. above \subseteq Screen
  BY DEF ScreensAt
<1>3. above # {} => OneOf(above).h \in Nat
  BY <1>2, OneOfFacts, SeatAssumption
<1>4. ClampCoords(p) = IF above = {} THEN <<x, p[2]>> ELSE <<x, Between(p[2], 0, OneOf(above).h)>>
  BY DEF ClampCoords
<1> HIDE DEF x, above
<1>5. above # {} => Between(p[2], 0, OneOf(above).h) \in Int
  BY <1>3 DEF Between, Point
<1> QED
  BY <1>1, <1>4, <1>5 DEF Point

LEMMA LayerType ==
  ASSUME NEW p, layers \subseteq Layer
  PROVE  /\ Upper(p) \in Layer \cup {Nobody}
         /\ Lower(p) \in Layer \cup {Nobody}
BY OneOfFacts DEF Upper, Lower, LayerUnder, OnLevel, OneOf

LEMMA WindowUnderType ==
  ASSUME NEW p, stack \in Seq(Window)
  PROVE  /\ WindowUnder(p) \in Window \cup {Nobody}
         /\ WindowUnder(p) # Nobody => WindowUnder(p) \in ToSet(stack)
<1> DEFINE at == {i \in 1 .. Len(stack) : p \in Extent[stack[i]]}
<1>1. CASE at = {}
  BY <1>1 DEF WindowUnder
<1>2. CASE at # {}
  <2>1. Len(stack) \in Nat /\ at \subseteq 1 .. Len(stack) /\ DOMAIN stack = 1 .. Len(stack)
    OBVIOUS
  <2>2. \E i \in at : \A j \in at : i >= j
    <3> HIDE DEF at
    <3> QED
      BY <1>2, <2>1, Greatest
  <2>3. \E i \in at : \A j \in at : j <= i
    BY <2>1, <2>2
  <2> DEFINE k == CHOOSE i \in at : \A j \in at : j <= i
  <2>4. k \in at
    <3> HIDE DEF at
    <3> QED
      BY <2>3
  <2>5. WindowUnder(p) = stack[k]
    BY <1>2 DEF WindowUnder
  <2> HIDE DEF k
  <2>6. k \in 1 .. Len(stack)
    BY <2>4
  <2> HIDE DEF at
  <2> QED
    BY <2>1, <2>5, <2>6 DEF ToSet
<1> QED
  BY <1>1, <1>2

LEMMA SurfaceUnderType ==
  ASSUME NEW p, stack \in Seq(Window), layers \subseteq Layer
  PROVE  SurfaceUnder(p) \in Surface \cup {Nobody}
BY LayerType, WindowUnderType DEF SurfaceUnder, Surface

\* The stack without a window of it.
LEMMA WithoutType ==
  ASSUME NEW w, stack \in Seq(Window), w \in ToSet(stack)
  PROVE  Without(w) \in Seq(Window)
<1> DEFINE k == CHOOSE i \in DOMAIN stack : stack[i] = w
<1>1. Len(stack) \in Nat /\ DOMAIN stack = 1 .. Len(stack) /\ k \in 1 .. Len(stack)
      /\ \A i \in 1 .. Len(stack) : stack[i] \in Window
  BY DEF ToSet
<1>2. Without(w) = SubSeq(stack, 1, k - 1) \o SubSeq(stack, k + 1, Len(stack))
  BY DEF Without, RemoveAt
<1> HIDE DEF k
<1>3. SubSeq(stack, 1, k - 1) \in Seq(Window) /\ SubSeq(stack, k + 1, Len(stack)) \in Seq(Window)
  BY <1>1, SubSeqProperties
<1> QED
  BY <1>2, <1>3, ConcatProperties

-----------------------------------------------------------------------------
(* The seat: the inductive invariant *)

Constraints == [Window -> [kind : {"none", "lock", "confine"}, active : BOOLEAN]]

\* What is active is a constraint.
Kinds(c) == \A w \in Window : c[w].active => c[w].kind # "none"

\* The pointer goes where it has been last reported to, at once or with the last
\* button, and has come to rest there.
PointerFollows ==
  /\ pressed = 0 => focus = pending
  /\ rested => pending = SurfaceUnder(location)

SeatInv == SeatTypeOK /\ KeyboardIsOpen /\ Kinds(constraint) /\ PointerFollows /\ BoundStays

\* While no window and no layer comes or goes, what is where does not change.
LEMMA UnderStays ==
  ASSUME UNCHANGED stageVars, NEW p, location' = p
  PROVE  SurfaceUnder(location)' = SurfaceUnder(p)
BY DEF stageVars, SurfaceUnder, Hit, Upper, Lower, LayerUnder, OnLevel, OneOf, WindowUnder, ScreensAt

LEMMA LeftFacts ==
  ASSUME constraint \in Constraints, Kinds(constraint), NEW s, NEW c \in Left(s)
  PROVE  /\ c \in Constraints /\ Kinds(c)
         /\ \A w \in Window : w # s => c[w] = constraint[w]
<1>1. CASE c = constraint
  BY <1>1
<1>2. CASE c # constraint
  <2>1. s \in Window /\ (c = [constraint EXCEPT ![s].active = FALSE] \/ c = [constraint EXCEPT ![s] = NoConstraint])
    BY <1>2 DEF Left
  <2>2. CASE c = [constraint EXCEPT ![s].active = FALSE]
    <3> DEFINE d == [constraint[s] EXCEPT !.active = FALSE]
    <3>1. d \in [kind : {"none", "lock", "confine"}, active : BOOLEAN] /\ ~d.active
      BY <2>1 DEF Constraints
    <3>2. c = [constraint EXCEPT ![s] = d]
      BY <2>2
    <3> HIDE DEF d
    <3> QED
      BY <2>1, <3>1, <3>2 DEF Constraints, Kinds
  <2>3. CASE c = [constraint EXCEPT ![s] = NoConstraint]
    BY <2>1, <2>3 DEF Constraints, Kinds, NoConstraint
  <2> QED
    BY <2>1, <2>2, <2>3
<1> QED
  BY <1>1, <1>2

LEMMA MovedFacts ==
  ASSUME constraint \in Constraints, Kinds(constraint), NEW s, NEW c \in Moved(s)
  PROVE  /\ c \in Constraints /\ Kinds(c)
         /\ \A w \in Window : c[w] = constraint[w] \/ (pressed = 0 /\ s # focus /\ w = focus)
<1>1. CASE pressed = 0 /\ s # focus
  <2>1. c \in Left(focus)
    BY <1>1 DEF Moved
  <2> QED
    BY <1>1, <2>1, LeftFacts
<1>2. CASE ~(pressed = 0 /\ s # focus)
  BY <1>2 DEF Moved
<1> QED
  BY <1>1, <1>2

LEMMA ActivatedFacts ==
  ASSUME NEW c \in Constraints, Kinds(c), NEW s, NEW p
  PROVE  /\ Activated(c, s, p) \in Constraints /\ Kinds(Activated(c, s, p))
         /\ \A w \in Window : c[w].active => Activated(c, s, p)[w].active
         /\ Activated(c, s, p) # c => s \in Window /\ p \in Region[s] /\ Activated(c, s, p)[s].active
<1>1. CASE Activated(c, s, p) = c
  BY <1>1
<1>2. CASE Activated(c, s, p) # c
  <2> DEFINE d == [c[s] EXCEPT !.active = TRUE]
  <2>1. s \in Window /\ c[s].kind # "none" /\ p \in Region[s] /\ Activated(c, s, p) = [c EXCEPT ![s] = d]
    BY <1>2 DEF Activated
  <2>2. d \in [kind : {"none", "lock", "confine"}, active : BOOLEAN] /\ d.active /\ d.kind # "none"
    BY <2>1 DEF Constraints
  <2> HIDE DEF d
  <2> QED
    BY <2>1, <2>2 DEF Constraints, Kinds
<1> QED
  BY <1>1, <1>2

LEMMA SeatInitInv == SeatInit => SeatInv
<1> SUFFICES ASSUME SeatInit PROVE SeatInv
  OBVIOUS
<1>1. SeatTypeOK
  <2>1. 0 \in 0 .. MaxButtons /\ 0 \in 0 .. MaxFingers
    BY SeatAssumption
  <2>2. [w \in Window |-> NoConstraint] \in [Window -> [kind : {"none", "lock", "confine"}, active : BOOLEAN]]
    BY DEF NoConstraint
  <2>3. <<0, 0>> \in Point /\ <<>> \in Seq(Window)
    BY DEF Point
  <2> QED
    BY <2>1, <2>2, <2>3 DEF SeatInit, SeatTypeOK
<1>2. KeyboardIsOpen
  BY SeatAssumption DEF SeatInit, KeyboardIsOpen
<1>3. Kinds(constraint) /\ PointerFollows /\ BoundStays
  BY DEF SeatInit, Kinds, NoConstraint, PointerFollows, BoundStays
<1> QED
  BY <1>1, <1>2, <1>3 DEF SeatInv

-----------------------------------------------------------------------------
(* The seat: the pointer moves *)

\* What all motions do to everything but the constraints that hold.
LEMMA MotionInv ==
  ASSUME SeatInv, NEW p \in Point, NEW s, s = SurfaceUnder(location) \/ s = SurfaceUnder(p), MoveTo(p, s),
         constraint' \in Constraints, Kinds(constraint'), BoundStays', bound' \subseteq Window,
         rested' \in BOOLEAN, rested' => s = SurfaceUnder(p),
         tools' \subseteq Tool,
         UNCHANGED <<stageVars, pressed, keyboard, fingers, tablets>>
  PROVE  SeatInv'
<1>1. s \in Surface \cup {Nobody}
  BY SurfaceUnderType DEF SeatInv, SeatTypeOK
<1>2. location' = p /\ pending' = s /\ focus' = IF pressed = 0 THEN s ELSE focus
  BY DEF MoveTo
<1>3. SeatTypeOK'
  BY <1>1, <1>2 DEF SeatInv, SeatTypeOK, stageVars, Constraints
<1>4. KeyboardIsOpen'
  BY DEF SeatInv, KeyboardIsOpen, stageVars
<1>5. PointerFollows'
  <2>1. SurfaceUnder(location)' = SurfaceUnder(p)
    BY <1>2, UnderStays
  <2> QED
    BY <1>2, <2>1 DEF PointerFollows, SeatInv, SeatTypeOK
<1> QED
  BY <1>3, <1>4, <1>5 DEF SeatInv

\* A constraint that holds keeps the pointer, whatever it had before.
LEMMA PointerMoveInv ==
  ASSUME SeatInv, NEW raw \in Raw, OnPointerMove(raw)
  PROVE  SeatInv'
<1> DEFINE under == SurfaceUnder(location)
           p == ClampCoords(raw)
           newUnder == SurfaceUnder(p)
<1>1. p \in Point
  BY SeatAssumption, ClampType
<1>2. /\ ~Binds(under, "lock") /\ MayMove(under, p) /\ MoveTo(p, under)
      /\ \E c \in Moved(under) :
           /\ constraint' = Activated(c, newUnder, p)
           /\ bound' = (IF constraint' # c THEN {newUnder} ELSE {}) \cup StillBound(under)
      /\ rested' = (newUnder = under)
      /\ UNCHANGED <<stageVars, pressed, keyboard, fingers, tabletVars>>
  BY DEF OnPointerMove
<1> HIDE DEF under, p, newUnder
<1>3. PICK c \in Moved(under) :
           /\ constraint' = Activated(c, newUnder, p)
           /\ bound' = (IF constraint' # c THEN {newUnder} ELSE {}) \cup StillBound(under)
  BY <1>2
<1>4. constraint \in Constraints /\ Kinds(constraint) /\ bound \subseteq Window
  BY DEF SeatInv, SeatTypeOK, Constraints
<1>5. /\ c \in Constraints /\ Kinds(c)
      /\ \A w \in Window : c[w] = constraint[w] \/ (pressed = 0 /\ under # focus /\ w = focus)
  BY <1>4, MovedFacts
<1>6. /\ constraint' \in Constraints /\ Kinds(constraint')
      /\ \A w \in Window : c[w].active => constraint'[w].active
      /\ constraint' # c => newUnder \in Window /\ p \in Region[newUnder] /\ constraint'[newUnder].active
  BY <1>3, <1>5, ActivatedFacts
<1>7. StillBound(under) \subseteq bound /\ (pressed = 0 /\ under # focus => focus \notin StillBound(under))
  BY DEF StillBound
<1>8. bound' \subseteq Window
  BY <1>3, <1>4, <1>6, <1>7
<1>9. location' = p
  BY <1>2 DEF MoveTo
<1>10. SurfaceUnder(location)' = newUnder
  BY <1>2, <1>9, UnderStays DEF newUnder
<1>11. ASSUME NEW w \in StillBound(under)
       PROVE  w = newUnder /\ p \in Region[w] /\ constraint'[w].active
  <2>1. w \in Window /\ w = under /\ constraint[w].active /\ location \in Region[w]
    BY <1>4, <1>7 DEF SeatInv, BoundStays, under
  <2>2. Binds(under, "confine")
    <3>1. constraint[w].kind \in {"none", "lock", "confine"} /\ constraint[w].kind # "none"
      BY <1>4, <2>1 DEF Constraints, Kinds
    <3> QED
      BY <1>2, <2>1, <3>1 DEF Binds
  <2>3. newUnder = under /\ p \in Region[under]
    BY <1>2, <2>2 DEF MayMove, newUnder
  <2>4. c[w] = constraint[w]
    BY <1>5, <1>7, <2>1
  <2> QED
    BY <1>6, <2>1, <2>3, <2>4
<1>12. BoundStays'
  <2> SUFFICES ASSUME NEW w \in bound'
               PROVE  constraint'[w].active /\ location' \in Region[w] /\ newUnder = w
    BY <1>10 DEF BoundStays
  <2>1. w \in StillBound(under) \/ (constraint' # c /\ w = newUnder)
    <3>1. CASE constraint' # c
      BY <1>3, <3>1
    <3>2. CASE constraint' = c
      BY <1>3, <3>2
    <3> QED
      BY <3>1, <3>2
  <2> QED
    BY <1>6, <1>9, <1>11, <2>1
<1>13. under = SurfaceUnder(location) /\ newUnder = SurfaceUnder(p)
  BY DEF under, newUnder
<1>14. tools' \subseteq Tool /\ rested' \in BOOLEAN /\ UNCHANGED <<stageVars, pressed, keyboard, fingers, tablets>>
  BY <1>2 DEF tabletVars, SeatInv, SeatTypeOK
<1> QED
  BY <1>1, <1>2, <1>6, <1>8, <1>12, <1>13, <1>14, MotionInv

\* Absolute devices and tools move the pointer whatever holds it.
LEMMA AbsoluteInv ==
  ASSUME SeatInv, NEW p \in Absolute, OnPointerMoveAbsolute(p) \/ \E tool \in Tool : OnTabletTool(tool, p)
  PROVE  SeatInv'
<1>1. /\ MoveTo(p, SurfaceUnder(p)) /\ constraint' \in Moved(SurfaceUnder(p))
      /\ rested' = TRUE /\ bound' = {} /\ tools' \subseteq Tool
      /\ UNCHANGED <<stageVars, pressed, keyboard, fingers, tablets>>
  BY DEF OnPointerMoveAbsolute, OnTabletTool, tabletVars, SeatInv, SeatTypeOK
<1>2. p \in Point
  BY SeatAssumption
<1>3. constraint' \in Constraints /\ Kinds(constraint')
  <2>1. constraint \in Constraints /\ Kinds(constraint)
    BY DEF SeatInv, SeatTypeOK, Constraints
  <2> QED
    BY <1>1, <2>1, MovedFacts
<1>4. BoundStays'
  BY <1>1 DEF BoundStays
<1> QED
  BY <1>1, <1>2, <1>3, <1>4, MotionInv

-----------------------------------------------------------------------------
(* The seat: buttons, fingers, tools and keys *)

\* The keyboard goes to a layer or to a window that is open.
LEMMA KeyboardFocusFacts ==
  ASSUME SeatInv, NEW p, UpdateKeyboardFocus(p), UNCHANGED layers
  PROVE  stack' \in Seq(Window) /\ keyboard' \in Surface \cup {Nobody} /\ KeyboardIsOpen'
<1>1. stack \in Seq(Window) /\ layers \subseteq Layer /\ keyboard \in Surface \cup {Nobody}
  BY DEF SeatInv, SeatTypeOK
<1>2. CASE UNCHANGED <<keyboard, stack>>
  BY <1>1, <1>2 DEF SeatInv, KeyboardIsOpen
<1>3. CASE keyboard' \in Layer /\ UNCHANGED stack
  BY <1>1, <1>3, SeatAssumption DEF KeyboardIsOpen, Surface
<1>4. CASE WindowUnder(p) # Nobody /\ keyboard' = WindowUnder(p) /\ stack' = Raised(WindowUnder(p))
  <2> DEFINE w == WindowUnder(p)
  <2>1. w \in Window /\ w \in ToSet(stack)
    BY <1>1, <1>4, WindowUnderType
  <2> DEFINE t == Without(w)
  <2>2. t \in Seq(Window)
    BY <1>1, <2>1, WithoutType
  <2>3. stack' = Append(t, w)
    BY <1>4 DEF Raised
  <2> HIDE DEF w, t
  <2>4. stack' \in Seq(Window) /\ w \in ToSet(stack')
    BY <2>1, <2>2, <2>3 DEF ToSet
  <2>5. keyboard' = w
    BY <1>4 DEF w
  <2> QED
    BY <2>1, <2>4, <2>5 DEF KeyboardIsOpen, Surface
<1>5. Focusable \subseteq Layer
  BY SeatAssumption
<1> QED
  BY <1>2, <1>3, <1>4, <1>5 DEF UpdateKeyboardFocus

\* A step that moves neither the pointer nor what it rests on.
LEMMA PointerStays ==
  ASSUME SeatInv, UNCHANGED <<layers, location, focus, pending, constraint>>,
         pressed' = pressed \/ pressed' # 0,
         rested' = (rested /\ stack' = stack), bound' = IF stack' = stack THEN bound ELSE {}
  PROVE  PointerFollows' /\ BoundStays' /\ Kinds(constraint')
<1>1. stack' = stack => SurfaceUnder(location)' = SurfaceUnder(location)
  BY UnderStays DEF stageVars
<1> QED
  BY <1>1 DEF SeatInv, PointerFollows, BoundStays, Kinds

LEMMA ClickInv ==
  ASSUME SeatInv, Press \/ (\E p \in Absolute : TouchDown(p)) \/ OnTabletToolTip
  PROVE  SeatInv'
<1>1. PICK p : UpdateKeyboardFocus(p)
  BY DEF Press, TouchDown, OnTabletToolTip
<1>2. /\ UNCHANGED <<layers, location, focus, pending, constraint, tabletVars>>
      /\ rested' = (rested /\ stack' = stack) /\ bound' = IF stack' = stack THEN bound ELSE {}
  BY DEF Press, TouchDown, OnTabletToolTip, pointerVars
<1>3. pressed \in 0 .. MaxButtons /\ fingers \in 0 .. MaxFingers /\ MaxButtons \in Nat /\ MaxFingers \in Nat
  BY SeatAssumption DEF SeatInv, SeatTypeOK
<1>4. pressed' \in 0 .. MaxButtons /\ fingers' \in 0 .. MaxFingers /\ (pressed' = pressed \/ pressed' # 0)
  BY <1>3 DEF Press, TouchDown, OnTabletToolTip, pointerVars
<1>5. stack' \in Seq(Window) /\ keyboard' \in Surface \cup {Nobody} /\ KeyboardIsOpen'
  BY <1>1, <1>2, KeyboardFocusFacts
<1>6. PointerFollows' /\ BoundStays' /\ Kinds(constraint')
  BY <1>2, <1>4, PointerStays
<1>7. SeatTypeOK'
  BY <1>2, <1>4, <1>5 DEF SeatInv, SeatTypeOK, tabletVars
<1> QED
  BY <1>5, <1>6, <1>7 DEF SeatInv

LEMMA ReleaseInv ==
  ASSUME SeatInv, Release
  PROVE  SeatInv'
<1>1. pressed \in 0 .. MaxButtons /\ pressed > 0 /\ pressed' = pressed - 1 /\ MaxButtons \in Nat
  BY SeatAssumption DEF Release, SeatInv, SeatTypeOK
<1>2. UNCHANGED <<stageVars, location, pending, keyboard, fingers, tabletVars, rested>>
  BY DEF Release
<1>3. constraint \in Constraints /\ Kinds(constraint)
  BY DEF SeatInv, SeatTypeOK, Constraints
<1>4. /\ constraint' \in Constraints /\ Kinds(constraint')
      /\ bound' \subseteq bound /\ \A w \in bound' : constraint'[w] = constraint[w]
  <2>1. CASE constraint' = constraint /\ bound' \subseteq bound
    BY <1>3, <2>1
  <2>2. CASE constraint' \in Left(focus) /\ bound' = bound \ {focus}
    BY <1>3, <2>2, LeftFacts DEF SeatInv, SeatTypeOK
  <2> QED
    BY <2>1, <2>2 DEF Release
<1>5. focus' \in Surface \cup {Nobody} /\ (pressed' = 0 => focus' = pending')
  BY <1>1, <1>2 DEF Release, SeatInv, SeatTypeOK
<1>6. SeatTypeOK' /\ KeyboardIsOpen'
  BY <1>1, <1>2, <1>4, <1>5 DEF SeatInv, SeatTypeOK, KeyboardIsOpen, stageVars, tabletVars, Constraints
<1>7. SurfaceUnder(location)' = SurfaceUnder(location)
  BY <1>2, UnderStays
<1>8. PointerFollows' /\ BoundStays'
  BY <1>2, <1>4, <1>5, <1>7 DEF SeatInv, PointerFollows, BoundStays
<1> QED
  BY <1>4, <1>6, <1>8 DEF SeatInv

\* What leaves the pointer, the windows and the constraints alone.
LEMMA AloneInv ==
  ASSUME SeatInv, UNCHANGED <<stageVars, pointerVars, constraint, history>>,
         keyboard' \in Layer \/ UNCHANGED keyboard,
         fingers' \in 0 .. MaxFingers, tablets' \subseteq Tablet, tools' \subseteq Tool
  PROVE  SeatInv'
<1>1. UNCHANGED <<stack, layers, location, focus, pending, pressed, constraint, rested, bound>>
  BY DEF stageVars, pointerVars, history
<1>2. SeatTypeOK' /\ KeyboardIsOpen'
  BY <1>1, SeatAssumption DEF SeatInv, SeatTypeOK, KeyboardIsOpen, Surface
<1>3. PointerFollows' /\ BoundStays' /\ Kinds(constraint')
  BY <1>1, PointerStays DEF SeatInv, SeatTypeOK
<1> QED
  BY <1>2, <1>3 DEF SeatInv

LEMMA OtherInputInv ==
  ASSUME SeatInv,
         \/ \E l \in Layer : KeyToExclusive(l)
         \/ \E left \in 0 .. MaxFingers : TouchUp(left)
         \/ \E t \in Tablet : TabletAdded(t) \/ TabletRemoved(t)
  PROVE  SeatInv'
<1>1. UNCHANGED <<stageVars, pointerVars, constraint, history>> /\ (keyboard' \in Layer \/ UNCHANGED keyboard)
  BY DEF KeyToExclusive, TouchUp, TabletAdded, TabletRemoved
<1>2. fingers' \in 0 .. MaxFingers /\ tablets' \subseteq Tablet /\ tools' \subseteq Tool
  BY DEF KeyToExclusive, TouchUp, TabletAdded, TabletRemoved, SeatInv, SeatTypeOK, tabletVars
<1> QED
  BY <1>1, <1>2, AloneInv

-----------------------------------------------------------------------------
(* The seat: clients *)

LEMMA ConstraintInv ==
  ASSUME SeatInv, NEW w \in Window,
         (\E kind \in {"lock", "confine"} : NewConstraint(w, kind)) \/ RemoveConstraint(w)
  PROVE  SeatInv'
<1>1. UNCHANGED <<stageVars, pointerVars, keyboard, fingers, tabletVars, rested>>
  BY DEF NewConstraint, RemoveConstraint
<1>2. constraint \in Constraints /\ Kinds(constraint) /\ bound \subseteq Window
  BY DEF SeatInv, SeatTypeOK, Constraints
<1>3. SurfaceUnder(location)' = SurfaceUnder(location)
  BY <1>1, UnderStays DEF pointerVars
<1>4. /\ constraint' \in Constraints /\ Kinds(constraint') /\ bound' \subseteq Window
      /\ \A v \in bound' : constraint'[v].active /\ location \in Region[v] /\ SurfaceUnder(location) = v
  <2>1. CASE \E kind \in {"lock", "confine"} : NewConstraint(w, kind)
    <3>1. PICK kind \in {"lock", "confine"} : NewConstraint(w, kind)
      BY <2>1
    <3> DEFINE d == [kind |-> kind, active |-> focus = w]
    <3>2. /\ constraint[w].kind = "none" /\ constraint' = [constraint EXCEPT ![w] = d]
          /\ bound' = IF focus = w /\ location \in Region[w] /\ SurfaceUnder(location) = w THEN bound \cup {w} ELSE bound
      BY <3>1 DEF NewConstraint
    <3>3. d \in [kind : {"none", "lock", "confine"}, active : BOOLEAN] /\ d.kind # "none" /\ d.active = (focus = w)
      OBVIOUS
    <3> HIDE DEF d
    <3>4. constraint' \in Constraints /\ Kinds(constraint')
      BY <1>2, <3>2, <3>3 DEF Constraints, Kinds
    <3>5. w \notin bound
      BY <1>2, <3>2 DEF SeatInv, BoundStays, Kinds
    <3> QED
      BY <1>2, <3>2, <3>3, <3>4, <3>5 DEF SeatInv, BoundStays, Constraints
  <2>2. CASE RemoveConstraint(w)
    BY <1>2, <2>2 DEF RemoveConstraint, SeatInv, BoundStays, Constraints, Kinds, NoConstraint
  <2> QED
    BY <2>1, <2>2
<1>5. SeatTypeOK' /\ KeyboardIsOpen'
  BY <1>1, <1>4 DEF SeatInv, SeatTypeOK, KeyboardIsOpen, stageVars, pointerVars, tabletVars, Constraints
<1>6. PointerFollows' /\ BoundStays'
  BY <1>1, <1>3, <1>4 DEF SeatInv, PointerFollows, BoundStays, pointerVars
<1> QED
  BY <1>4, <1>5, <1>6 DEF SeatInv

\* What changes the windows or the layers, or places the pointer, ends the rest.
LEMMA StageInv ==
  ASSUME SeatInv, rested' = FALSE, bound' = {}, UNCHANGED <<focus, pending, pressed, fingers, tabletVars>>,
         stack' \in Seq(Window), layers' \subseteq Layer, location' \in Point, keyboard' \in Surface \cup {Nobody},
         KeyboardIsOpen', constraint' \in Constraints, Kinds(constraint')
  PROVE  SeatInv'
<1>1. SeatTypeOK'
  BY DEF SeatInv, SeatTypeOK, tabletVars, Constraints
<1>2. PointerFollows' /\ BoundStays'
  BY DEF SeatInv, PointerFollows, BoundStays
<1> QED
  BY <1>1, <1>2 DEF SeatInv

LEMMA WindowInv ==
  ASSUME SeatInv, NEW w \in Window, OpenWindow(w) \/ CloseWindow(w) \/ \E p \in Hint[w] : CursorPositionHint(w, p)
  PROVE  SeatInv'
<1>0. /\ constraint \in Constraints /\ Kinds(constraint) /\ stack \in Seq(Window) /\ layers \subseteq Layer
      /\ location \in Point /\ keyboard \in Surface \cup {Nobody} /\ KeyboardIsOpen
  BY DEF SeatInv, SeatTypeOK, Constraints
<1>1. CASE OpenWindow(w)
  <2>1. /\ stack' = Append(stack, w) /\ keyboard' = IF w \in Override THEN keyboard ELSE w
        /\ UNCHANGED <<layers, pointerVars, fingers, constraint, tabletVars>> /\ rested' = FALSE /\ bound' = {}
    BY <1>1 DEF OpenWindow, StageChanges
  <2>2. stack' \in Seq(Window) /\ ToSet(stack') = ToSet(stack) \cup {w}
    BY <1>0, <2>1 DEF ToSet
  <2>3. keyboard' \in Surface \cup {Nobody} /\ KeyboardIsOpen'
    BY <1>0, <2>1, <2>2 DEF KeyboardIsOpen, Surface
  <2> QED
    BY <1>0, <2>1, <2>2, <2>3, StageInv DEF pointerVars
<1>2. CASE CloseWindow(w)
  <2>1. /\ w \in ToSet(stack) /\ stack' = Without(w)
        /\ keyboard' = IF stack' = <<>> THEN keyboard ELSE Last(stack')
        /\ constraint' = [constraint EXCEPT ![w] = NoConstraint]
        /\ UNCHANGED <<layers, pointerVars, fingers, tabletVars>> /\ rested' = FALSE /\ bound' = {}
    BY <1>2 DEF CloseWindow, StageChanges
  <2>2. stack' \in Seq(Window)
    BY <1>0, <2>1, WithoutType
  <2>3. stack' # <<>> => Last(stack') \in Window /\ Last(stack') \in ToSet(stack')
    <3> DEFINE t == stack'
    <3>1. t \in Seq(Window)
      BY <2>2
    <3> HIDE DEF t
    <3>2. t # <<>> => Len(t) \in 1 .. Len(t) /\ DOMAIN t = 1 .. Len(t) /\ t[Len(t)] \in Window
      BY <3>1
    <3>3. t # <<>> => Last(t) \in Window /\ Last(t) \in ToSet(t)
      BY <3>2 DEF Last, ToSet
    <3> QED
      BY <3>3 DEF t
  <2>4. stack' = <<>> => ToSet(stack') = {}
    BY DEF ToSet
  <2>5. keyboard' \in Surface \cup {Nobody} /\ KeyboardIsOpen'
    BY <1>0, <2>1, <2>3, <2>4 DEF KeyboardIsOpen, Surface
  <2>6. constraint' \in Constraints /\ Kinds(constraint')
    BY <1>0, <2>1 DEF Constraints, Kinds, NoConstraint
  <2> QED
    BY <1>0, <2>1, <2>2, <2>5, <2>6, StageInv DEF pointerVars
<1>3. CASE \E p \in Hint[w] : CursorPositionHint(w, p)
  <2>1. PICK p \in Hint[w] : CursorPositionHint(w, p)
    BY <1>3
  <2>2. /\ location' = p /\ rested' = FALSE /\ bound' = {}
        /\ UNCHANGED <<stack, layers, focus, pending, pressed, keyboard, fingers, constraint, tabletVars>>
    BY <2>1 DEF CursorPositionHint, stageVars
  <2>3. p \in Point /\ KeyboardIsOpen'
    BY <1>0, <2>2, SeatAssumption DEF KeyboardIsOpen
  <2> QED
    BY <1>0, <2>2, <2>3, StageInv
<1> QED
  BY <1>1, <1>2, <1>3

LEMMA LayerInv ==
  ASSUME SeatInv, NEW l \in Layer, NewLayer(l) \/ LayerDestroyed(l)
  PROVE  SeatInv'
<1>1. /\ layers' \subseteq Layer /\ rested' = FALSE /\ bound' = {}
      /\ UNCHANGED <<stack, location, focus, pending, pressed, keyboard, fingers, constraint, tabletVars>>
  BY DEF NewLayer, LayerDestroyed, StageChanges, pointerVars, SeatInv, SeatTypeOK
<1>2. /\ constraint \in Constraints /\ Kinds(constraint) /\ stack \in Seq(Window)
      /\ location \in Point /\ keyboard \in Surface \cup {Nobody} /\ KeyboardIsOpen'
  BY <1>1 DEF SeatInv, SeatTypeOK, Constraints, KeyboardIsOpen
<1> QED
  BY <1>1, <1>2, StageInv

LEMMA SeatNextInv == SeatInv /\ [SeatNext]_seatVars => SeatInv'
<1> SUFFICES ASSUME SeatInv, [SeatNext]_seatVars PROVE SeatInv'
  OBVIOUS
<1>1. CASE UNCHANGED seatVars
  <2>1. UNCHANGED <<stageVars, pointerVars, keyboard, fingers, constraint, tablets, tools, history>>
    BY <1>1 DEF seatVars, tabletVars
  <2> QED
    BY <2>1, AloneInv DEF SeatInv, SeatTypeOK
<1>2. CASE User
  BY <1>2, PointerMoveInv, AbsoluteInv, ClickInv, ReleaseInv, OtherInputInv DEF User
<1>3. CASE Clients
  BY <1>3, ConstraintInv, WindowInv, LayerInv DEF Clients
<1> QED
  BY <1>1, <1>2, <1>3 DEF SeatNext

\* The seat keeps its types, and the keyboard is on no closed window while there
\* is one to type into, whatever opens, closes and is clicked.
THEOREM SeatSound == SeatSpec => []SeatIsSound
<1>1. SeatInv => SeatIsSound
  BY DEF SeatInv, SeatIsSound
<1> QED
  BY <1>1, SeatInitInv, SeatNextInv, PTL DEF SeatSpec

\* A constraint that became active with the pointer inside holds it there until
\* something other than relative motion moves it, for any windows, layers,
\* regions and places.
THEOREM ConstraintsHold == SeatSpec => []BoundStays
<1>1. SeatInv => BoundStays
  BY DEF SeatInv
<1> QED
  BY <1>1, SeatInitInv, SeatNextInv, PTL DEF SeatSpec

\* The surface under a pointer at rest has it, once all buttons are up.
THEOREM RestHasFocus == SeatSpec => []RestedIsFocused
<1>1. SeatInv => RestedIsFocused
  BY DEF SeatInv, PointerFollows, RestedIsFocused
<1> QED
  BY <1>1, SeatInitInv, SeatNextInv, PTL DEF SeatSpec

\* update_keyboard_focus finds what surface_under finds: a click gives the keyboard
\* to what is under the pointer, or leaves it for what takes none.
THEOREM ClickGivesKeyboard == SeatSpec => PressFocusesUnder
<1> DEFINE Click == pressed' = pressed + 1 /\ pressed = 0 /\ fingers = 0 /\ ScreensAt(location) # {}
           Given == \/ keyboard' = SurfaceUnder(location)
                    \/ keyboard' = keyboard /\ SurfaceUnder(location) \in Override \cup {Nobody}
                    \/ SurfaceUnder(location) \in Layer \ Focusable
<1>1. ASSUME SeatInv, [SeatNext]_seatVars, Click PROVE Given
  <2>1. UpdateKeyboardFocus(location) /\ pressed = 0 /\ fingers = 0
    <3>1. pressed' # pressed /\ ~(pressed > 0)
      BY <1>1
    <3>2. Press \/ Release
      BY <1>1, <3>1 DEF SeatNext, User, Clients, OnPointerMove, OnPointerMoveAbsolute, KeyToExclusive, TouchDown,
         TouchUp, TabletAdded, TabletRemoved, OnTabletTool, OnTabletToolTip, OpenWindow, CloseWindow, NewConstraint,
         RemoveConstraint, CursorPositionHint, NewLayer, LayerDestroyed, pointerVars, seatVars
    <3> QED
      BY <1>1, <3>1, <3>2 DEF Press, Release
  <2>2. Upper(location) \in Layer \cup {Nobody} /\ Lower(location) \in Layer \cup {Nobody}
    BY <1>1, LayerType DEF SeatInv, SeatTypeOK
  <2>3. WindowUnder(location) \in Window \cup {Nobody}
    BY <1>1, WindowUnderType DEF SeatInv, SeatTypeOK
  <2>4. /\ Hit(Upper(location), location) => Upper(location) \in Layer
        /\ Hit(Lower(location), location) => Lower(location) \in Layer
    BY <2>2 DEF Hit
  <2> QED
    BY <1>1, <2>1, <2>3, <2>4 DEF UpdateKeyboardFocus, SurfaceUnder
<1>2. SeatInv /\ [SeatNext]_seatVars => [Click => Given]_seatVars
  BY <1>1
<1> QED
  BY <1>2, SeatInitInv, SeatNextInv, PTL DEF SeatSpec, PressFocusesUnder
=============================================================================
