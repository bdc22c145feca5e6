--------------------------- MODULE ThreadsProofs ----------------------------
(* Proofs about Threads.tla for every set of workers and every order of      *)
(* spawning and notifying them.                                              *)
EXTENDS Threads, TLAPS

-----------------------------------------------------------------------------
(* The type invariant *)

LEMMA InitTypeOK == Init => TypeOK
BY DEF Init, TypeOK

LEMMA NextTypeOK == TypeOK /\ [Next]_vars => TypeOK'
<1> SUFFICES ASSUME TypeOK, [Next]_vars PROVE TypeOK'
  OBVIOUS
<1> USE DEF TypeOK, mainVars, workerVars
<1>1. CASE MainStep
  BY <1>1 DEF MainStep, SpawnThread, Notify, FirstShutdown, LaterShutdown,
              ArmForceTimer, ForceTimerFires, Check, Exit, Leave
<1>2. CASE MainFailure
  BY <1>2 DEF MainFailure, SpawnFails, MainLoopFails, Leave
<1>3. ASSUME NEW w \in Worker, WorkerStep(w) PROVE TypeOK'
  BY <1>3 DEF WorkerStep, Started, Fails, RequestShutdown, LostPeer, HandleShutdown,
              StopLoop, SendLast, Finish, SendMain, MainOpen
<1>4. CASE UNCHANGED vars
  BY <1>4 DEF vars
<1> QED
  BY <1>1, <1>2, <1>3, <1>4 DEF Next

\* Every variable keeps its type.
THEOREM TypeCorrect == Spec => []TypeOK
BY InitTypeOK, NextTypeOK, PTL DEF Spec

-----------------------------------------------------------------------------
(* The safety properties need to know where in the shutdown main is.         *)

\* Main shuts down exactly between its first Shutdown and its end.
Progress ==
  /\ main = "spawn" => ~shutting_down
  /\ main \in {"notify", "check"} \/ timer \/ force_shutting_down => shutting_down
  /\ main # "notify" => unnotified = {}
  /\ result = "ok" => shutting_down /\ ~MainOpen

\* A timer or the decision to force the end backs every wait.
Guarded ==
  shutting_down =>
    /\ main = "poll" => timer
    /\ main = "check" => timer \/ force_shutting_down

\* During and after the broadcast: who has not been reached is still listed.
Reached ==
  shutting_down => \A w \in Worker : w \in unnotified \/ ~Open(w) \/ inbox[w] \/ stopping[w]

\* Orders exist only where the broadcast has been.
OrderComesFromMain ==
  \A w \in Worker : inbox[w] \/ stopping[w] => shutting_down /\ w \notin unnotified

IInv == TypeOK /\ Progress /\ Guarded /\ Reached /\ OrderComesFromMain /\ DeathNoticed

LEMMA InitIInv == Init => IInv
BY InitTypeOK DEF Init, IInv, Progress, Guarded, Reached, OrderComesFromMain,
                  DeathNoticed, MainOpen, Open

LEMMA MainStepIInv ==
  ASSUME IInv, MainStep
  PROVE  IInv'
<1>0. TypeOK'
  BY NextTypeOK DEF IInv, Next
<1> USE DEF IInv, TypeOK, Progress, Guarded, Reached, OrderComesFromMain, DeathNoticed,
            MainOpen, Open, mainVars, workerVars
<1>1. ASSUME NEW w \in Worker, SpawnThread(w) PROVE IInv'
  BY <1>0, <1>1 DEF SpawnThread, Unspawned, First
<1>2. ASSUME NEW w \in Worker, Notify(w) PROVE IInv'
  BY <1>0, <1>2 DEF Notify, First
<1>3. CASE FirstShutdown
  BY <1>0, <1>3 DEF FirstShutdown
<1>4. CASE LaterShutdown
  BY <1>0, <1>4 DEF LaterShutdown
<1>5. CASE ArmForceTimer
  BY <1>0, <1>5 DEF ArmForceTimer
<1>6. CASE ForceTimerFires
  BY <1>0, <1>6 DEF ForceTimerFires
<1>7. CASE Check
  BY <1>0, <1>7 DEF Check, Leave, MayStop
<1>8. CASE Exit
  BY <1>0, <1>8 DEF Exit
<1> QED
  BY <1>1, <1>2, <1>3, <1>4, <1>5, <1>6, <1>7, <1>8 DEF MainStep

LEMMA NextIInv == IInv /\ [Next]_vars => IInv'
<1> SUFFICES ASSUME IInv, [Next]_vars PROVE IInv'
  OBVIOUS
<1>0. TypeOK'
  BY NextTypeOK DEF IInv
<1>1. CASE MainStep
  BY <1>1, MainStepIInv
<1> USE DEF IInv, TypeOK, Progress, Guarded, Reached, OrderComesFromMain, DeathNoticed,
            MainOpen, Open, mainVars, workerVars
<1>2. CASE MainFailure
  BY <1>0, <1>2 DEF MainFailure, SpawnFails, MainLoopFails, Leave
<1>3. ASSUME NEW w \in Worker, WorkerStep(w) PROVE IInv'
  <2>1. CASE Started(w) \/ Fails(w) \/ StopLoop(w) \/ Finish(w)
    BY <1>0, <2>1 DEF Started, Fails, StopLoop, Finish, Active
  <2>2. CASE RequestShutdown(w) \/ \E v \in Worker : LostPeer(w, v)
    BY <1>0, <2>2 DEF RequestShutdown, LostPeer, SendMain, Active
  <2>3. CASE HandleShutdown(w)
    BY <1>0, <2>3 DEF HandleShutdown, Active
  <2>4. CASE SendLast(w)
    BY <1>0, <2>4 DEF SendLast
  <2> QED
    BY <1>3, <2>1, <2>2, <2>3, <2>4 DEF WorkerStep
<1>4. CASE UNCHANGED vars
  BY <1>4 DEF vars
<1> QED
  BY <1>1, <1>2, <1>3, <1>4 DEF Next

THEOREM Invariance == Spec => []IInv
BY InitIInv, NextIInv, PTL DEF Spec

-----------------------------------------------------------------------------
(* What follows from it *)

\* No death of a thread is overlooked.
THEOREM DeathsAreNoticed == Spec => []DeathNoticed
<1>1. IInv => DeathNoticed
  BY DEF IInv
<1> QED
  BY <1>1, Invariance, PTL

\* run_app returns Ok only after every live worker has its order.
THEOREM NobodyIsForgotten == Spec => []NobodyForgotten
<1>1. IInv => NobodyForgotten
  BY DEF IInv, NobodyForgotten, Progress, Reached, MainOpen, TypeOK
<1> QED
  BY <1>1, Invariance, PTL

\* A shutting-down main thread always has a timer to wake it.
THEOREM MainIsWoken == Spec => []NeverSleepsForever
<1>1. IInv => NeverSleepsForever
  BY DEF IInv, NeverSleepsForever, Guarded
<1> QED
  BY <1>1, Invariance, PTL

\* The order to stop reaches a worker at most once.
THEOREM OrdersAreUnique == Spec => OrderedOnce
<1> DEFINE Once == \A w \in Worker : inbox'[w] /\ ~inbox[w] => ~stopping[w]
<1>1. IInv /\ [Next]_vars => [Once]_vars
  <2> SUFFICES ASSUME IInv, Next, NEW w \in Worker, inbox'[w], ~inbox[w]
               PROVE  ~stopping[w]
    OBVIOUS
  <2>1. PICK v \in Worker : Notify(v)
    BY DEF Next, MainStep, MainFailure, WorkerStep, SpawnThread, FirstShutdown,
           LaterShutdown, ArmForceTimer, ForceTimerFires, Check, Exit, SpawnFails,
           MainLoopFails, Started, Fails, RequestShutdown, LostPeer, HandleShutdown,
           StopLoop, SendLast, Finish, workerVars, IInv, TypeOK
  <2>2. v = w /\ w \in unnotified
    BY <2>1 DEF Notify, First, IInv, TypeOK
  <2> QED
    BY <2>2 DEF IInv, OrderComesFromMain
<1> QED
  BY <1>1, Invariance, PTL DEF Spec, OrderedOnce

-----------------------------------------------------------------------------
(* The refinement of AppLifecycle (its safety part; TLC checks the liveness) *)

LEMMA InitRefines == Init => Life!Init
BY DEF Init, Life!Init, Stage, Down, Told, Clean

LEMMA MainStepRefines ==
  ASSUME IInv, MainStep
  PROVE  Life!Next \/ UNCHANGED Life!vars
<1> USE DEF Life!vars, mainVars, workerVars, Stage, Down, Told, Clean
<1>1. ASSUME NEW w \in Worker, SpawnThread(w) PROVE UNCHANGED Life!vars
  BY <1>1 DEF SpawnThread, Unspawned, First, IInv, TypeOK
<1>2. ASSUME NEW w \in Worker, Notify(w) PROVE Life!Tell(w) \/ UNCHANGED Life!vars
  <2>1. /\ w \in unnotified /\ main = "notify" /\ main' = main
        /\ shutting_down /\ UNCHANGED <<shutting_down, phase, stopping, result>>
        /\ ~inbox[w] /\ ~stopping[w]
    BY <1>2 DEF Notify, First, IInv, TypeOK, Progress, OrderComesFromMain
  <2>2. CASE Open(w)
    <3>1. inbox' = [inbox EXCEPT ![w] = TRUE]
      BY <1>2, <2>2 DEF Notify
    <3>2. w \notin Told /\ w \notin Down /\ Told' = Told \cup {w}
      BY <2>1, <2>2, <3>1 DEF Told, Down, Open, IInv, TypeOK
    <3> QED
      BY <2>1, <3>2 DEF Life!Tell, Told, Down
  <2>3. CASE ~Open(w)
    BY <1>2, <2>1, <2>3 DEF Notify
  <2> QED
    BY <2>2, <2>3
<1>3. FirstShutdown => Life!BeginStop
  BY DEF FirstShutdown, Life!BeginStop
<1>4. LaterShutdown \/ ArmForceTimer \/ ForceTimerFires \/ Check => UNCHANGED Life!vars
  BY DEF LaterShutdown, ArmForceTimer, ForceTimerFires, Check, Leave
<1>5. CASE Exit
  <2>1. /\ Stage # "gone" /\ Stage' = "gone"
        /\ Down' = Down /\ Told' = Told
        /\ Clean = FALSE /\ Clean' = (result = "ok")
    BY <1>5 DEF Exit, Stage, Down, Told, Clean
  <2>2. CASE result = "ok"
    <3>1. Stage = "stopping" /\ Told \cup Down = Worker
      BY <1>5, <2>2 DEF Exit, IInv, TypeOK, Progress, Reached, MainOpen, Open,
                        Told, Down, Stage
    <3>2. Clean' = TRUE
      BY <2>1, <2>2
    <3>3. Life!EndClean
      BY <2>1, <3>1, <3>2 DEF Life!EndClean, Stage, Told, Down, Clean
    <3> QED
      BY <3>3 DEF Life!Next
  <2>3. CASE result # "ok"
    <3>1. Clean' = Clean
      BY <2>1, <2>3
    <3>2. Life!EndFailed
      BY <2>1, <3>1 DEF Life!EndFailed, Stage, Told, Down, Clean
    <3> QED
      BY <3>2 DEF Life!Next
  <2> QED
    BY <2>2, <2>3
<1> QED
  BY <1>1, <1>2, <1>3, <1>4, <1>5 DEF MainStep, Life!Next

LEMMA WorkerStepRefines ==
  ASSUME IInv, NEW w \in Worker, WorkerStep(w)
  PROVE  Life!Next \/ UNCHANGED Life!vars
<1> USE DEF Life!vars, mainVars, workerVars, Stage, Down, Told, Clean
<1> DEFINE Closes == main # "exited" /\ Open(w) /\ phase' = [phase EXCEPT ![w] = "closed"]
<1>1. Closes /\ UNCHANGED <<mainVars, inbox, stopping>> => Life!GoDown(w)
  BY DEF Life!GoDown, IInv, TypeOK, Open
<1>2. Fails(w) \/ StopLoop(w) => Closes /\ UNCHANGED <<mainVars, inbox, stopping>>
  BY DEF Fails, StopLoop, Active, Open
<1>3. ASSUME RequestShutdown(w) \/ \E v \in Worker : LostPeer(w, v)
      PROVE  /\ UNCHANGED <<mainVars, inbox, stopping>>
             /\ Closes \/ UNCHANGED phase
  BY <1>3 DEF RequestShutdown, LostPeer, SendMain, Active, Open
<1>4. Started(w) \/ SendLast(w) \/ Finish(w) => UNCHANGED Life!vars
  BY DEF Started, SendLast, Finish, Active, IInv, TypeOK
<1>5. HandleShutdown(w) => UNCHANGED Life!vars
  BY DEF HandleShutdown, IInv, TypeOK
<1> HIDE DEF Closes
<1> QED
  BY <1>1, <1>2, <1>3, <1>4, <1>5 DEF WorkerStep, Life!Next

\* The threads implement the safety part of AppLifecycle: no worker comes back,
\* orders follow the decision to stop, and a clean end leaves nobody unordered.
THEOREM LifecycleSafety == Spec => Life!Spec
<1>1. IInv /\ [Next]_vars => [Life!Next]_Life!vars
  <2> SUFFICES ASSUME IInv, [Next]_vars PROVE Life!Next \/ UNCHANGED Life!vars
    OBVIOUS
  <2>1. CASE MainFailure
    BY <2>1 DEF MainFailure, SpawnFails, MainLoopFails, Leave, Life!vars, workerVars,
                Stage, Down, Told, Clean
  <2>2. CASE UNCHANGED vars
    BY <2>2 DEF vars, mainVars, workerVars, Life!vars, Stage, Down, Told, Clean
  <2> QED
    BY <2>1, <2>2, MainStepRefines, WorkerStepRefines DEF Next
<1> QED
  BY <1>1, InitRefines, Invariance, PTL DEF Spec, Life!Spec
=============================================================================
