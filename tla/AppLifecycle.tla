---------------------------- MODULE AppLifecycle ----------------------------
(***************************************************************************)
(* What the process promises about its own life, whatever the threads do:  *)
(* it is up, then it is stopping, then it is gone.  A worker that went     *)
(* down never comes back, the application does not survive it, and a clean *)
(* end happens only after every worker was told to stop or was already     *)
(* down.  Threads.tla implements this specification.                       *)
(***************************************************************************)
CONSTANT Worker

VARIABLES
  stage,   \* "up", "stopping" or "gone"
  down,    \* the workers whose message loop has ended
  told,    \* the workers that were ordered to stop
  clean    \* did the process end with Ok(())?

vars == <<stage, down, told, clean>>

TypeOK ==
  /\ stage \in {"up", "stopping", "gone"}
  /\ down \subseteq Worker
  /\ told \subseteq Worker
  /\ clean \in BOOLEAN

Init ==
  /\ stage = "up"
  /\ down = {}
  /\ told = {}
  /\ clean = FALSE

\* A worker's loop ends: by order, by an error or by a panic.
GoDown(w) ==
  /\ stage # "gone"
  /\ w \notin down
  /\ down' = down \cup {w}
  /\ UNCHANGED <<stage, told, clean>>

\* The application decides to stop.
BeginStop ==
  /\ stage = "up"
  /\ stage' = "stopping"
  /\ UNCHANGED <<down, told, clean>>

\* A worker is ordered to stop, once, and only while the process stops.
Tell(w) ==
  /\ stage = "stopping"
  /\ w \notin told \cup down
  /\ told' = told \cup {w}
  /\ UNCHANGED <<stage, down, clean>>

\* The process ends in good order: nobody was left without an order.
EndClean ==
  /\ stage = "stopping"
  /\ told \cup down = Worker
  /\ stage' = "gone"
  /\ clean' = TRUE
  /\ UNCHANGED <<down, told>>

\* The process ends because the main thread itself failed.
EndFailed ==
  /\ stage # "gone"
  /\ stage' = "gone"
  /\ UNCHANGED <<down, told, clean>>

Next ==
  \/ \E w \in Worker : GoDown(w) \/ Tell(w)
  \/ BeginStop
  \/ EndClean
  \/ EndFailed

\* Stopping is urgent once a worker is down, and a process that is stopping
\* or has lost a worker ends.
Ends == (stage = "stopping" \/ down # {}) ~> (stage = "gone")

Spec == Init /\ [][Next]_vars

LiveSpec == Spec /\ Ends
=============================================================================
