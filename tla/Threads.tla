------------------------------ MODULE Threads ------------------------------
(***************************************************************************)
(* The threads of scape: the main thread (src/main.rs, run_app) and the    *)
(* worker threads it spawns (config, input, renderer, display), how a      *)
(* shutdown is requested, broadcast and waited for, and what happens when  *)
(* a thread dies.                                                          *)
(*                                                                         *)
(* The main channel carries one kind of message, Shutdown, and calloop     *)
(* drains it in one dispatch, so it is a Boolean: does it hold a message?  *)
(* A worker's other messages and events appear only through what they do   *)
(* to the threads: nothing, a request to stop, or the worker's death.      *)
(***************************************************************************)
EXTENDS Naturals

CONSTANTS
  Worker,       \* the worker threads
  SpawnRank,    \* the place of each worker in the order run_app spawns them
  NotifyRank    \* and in the order Shutdown is sent to them

ASSUME RankAssumption ==
  /\ SpawnRank \in [Worker -> Nat]
  /\ NotifyRank \in [Worker -> Nat]

VARIABLES
  main,                  \* where the main thread is
  result,                \* what run_app returned
  shutting_down,         \* MainData.shutting_down
  force_shutting_down,   \* MainData.force_shutting_down
  timer,                 \* is the force timer in the main loop?
  requested,             \* does the main channel hold a Shutdown?
  unnotified,            \* the workers the broadcast has still to reach
  phase,                 \* where each worker is
  inbox,                 \* does the worker's channel hold a Shutdown?
  stopping               \* the runner's own shutting_down flag

mainVars == <<main, result, shutting_down, force_shutting_down, timer, unnotified>>
workerVars == <<phase, inbox, stopping>>
vars == <<mainVars, requested, workerVars>>

TypeOK ==
  /\ main \in {"spawn", "poll", "notify", "check", "left", "exited"}
  /\ result \in {"none", "ok", "error"}
  /\ shutting_down \in BOOLEAN
  /\ force_shutting_down \in BOOLEAN
  /\ timer \in BOOLEAN
  /\ requested \in BOOLEAN
  /\ unnotified \subseteq Worker
  /\ phase \in [Worker -> {"unspawned", "starting", "running", "closed", "sent", "finished"}]
  /\ inbox \in [Worker -> BOOLEAN]
  /\ stopping \in [Worker -> BOOLEAN]

\* run_app keeps the receiver of the main channel until it returns.
MainOpen == main \notin {"left", "exited"}

\* A worker's receiver lives in run_app until the thread is spawned and in
\* the thread's event loop until run_message_loop returns or unwinds.
Open(w) == phase[w] \in {"unspawned", "starting", "running"}

\* The worker's own code (R::new or its event loop) runs.
Active(w) == main # "exited" /\ phase[w] \in {"starting", "running"}

\* The first of a set of workers under a rank.
First(w, S, rank) == w \in S /\ \A v \in S : rank[w] <= rank[v]

Unspawned == {w \in Worker : phase[w] = "unspawned"}

Init ==
  /\ main = "spawn"
  /\ result = "none"
  /\ shutting_down = FALSE
  /\ force_shutting_down = FALSE
  /\ timer = FALSE
  /\ requested = FALSE
  /\ unnotified = {}
  /\ phase = [w \in Worker |-> "unspawned"]
  /\ inbox = [w \in Worker |-> FALSE]
  /\ stopping = [w \in Worker |-> FALSE]

-----------------------------------------------------------------------------
(* The main thread *)

\* run_app returns: its event loop, and with it the main channel, is dropped.
Leave(r) ==
  /\ main' = "left"
  /\ result' = r
  /\ requested' = FALSE

\* run_thread for the next worker; after the last one the main loop starts.
SpawnThread(w) ==
  /\ main = "spawn"
  /\ First(w, Unspawned, SpawnRank)
  /\ phase' = [phase EXCEPT ![w] = "starting"]
  /\ main' = IF Unspawned = {w} THEN "poll" ELSE main
  /\ UNCHANGED <<result, shutting_down, force_shutting_down, timer, unnotified,
                 requested, inbox, stopping>>

\* The thread cannot be spawned: run_app returns the error at once.
SpawnFails ==
  /\ main = "spawn"
  /\ Unspawned # {}
  /\ Leave("error")
  /\ UNCHANGED <<shutting_down, force_shutting_down, timer, unnotified, workerVars>>

\* The handler of the main channel for the first Shutdown.
FirstShutdown ==
  /\ main = "poll"
  /\ requested
  /\ ~shutting_down
  /\ shutting_down' = TRUE
  /\ requested' = FALSE
  /\ unnotified' = Worker
  /\ main' = "notify"
  /\ UNCHANGED <<result, force_shutting_down, timer, workerVars>>

\* Every later Shutdown only wakes the loop up.
LaterShutdown ==
  /\ main = "poll"
  /\ requested
  /\ shutting_down
  /\ requested' = FALSE
  /\ main' = "check"
  /\ UNCHANGED <<result, shutting_down, force_shutting_down, timer, unnotified, workerVars>>

\* Comms::input, display, renderer and config: a Shutdown to one worker.  When
\* its receiver is gone a Shutdown goes to main instead, which is still there.
Notify(w) ==
  /\ main = "notify"
  /\ First(w, unnotified, NotifyRank)
  /\ unnotified' = unnotified \ {w}
  /\ IF Open(w)
       THEN /\ inbox' = [inbox EXCEPT ![w] = TRUE]
            /\ UNCHANGED requested
       ELSE /\ requested' = TRUE
            /\ UNCHANGED inbox
  /\ UNCHANGED <<main, result, shutting_down, force_shutting_down, timer, phase, stopping>>

\* Mutant: a lost worker ends the handler before everyone has the order.
ArmForceTimerEarly ==
  /\ main = "notify"
  /\ timer' = TRUE
  /\ main' = "check"
  /\ requested' = FALSE
  /\ UNCHANGED <<result, shutting_down, force_shutting_down, unnotified, workerVars>>

\* Mutant: the failure to insert the timer is only logged.
ArmForceTimerOrNot ==
  /\ main = "notify"
  /\ unnotified = {}
  /\ timer' \in BOOLEAN
  /\ main' = "check"
  /\ requested' = FALSE
  /\ UNCHANGED <<result, shutting_down, force_shutting_down, unnotified, workerVars>>

\* The end of the handler: the timer is inserted, or the shutdown is forced.
\* The dispatch then drains what has arrived in the channel meanwhile.
ArmForceTimer ==
  /\ main = "notify"
  /\ unnotified = {}
  /\ \/ timer' = TRUE /\ UNCHANGED force_shutting_down
     \/ force_shutting_down' = TRUE /\ UNCHANGED timer
  /\ main' = "check"
  /\ requested' = FALSE
  /\ UNCHANGED <<result, shutting_down, unnotified, workerVars>>

\* Mutant: the timer wakes main up and forces nothing.
TimerOnlyWakes ==
  /\ main = "poll"
  /\ timer
  /\ timer' = FALSE
  /\ main' = "check"
  /\ UNCHANGED <<result, shutting_down, force_shutting_down, unnotified, requested, workerVars>>

\* The callback of the timer, which drops itself.
ForceTimerFires ==
  /\ main = "poll"
  /\ timer
  /\ timer' = FALSE
  /\ force_shutting_down' = TRUE
  /\ main' = "check"
  /\ UNCHANGED <<result, shutting_down, unnotified, requested, workerVars>>

\* The condition of the loop callback.
MayStop ==
  \/ shutting_down /\ \A w \in Worker : phase[w] = "finished"
  \/ force_shutting_down

\* The loop callback after a dispatch: stop the loop or wait again.
Check ==
  /\ main = "check"
  /\ \/ MayStop /\ Leave("ok")
     \/ ~MayStop /\ main' = "poll" /\ UNCHANGED <<result, requested>>
  /\ UNCHANGED <<shutting_down, force_shutting_down, timer, unnotified, workerVars>>

\* EventLoop::run returns an error.
MainLoopFails ==
  /\ main = "poll"
  /\ Leave("error")
  /\ UNCHANGED <<shutting_down, force_shutting_down, timer, unnotified, workerVars>>

\* main() returns: the process ends and takes every thread with it.
Exit ==
  /\ main = "left"
  /\ main' = "exited"
  /\ UNCHANGED <<result, shutting_down, force_shutting_down, timer, unnotified,
                 requested, workerVars>>

-----------------------------------------------------------------------------
(* The workers *)

\* R::new succeeds and the message loop starts.
Started(w) ==
  /\ Active(w)
  /\ phase[w] = "starting"
  /\ phase' = [phase EXCEPT ![w] = "running"]
  /\ UNCHANGED <<mainVars, requested, inbox, stopping>>

\* R::new fails, the loop returns an error, or a callback panics.
Fails(w) ==
  /\ Active(w)
  /\ phase' = [phase EXCEPT ![w] = "closed"]
  /\ UNCHANGED <<mainVars, requested, inbox, stopping>>

\* A Shutdown to main from the worker's code, which panics without main.
SendMain(w) ==
  IF MainOpen
    THEN requested' = TRUE /\ UNCHANGED phase
    ELSE phase' = [phase EXCEPT ![w] = "closed"] /\ UNCHANGED requested

\* The worker asks the application to stop (quit, no GPU left to open, ...).
RequestShutdown(w) ==
  /\ Active(w)
  /\ SendMain(w)
  /\ UNCHANGED <<mainVars, inbox, stopping>>

\* Comms::display, renderer, input and config from a worker to one whose
\* receiver is gone.
LostPeer(w, v) ==
  /\ Active(w)
  /\ ~Open(v)
  /\ SendMain(w)
  /\ UNCHANGED <<mainVars, inbox, stopping>>

\* handle_message(Shutdown) of the four runners.
HandleShutdown(w) ==
  /\ Active(w)
  /\ phase[w] = "running"
  /\ inbox[w]
  /\ inbox' = [inbox EXCEPT ![w] = FALSE]
  /\ stopping' = [stopping EXCEPT ![w] = TRUE]
  /\ UNCHANGED <<mainVars, requested, phase>>

\* on_dispatch_wait stops the loop; run_message_loop drops its receiver.
StopLoop(w) ==
  /\ Active(w)
  /\ phase[w] = "running"
  /\ stopping[w]
  /\ phase' = [phase EXCEPT ![w] = "closed"]
  /\ UNCHANGED <<mainVars, requested, inbox, stopping>>

\* Mutant: a thread that panicked ends without a word.
EndSilently(w) ==
  /\ main # "exited"
  /\ phase[w] = "closed"
  /\ phase' = [phase EXCEPT ![w] = "sent"]
  /\ UNCHANGED <<mainVars, requested, inbox, stopping>>

\* The last thing every thread does, however it ended; an error is only logged.
SendLast(w) ==
  /\ main # "exited"
  /\ phase[w] = "closed"
  /\ phase' = [phase EXCEPT ![w] = "sent"]
  /\ requested' = (requested \/ MainOpen)
  /\ UNCHANGED <<mainVars, inbox, stopping>>

\* The thread's closure has returned: is_finished becomes true only now.
Finish(w) ==
  /\ main # "exited"
  /\ phase[w] = "sent"
  /\ phase' = [phase EXCEPT ![w] = "finished"]
  /\ UNCHANGED <<mainVars, requested, inbox, stopping>>

-----------------------------------------------------------------------------
MainStep ==
  \/ \E w \in Worker : SpawnThread(w) \/ Notify(w)
  \/ FirstShutdown
  \/ LaterShutdown
  \/ ArmForceTimer
  \/ ForceTimerFires
  \/ Check
  \/ Exit

MainFailure == SpawnFails \/ MainLoopFails

WorkerStep(w) ==
  \/ Started(w)
  \/ Fails(w)
  \/ RequestShutdown(w)
  \/ \E v \in Worker : LostPeer(w, v)
  \/ HandleShutdown(w)
  \/ StopLoop(w)
  \/ SendLast(w)
  \/ Finish(w)

Next == MainStep \/ MainFailure \/ \E w \in Worker : WorkerStep(w)

Spec == Init /\ [][Next]_vars

\* The main thread runs, and so does the end of a thread's closure.  A dispatch
\* serves every source that is ready, so a due timer is not starved by a busy
\* channel.  Nothing is assumed of a worker's own code: it may block in a read
\* or in Lua, which is what the force timer is for.
Fairness ==
  /\ WF_vars(MainStep)
  /\ SF_vars(ForceTimerFires)
  /\ \A w \in Worker : WF_vars(SendLast(w) \/ Finish(w))

FairSpec == Spec /\ Fairness

-----------------------------------------------------------------------------
(* Properties *)

\* The death of a thread is never overlooked: once it has sent its last
\* message, the request waits in main's channel, or main is shutting down, or
\* main has left (run_thread sends it however the thread ended).
DeathNoticed ==
  \A w \in Worker :
    phase[w] \in {"sent", "finished"} => requested \/ shutting_down \/ ~MainOpen

\* When run_app returns Ok, no worker still runs without an order to stop, even
\* when the force timer ended the wait and workers died during the broadcast.
NobodyForgotten ==
  result = "ok" => \A w \in Worker : ~Open(w) \/ inbox[w] \/ stopping[w]

\* While it shuts down, main never sleeps without a timer that will wake it:
\* the loop has no timeout and a blocked worker never sends anything.
NeverSleepsForever == main = "poll" /\ shutting_down => timer

\* The broadcast happens once: a worker that has its order gets no second one,
\* although every dying thread sends main another Shutdown.
OrderedOnce ==
  [][\A w \in Worker : inbox'[w] /\ ~inbox[w] => ~stopping[w]]_vars

\* The threads keep the promises of AppLifecycle, the liveness one included:
\* after the first death or request the process ends, hung workers or not.
Stage == IF main = "exited" THEN "gone" ELSE IF shutting_down THEN "stopping" ELSE "up"
Down == {w \in Worker : phase[w] \in {"closed", "sent", "finished"}}
Told == {w \in Worker : inbox[w] \/ stopping[w]}
Clean == main = "exited" /\ result = "ok"

Life == INSTANCE AppLifecycle WITH
  stage <- Stage, down <- Down, told <- Told, clean <- Clean

Lifecycle == Life!LiveSpec
=============================================================================
