-------------------------- MODULE RenderScheduler ---------------------------
(***************************************************************************)
(* When the udev backend repaints an output (scape-display/src/udev.rs):   *)
(* a request to render becomes an idle of the display loop, or waits while *)
(* the surface is pending, from the vblank until the repaint timer; idles  *)
(* and timers outlive the surface they were made for, connectors come and  *)
(* go, and the session is paused and resumed.                              *)
(*                                                                         *)
(* A surface is named by its crtc.  An idle or a timer is only counted:    *)
(* they may run in any order, which includes the order calloop runs them.  *)
(***************************************************************************)
EXTENDS Naturals

CONSTANTS
  Crtc,       \* the crtcs of all devices
  CardOnly,   \* those of devices without a render node: both nodes are one
  MaxTimers,  \* bound: repaint timers of one crtc
  MaxIdles    \* bound: idles of one crtc left when a connector returns

ASSUME SchedulerAssumption ==
  /\ CardOnly \subseteq Crtc
  /\ MaxTimers \in Nat \ {0}
  /\ MaxIdles \in Nat \ {0}

VARIABLES
  surfaces,   \* the crtcs that have a surface (and its output)
  active,     \* the outputs that have an ActiveSpace
  started,    \* State.started_outputs
  scheduled,  \* SurfaceData.scheduled, waiting_for_schedule and pending
  waiting,
  pending,
  idles,      \* the render idles of each crtc in the loop
  retries,    \* its idles that retry the initial render
  timers,     \* its repaint timers
  flips,      \* frames handed to the compositor and not yet presented
  paused,     \* State.session_paused
  owed        \* history: a render was requested, none was attempted since

flags == <<scheduled, waiting, pending>>
outputVars == <<surfaces, active, started>>
vars == <<outputVars, flags, idles, retries, timers, flips, paused, owed>>

TypeOK ==
  /\ surfaces \subseteq Crtc
  /\ active \subseteq Crtc
  /\ started \subseteq Crtc
  /\ scheduled \subseteq Crtc
  /\ waiting \subseteq Crtc
  /\ pending \subseteq Crtc
  /\ idles \in [Crtc -> Nat]
  /\ retries \in [Crtc -> Nat]
  /\ timers \in [Crtc -> Nat]
  /\ flips \in [Crtc -> 0 .. 2]
  /\ paused \in BOOLEAN
  /\ owed \subseteq Crtc

Init ==
  /\ surfaces = {}
  /\ active = {}
  /\ started = {}
  /\ scheduled = {}
  /\ waiting = {}
  /\ pending = {}
  /\ idles = [c \in Crtc |-> 0]
  /\ retries = [c \in Crtc |-> 0]
  /\ timers = [c \in Crtc |-> 0]
  /\ flips = [c \in Crtc |-> 0]
  /\ paused = FALSE
  /\ owed = {}

\* A function of crtcs with one value changed by one.
Inc(f, c) == [f EXCEPT ![c] = @ + 1]
Dec(f, c) == [f EXCEPT ![c] = @ - 1]

\* DrmCompositor::queue_frame: one frame flips, the latest one is queued.
Queued(f, S) == [c \in Crtc |-> IF c \in S /\ f[c] < 2 THEN f[c] + 1 ELSE f[c]]

-----------------------------------------------------------------------------
(* Requests *)

\* Mutant: a request for a pending surface is dropped.
ScheduleIdle(S, ready) ==
  /\ scheduled' = scheduled \cup (S \cap ready)
  /\ idles' = [c \in Crtc |-> IF c \in (S \cap ready) \ scheduled THEN idles[c] + 1 ELSE idles[c]]
  /\ UNCHANGED waiting

\* schedule_render for the surfaces S, of which those in ready are not pending.
Schedule(S, ready) ==
  /\ scheduled' = scheduled \cup (S \cap ready)
  /\ idles' = [c \in Crtc |-> IF c \in (S \cap ready) \ scheduled THEN idles[c] + 1 ELSE idles[c]]
  /\ waiting' = waiting \cup ((S \ ready) \ scheduled)

\* A commit, pointer motion, the debug UI (all surfaces) or a screen copy (one).
RequestRender(S) ==
  /\ Schedule(S, Crtc \ pending)
  /\ owed' = owed \cup S
  /\ UNCHANGED <<outputVars, pending, retries, timers, flips, paused>>

Commit == RequestRender(surfaces)
Screencopy == \E c \in surfaces : RequestRender({c})

\* The idle of schedule_render and render_surface_crtc.  An output without an
\* active space is only reported; a paused device refuses the frame; what else
\* goes wrong is ignored, and a frame without damage is not queued.
RunIdle(c) ==
  /\ idles[c] > 0
  /\ idles' = Dec(idles, c)
  /\ scheduled' = scheduled \ {c}
  /\ IF c \in surfaces /\ c \in active /\ paused
       THEN UNCHANGED <<owed, flips>>
       ELSE /\ owed' = owed \ {c}
            /\ \/ UNCHANGED flips
               \/ c \in surfaces \cap active /\ flips' = Queued(flips, {c})
  /\ UNCHANGED <<outputVars, waiting, pending, retries, timers, paused>>

-----------------------------------------------------------------------------
(* Frames *)

\* Mutant: pending is set before the early return for an output without a mode.
PendingFirst(c) ==
  /\ flips[c] > 0
  /\ flips' = Dec(flips, c)
  /\ pending' = IF c \in surfaces THEN pending \cup {c} ELSE pending
  /\ UNCHANGED <<outputVars, scheduled, waiting, idles, retries, timers, paused, owed>>

\* frame_finish for the vblank of a crtc.  The surface becomes pending with a
\* timer of its own, unless it is gone or the frame failed.
VBlank(c) ==
  /\ flips[c] > 0
  /\ timers[c] < MaxTimers
  /\ flips' = Dec(flips, c)
  /\ \/ UNCHANGED <<pending, timers>>
     \/ /\ c \in surfaces
        /\ pending' = pending \cup {c}
        /\ timers' = Inc(timers, c)
  /\ UNCHANGED <<outputVars, scheduled, waiting, idles, retries, paused, owed>>

\* Mutant: the waiting request is forgotten.
TimerForgets(c) ==
  /\ timers[c] > 0
  /\ timers' = Dec(timers, c)
  /\ pending' = pending \ {c}
  /\ waiting' = waiting \ {c}
  /\ UNCHANGED <<outputVars, scheduled, idles, retries, flips, paused, owed>>

\* The repaint timer: the surface of this crtc, whichever it is by now, is no
\* longer pending and a request that waits is scheduled.
TimerFires(c) ==
  /\ timers[c] > 0
  /\ timers' = Dec(timers, c)
  /\ pending' = pending \ {c}
  /\ waiting' = waiting \ {c}
  /\ IF c \in waiting \ scheduled
       THEN scheduled' = scheduled \cup {c} /\ idles' = Inc(idles, c)
       ELSE UNCHANGED <<scheduled, idles>>
  /\ UNCHANGED <<outputVars, retries, flips, paused, owed>>

-----------------------------------------------------------------------------
(* Outputs *)

\* connector_connected with a crtc: a new surface and a new output.
Connect(c) ==
  /\ c \notin surfaces
  /\ idles[c] + retries[c] < MaxIdles
  /\ surfaces' = surfaces \cup {c}
  /\ UNCHANGED <<active, started, flags, idles, retries, timers, flips, paused, owed>>

\* connector_disconnected, also for each crtc of a removed device: the surface
\* is dropped with its flags, its idles and timers stay.
Disconnect(c) ==
  /\ c \in surfaces
  /\ surfaces' = surfaces \ {c}
  /\ active' = active \ {c}
  /\ started' = started \ {c}
  /\ scheduled' = scheduled \ {c}
  /\ waiting' = waiting \ {c}
  /\ pending' = pending \ {c}
  /\ owed' = owed \ {c}
  /\ UNCHANGED <<idles, retries, timers, flips, paused>>

\* set_layout for the outputs S and start_outputs, which goes through all
\* outputs in any order and returns at the first that is already started.  Each
\* output it starts gets an initial render, which may fail for the time being.
SetLayout(S) ==
  \E T \in SUBSET (surfaces \ started) : \E failed \in SUBSET T :
    /\ surfaces \cap started = {} => T = surfaces
    /\ active' = active \cup S
    /\ started' = started \cup T
    /\ flips' = Queued(flips, T \ failed)
    /\ retries' = [c \in Crtc |-> IF c \in failed THEN retries[c] + 1 ELSE retries[c]]
    /\ UNCHANGED <<surfaces, flags, idles, timers, paused, owed>>

\* The idle that retries the initial render looks the device up by its render
\* node, while devices are kept by the node they were added with.
RetryInitial(c) ==
  /\ retries[c] > 0
  /\ IF c \in surfaces \cap CardOnly
       THEN \/ UNCHANGED <<retries, flips>>
            \/ /\ retries' = Dec(retries, c)
               /\ flips' = Queued(flips, {c})
       ELSE retries' = Dec(retries, c) /\ UNCHANGED flips
  /\ UNCHANGED <<outputVars, flags, idles, timers, paused, owed>>

-----------------------------------------------------------------------------
(* The session *)

PauseSession ==
  /\ ~paused
  /\ paused' = TRUE
  /\ UNCHANGED <<outputVars, flags, idles, retries, timers, flips, owed>>

\* The compositors are reset, which may drop their frames, and all is rendered.
ActivateSession ==
  /\ paused
  /\ paused' = FALSE
  /\ \E lost \in SUBSET Crtc : flips' = [c \in Crtc |-> IF c \in lost THEN 0 ELSE flips[c]]
  /\ Schedule(surfaces, Crtc \ pending)
  /\ owed' = owed \cup surfaces
  /\ UNCHANGED <<outputVars, pending, retries, timers>>

-----------------------------------------------------------------------------
Next ==
  \/ Commit
  \/ Screencopy
  \/ \E c \in Crtc : RunIdle(c) \/ VBlank(c) \/ TimerFires(c)
  \/ \E c \in Crtc : Connect(c) \/ Disconnect(c) \/ RetryInitial(c)
  \/ \E S \in SUBSET surfaces : SetLayout(S)
  \/ PauseSession
  \/ ActivateSession

Spec == Init /\ [][Next]_vars

-----------------------------------------------------------------------------
(* Properties *)

\* No update is lost between the flags of a surface, its idles and its timers,
\* also when some of them belong to an earlier surface of the crtc: a request
\* that was not yet tried has an idle or a timer that will serve it, unless the
\* session is paused, and then its return serves all.
UpdatesAreKept ==
  \A c \in owed \cap surfaces :
    \/ c \in scheduled /\ idles[c] > 0
    \/ c \in waiting /\ timers[c] > 0
    \/ paused

\* A pending surface, which nothing can schedule, has a timer that ends this.
PendingEnds == \A c \in pending : timers[c] > 0
=============================================================================
