---------------------------- MODULE SeatSession -----------------------------
(***************************************************************************)
(* The input thread (scape-input) with its seat session, and the devices   *)
(* of the renderer thread (scape-renderer) that it opens.  libinput opens  *)
(* keyboards when they are plugged in and when the session is resumed, and *)
(* queues events; the handlers of Keyboard.tla take the keys from there.   *)
(*                                                                         *)
(* libinput is modelled as the code uses it: a device that is closed       *)
(* releases its keys first, and comes back as another device.  No key is   *)
(* held on two keyboards at once.                                          *)
(***************************************************************************)
EXTENDS Keyboard, Naturals, Sequences, FiniteSets, Functions, SequencesExt

CONSTANTS
  Board,       \* keyboards
  LockKey,     \* keys that may change the LEDs
  Gpu,         \* DRM devices
  MaxQueue,    \* bound: events that libinput queues before they are handled
  MaxSwitches, \* bound: pauses of the session
  MaxHeld,     \* bound: keys held at a time
  MaxMessages  \* bound: messages on their way when a GPU appears

ASSUME SeatSessionAssumption ==
  /\ LockKey \subseteq Key
  /\ IsFiniteSet(Key) /\ IsFiniteSet(Board) /\ IsFiniteSet(Gpu)
  /\ Gpu \cap {"created", "paused", "resumed"} = {}
  /\ MaxQueue \in Nat /\ MaxSwitches \in Nat /\ MaxHeld \in Nat /\ MaxMessages \in Nat

VARIABLES
  opened,      \* the keyboards that libinput has open
  held,        \* the keys that are down on each
  events,      \* libinput's queue of [kind, board] and [kind, key]
  lamps,       \* whether the LEDs of a keyboard are lit
  keyboards,   \* InputState.keyboards
  led,         \* KeyboardState.led_state
  session,     \* "active", "paused", or "deaf" when libinput did not resume
  switches,    \* history: pauses so far
  toInput,     \* requests to open a GPU
  toRenderer,  \* messages to the renderer, files among them
  known,       \* RendererState.known_drm_devices
  tested,      \* history: GPUs that a VulkanState was made for since they were asked for,
  refused,     \* and those that a handler gave up since then, with an error in the log
  threads      \* which of the two threads run

boardVars == <<opened, held, events, lamps, keyboards, led, session, switches>>
gpuVars == <<toInput, toRenderer, known, tested, refused>>
allVars == <<vars, boardVars, gpuVars, threads>>

On(b, kind) == [kind |-> kind, board |-> b]
Of(k, kind) == [kind |-> kind, key |-> k]

\* InputState::new: the renderer is told of the session before libinput opens
\* the keyboards, which may fail.
SessionInit ==
  /\ Init
  /\ opened \in SUBSET Board
  /\ held = [b \in Board |-> {}]
  /\ events \in SetToSeqs({On(b, "added") : b \in opened})
  /\ lamps \in [Board -> BOOLEAN]
  /\ keyboards = {}
  /\ led = FALSE
  /\ session = "active"
  /\ switches = 0
  /\ toInput = <<>>
  /\ toRenderer = <<"created">>
  /\ known = {}
  /\ tested = {}
  /\ refused = {}
  /\ threads \in {{"input", "renderer"}, {"renderer"}}
-----------------------------------------------------------------------------
(* libinput, which goes with the input thread *)

Holding == UNION Range(held)

KeyMoves(b, k) ==
  /\ "input" \in threads /\ b \in opened
  /\ Len(events) < MaxQueue
  /\ \/ /\ k \notin Holding /\ Cardinality(Holding) < MaxHeld
        /\ held' = [held EXCEPT ![b] = @ \cup {k}]
        /\ events' = Append(events, Of(k, "press"))
     \/ /\ k \in held[b]
        /\ held' = [held EXCEPT ![b] = @ \ {k}]
        /\ events' = Append(events, Of(k, "release"))
  /\ UNCHANGED <<vars, opened, lamps, keyboards, led, session, switches, gpuVars, threads>>

\* What keyboards that are closed leave in the queue.
Farewells(S) ==
  {s \in SetToSeqs({Of(k, "release") : k \in UNION {held[b] : b \in S}} \cup {On(b, "removed") : b \in S}) :
     \A b \in S : \A k \in held[b] : \A i, j \in DOMAIN s :
       s[i] = Of(k, "release") /\ s[j] = On(b, "removed") => i < j}

Close(S) ==
  /\ opened' = opened \ S
  /\ \E last \in Farewells(S) : events' = events \o last
  /\ held' = [b \in Board |-> IF b \in S THEN {} ELSE held[b]]
  /\ UNCHANGED lamps

OpenBoards(S) ==
  /\ opened' = opened \cup S
  /\ \E first \in SetToSeqs({On(b, "added") : b \in S}) : events' = events \o first
  /\ lamps' \in {l \in [Board -> BOOLEAN] : \A b \in Board \ S : l[b] = lamps[b]}
  /\ UNCHANGED held

Hotplug(b) ==
  /\ "input" \in threads /\ session = "active"
  /\ Len(events) < MaxQueue
  /\ IF b \in opened THEN Close({b}) ELSE OpenBoards({b})
  /\ UNCHANGED <<vars, keyboards, led, session, switches, gpuVars, threads>>

\* A pointer, a finger or a tablet: the handler is todo!().
OtherEvent ==
  /\ "input" \in threads /\ session = "active" /\ events = <<>>
  /\ threads' = threads \ {"input"}
  /\ UNCHANGED <<vars, boardVars, gpuVars>>
-----------------------------------------------------------------------------
(* The input thread *)

Handles(kind) == "input" \in threads /\ events # <<>> /\ Head(events).kind = kind /\ events' = Tail(events)

\* An LED is set through the device that is open now.
Reached(b) == b \in opened /\ b \in keyboards /\ On(b, "added") \notin Range(events)

\* Mutant: only the state is updated.
LightNone(k) ==
  /\ led' \in IF k \in LockKey THEN BOOLEAN ELSE {led}
  /\ UNCHANGED lamps

\* handle_keyboard_event updates the LEDs of all keyboards when they change.
Light(k) ==
  /\ led' \in IF k \in LockKey THEN BOOLEAN ELSE {led}
  /\ lamps' = [b \in Board |-> IF led' # led /\ Reached(b) THEN led' ELSE lamps[b]]

KeyEvent(kind) ==
  /\ Handles(kind)
  /\ LET k == Head(events).key
     IN /\ Light(k)
        /\ IF kind = "press" THEN Press(k) ELSE Release(k)
  /\ UNCHANGED <<opened, held, keyboards, session, switches, gpuVars, threads>>

DeviceAdded ==
  /\ Handles("added")
  /\ LET b == Head(events).board
     IN /\ keyboards' = keyboards \cup {b}
        /\ lamps' = IF b \in opened THEN [lamps EXCEPT ![b] = led] ELSE lamps
  /\ UNCHANGED <<vars, opened, held, led, session, switches, gpuVars, threads>>

DeviceRemoved ==
  /\ Handles("removed")
  /\ keyboards' = keyboards \ {Head(events).board}
  /\ UNCHANGED <<vars, opened, held, lamps, led, session, switches, gpuVars, threads>>

\* SessionEvent::PauseSession and ActivateSession.
PauseSession ==
  /\ "input" \in threads /\ session # "paused" /\ switches < MaxSwitches
  /\ session' = "paused"
  /\ switches' = switches + 1
  /\ toRenderer' = Append(toRenderer, "paused")
  /\ Close(opened)
  /\ UNCHANGED <<vars, keyboards, led, toInput, known, tested, refused, threads>>

ActivateSession ==
  /\ "input" \in threads /\ session = "paused"
  /\ toRenderer' = Append(toRenderer, "resumed")
  /\ \/ session' = "active" /\ \E S \in SUBSET Board : OpenBoards(S)
     \/ session' = "deaf" /\ UNCHANGED <<opened, held, events, lamps>>
  /\ UNCHANGED <<vars, keyboards, led, switches, toInput, known, tested, refused, threads>>

\* Mutant: what is asked while the session is not active is passed over.
OpenFileWhileActive ==
  /\ "input" \in threads /\ toInput # <<>>
  /\ toInput' = Tail(toInput)
  /\ toRenderer' = IF session = "active" THEN Append(toRenderer, Head(toInput)) ELSE toRenderer
  /\ UNCHANGED <<vars, boardVars, known, tested, refused, threads>>

\* InputMessage::OpenFileInSessionForRenderer.  run_message_loop logs the error of
\* a handler and goes on: the renderer has no answer then.
OpenFileInSession ==
  /\ "input" \in threads /\ toInput # <<>>
  /\ toInput' = Tail(toInput)
  /\ \/ toRenderer' = Append(toRenderer, Head(toInput)) /\ UNCHANGED refused
     \/ refused' = refused \cup {Head(toInput)} /\ UNCHANGED toRenderer
  /\ UNCHANGED <<vars, boardVars, known, tested, threads>>
-----------------------------------------------------------------------------
(* The renderer thread *)

Receives == "renderer" \in threads /\ toRenderer # <<>> /\ toRenderer' = Tail(toRenderer)

\* add_device for each of these; Comms drops what nobody can receive.
AddDevices(S) ==
  /\ known' = known \cup S
  /\ tested' = tested \ S /\ refused' = refused \ S
  /\ \E asked \in SetToSeqs(S) :
       toInput' = IF "input" \in threads THEN toInput \o asked ELSE toInput

\* init_udev_device_listener_for_seat.  An error may come after some devices were
\* added; it is logged and the thread goes on.
SeatSessionCreated ==
  /\ Receives /\ Head(toRenderer) = "created"
  /\ \E S \in SUBSET Gpu : AddDevices(S)
  /\ UNCHANGED <<vars, boardVars, threads>>

\* UdevEvent::Added; Changed and Removed do nothing.  It never comes when the error
\* kept the source out of the loop.
GpuAdded(g) ==
  /\ "renderer" \in threads /\ "created" \notin Range(toRenderer)
  /\ Len(toInput) + Len(toRenderer) < MaxMessages
  /\ AddDevices({g})
  /\ UNCHANGED <<vars, boardVars, toRenderer, threads>>

\* SeatSessionPaused and SeatSessionResumed: TODO.
SessionSwitched ==
  /\ Receives /\ Head(toRenderer) \in {"paused", "resumed"}
  /\ UNCHANGED <<vars, boardVars, toInput, known, tested, refused, threads>>

\* FileOpenedInSession: no DRM node is an error, which is logged, no Vulkan is a
\* panic.  Success asks main to shut down, which may come from any thread in Threads.
FileOpened ==
  /\ Receives /\ Head(toRenderer) \in Gpu
  /\ \/ tested' = tested \cup {Head(toRenderer)} /\ UNCHANGED <<refused, threads>>
     \/ refused' = refused \cup {Head(toRenderer)} /\ UNCHANGED <<tested, threads>>
     \/ threads' = threads \ {"renderer"} /\ UNCHANGED <<tested, refused>>
  /\ UNCHANGED <<vars, boardVars, toInput, known>>
-----------------------------------------------------------------------------
\* The configuration's key maps arrive at the input thread as well.
Configure(slot) == "input" \in threads /\ Keymap(slot) /\ UNCHANGED <<boardVars, gpuVars, threads>>

SessionNext ==
  \/ \E b \in Board : Hotplug(b) \/ \E k \in Key : KeyMoves(b, k)
  \/ OtherEvent
  \/ \E kind \in {"press", "release"} : KeyEvent(kind)
  \/ DeviceAdded \/ DeviceRemoved
  \/ PauseSession \/ ActivateSession
  \/ OpenFileInSession
  \/ SeatSessionCreated \/ SessionSwitched \/ FileOpened
  \/ \E g \in Gpu : GpuAdded(g)
  \/ \E slot \in Slots : Configure(slot)

SessionSpec == SessionInit /\ [][SessionNext]_allVars
-----------------------------------------------------------------------------
\* Every variable has its type; a keyboard that is not open holds no key.
SessionTypeOK ==
  /\ TypeOK
  /\ opened \subseteq Board /\ keyboards \subseteq Board /\ (session # "active" => opened = {})
  /\ held \in [Board -> SUBSET Key] /\ \A b \in Board \ opened : held[b] = {}
  /\ lamps \in [Board -> BOOLEAN] /\ led \in BOOLEAN
  /\ session \in {"active", "paused", "deaf"} /\ switches \in 0..MaxSwitches
  /\ Range(toInput) \subseteq Gpu /\ Range(toRenderer) \subseteq Gpu \cup {"created", "paused", "resumed"}
  /\ known \subseteq Gpu /\ tested \subseteq Gpu /\ refused \subseteq Gpu
  /\ threads \subseteq {"input", "renderer"}

(***************************************************************************)
(* When the events are handled, what the input thread believes is so: its  *)
(* keyboards are the open ones, with its LEDs, and its keys are those held *)
(* on them, however keyboards and sessions came and went with keys down.   *)
(***************************************************************************)
InputFollowsDevices ==
  events = <<>> /\ "input" \in threads =>
    /\ keyboards = opened
    /\ pressed = Holding
    /\ \A b \in opened : lamps[b] = led

\* A GPU the renderer knows is on its way to be opened, or its last request ended
\* in a test, or one of the two handlers gave it up with an error in the log: no
\* other way leads out of the queues, unless a thread has ended, which ends the
\* program.
NoGpuIsForgotten ==
  threads = {"input", "renderer"} =>
    known \subseteq Range(toInput) \cup Range(toRenderer) \cup tested \cup refused

\* What holds of every state: types, and GPUs on their way.
SessionIsSound == SessionTypeOK /\ NoGpuIsForgotten
=============================================================================
