------------------------------ MODULE Outputs -------------------------------
(***************************************************************************)
(* The outputs and the spaces they show (scape-display/src): connectors    *)
(* come and go (udev.rs), the configuration sends layouts                  *)
(* (composition.rs), and the first layout and XWayland together make the   *)
(* display ready (state.rs, xwayland.rs).                                  *)
(*                                                                         *)
(* An output belongs to a space twice: ActiveSpace is user data of the     *)
(* Output and is written once; Space keeps the outputs that are mapped.    *)
(* The renderer takes the space from the one and the geometry from the     *)
(* other.  A connector that returns has a new Output.  Nothing makes the   *)
(* layouts of a configuration agree with each other.                       *)
(***************************************************************************)
EXTENDS Naturals

CONSTANTS
  Name,       \* names of outputs
  Space,      \* names of spaces
  Main,       \* the space that always exists
  NoSpace,    \* an output without ActiveSpace
  Layouts,    \* the layouts that reach the display: what spaces list by name
  MaxObject   \* bound: Output objects of one name

ASSUME OutputsAssumption ==
  /\ Main \in Space
  /\ NoSpace \notin Space
  /\ Layouts \subseteq UNION {[D -> SUBSET Name] : D \in SUBSET Space}
  /\ MaxObject \in Nat

\* An Output object: the n-th of its name.
Output == Name \X (1 .. MaxObject)

VARIABLES
  outputs,    \* State.outputs
  made,       \* how many objects of a name there were
  spaces,     \* the keys of State.spaces
  mapped,     \* the outputs each space has
  active,     \* the ActiveSpace of each object
  listed,     \* history: the names that the last layout of each space listed there
  started,    \* State.started_outputs
  readyIdle,  \* the idle that calls backend_ready is in the loop
  xwayland,   \* what became of XWayland
  backend,    \* ready_state.backend_ready
  onReady,    \* ready_state.on_ready_called
  startups    \* messages Startup sent to the config thread

layoutVars == <<outputs, made, spaces, mapped, active, listed, started>>
readyVars == <<xwayland, backend, onReady, startups>>
vars == <<layoutVars, readyIdle, readyVars>>

TypeOK ==
  /\ outputs \subseteq Output
  /\ made \in [Name -> 0 .. MaxObject]
  /\ spaces \subseteq Space
  /\ mapped \in [Space -> SUBSET Output]
  /\ active \in [Output -> Space \cup {NoSpace}]
  /\ listed \in [Space -> SUBSET Name]
  /\ started \subseteq Output
  /\ readyIdle \in BOOLEAN
  /\ xwayland \in {"starting", "ready", "failed"}
  /\ backend \in BOOLEAN
  /\ onReady \in BOOLEAN
  /\ startups \in 0 .. 1

Init ==
  /\ outputs = {}
  /\ made = [n \in Name |-> 0]
  /\ spaces = {Main}
  /\ mapped = [s \in Space |-> {}]
  /\ active = [o \in Output |-> NoSpace]
  /\ listed = [s \in Space |-> {}]
  /\ started = {}
  /\ readyIdle = FALSE
  /\ xwayland \in {"starting", "failed"}
  /\ backend = FALSE
  /\ onReady = FALSE
  /\ startups = 0

-----------------------------------------------------------------------------
(* Connectors *)

\* connector_connected: a new Output, in no space.  Of two connectors with one
\* name, on two devices, the later one takes the name.
ConnectorConnected(n) ==
  /\ made[n] < MaxObject
  /\ made' = [made EXCEPT ![n] = @ + 1]
  /\ outputs' = {o \in outputs : o[1] # n} \cup {<<n, made[n] + 1>>}
  /\ UNCHANGED <<spaces, mapped, active, listed, started, readyIdle, readyVars>>

\* connector_disconnected: only State.outputs forgets the Output.
ConnectorDisconnected(o) ==
  /\ o \in outputs
  /\ outputs' = outputs \ {o}
  /\ UNCHANGED <<made, spaces, mapped, active, listed, started, readyIdle, readyVars>>

-----------------------------------------------------------------------------
(* Layouts *)

\* The spaces of a layout that list an output, and the known outputs one lists.
SpacesFor(L, o) == {s \in DOMAIN L : o[1] \in L[s]}

\* Mutant: an output that has its ActiveSpace already is not mapped again.
ListedAndFresh(L, s) == {o \in outputs : o[1] \in L[s] /\ active[o] = NoSpace}

Listed(L, s) == {o \in outputs : o[1] \in L[s]}

\* Outputs that this layout gives their ActiveSpace.
Fresh(L) == {o \in outputs : active[o] = NoSpace /\ SpacesFor(L, o) # {}}

\* Mutant: a space also gets what another space of the layout lists.
AllOfLayout(L, s) == {o \in outputs : SpacesFor(L, o) # {}}

\* What a space of the layout has afterwards: known outputs as listed, and
\* whatever State.outputs does not know any more.
MappedAfter(L, s) == (mapped[s] \ outputs) \cup Listed(L, s)

\* Mutant: the end of the loop is not told apart from its early return.
StartWithoutReady ==
  /\ \E T \in SUBSET (outputs \ started) : started' = started \cup T
  /\ UNCHANGED readyIdle

\* start_outputs: in any order, up to the first that is already started; only
\* the end of the loop makes the backend ready.
StartOutputs ==
  IF outputs \cap started = {}
    THEN started' = started \cup outputs /\ readyIdle' = TRUE
    ELSE /\ \E T \in SUBSET (outputs \ started) : started' = started \cup T
         /\ UNCHANGED readyIdle

\* set_layout.  The spaces come in any order, the first that lists an output
\* becomes its ActiveSpace for good.
SetLayout(L) ==
  /\ \E pick \in [Fresh(L) -> DOMAIN L] :
       /\ \A o \in Fresh(L) : pick[o] \in SpacesFor(L, o)
       /\ \A o, p \in Fresh(L) :
            {pick[o], pick[p]} \subseteq SpacesFor(L, o) \cap SpacesFor(L, p) => pick[o] = pick[p]
       /\ active' = [o \in Output |-> IF o \in Fresh(L) THEN pick[o] ELSE active[o]]
  /\ spaces' = spaces \cup DOMAIN L
  /\ mapped' = [s \in Space |-> IF s \in DOMAIN L THEN MappedAfter(L, s) ELSE mapped[s]]
  /\ listed' = [s \in Space |-> IF s \in DOMAIN L THEN L[s] ELSE listed[s]]
  /\ StartOutputs
  /\ UNCHANGED <<outputs, made, readyVars>>

-----------------------------------------------------------------------------
(* Readiness *)

\* check_readyness, after either flag was set.
CheckReadyness ==
  IF ~onReady /\ backend' /\ xwayland' = "ready"
    THEN onReady' = TRUE /\ startups' = startups + 1
    ELSE UNCHANGED <<onReady, startups>>

\* The idle of start_outputs.
BackendReady ==
  /\ readyIdle
  /\ readyIdle' = FALSE
  /\ backend' = TRUE
  /\ UNCHANGED <<layoutVars, xwayland>>
  /\ CheckReadyness

\* XWayland is up, its window manager attached and its cursor set.
XWaylandReady ==
  /\ xwayland = "starting"
  /\ xwayland' = "ready"
  /\ UNCHANGED <<layoutVars, readyIdle, backend>>
  /\ CheckReadyness

\* One of them failed: it is logged.
XWaylandFailed ==
  /\ xwayland = "starting"
  /\ xwayland' = "failed"
  /\ UNCHANGED <<layoutVars, readyIdle, backend, onReady, startups>>

-----------------------------------------------------------------------------
Next ==
  \/ \E n \in Name : ConnectorConnected(n)
  \/ \E o \in outputs : ConnectorDisconnected(o)
  \/ \E L \in Layouts : SetLayout(L)
  \/ BackendReady
  \/ XWaylandReady
  \/ XWaylandFailed

Spec == Init /\ [][Next]_vars

\* The loop runs its idles; nothing is assumed of layouts and of XWayland.
FairSpec == Spec /\ WF_vars(BackendReady)

-----------------------------------------------------------------------------
(* Properties *)

\* render_surface_crtc and render_surface index the spaces by the ActiveSpace of an
\* output and unwrap its geometry there.  The space exists; the geometry is there as
\* long as the last layout of that space lists the output, and no longer: the code
\* relies on layouts that never take an output off the space that had it first.
RenderFindsOutput ==
  \A o \in outputs :
    active[o] # NoSpace =>
      /\ active[o] \in spaces
      /\ o \in mapped[active[o]] <=> o[1] \in listed[active[o]]

\* A connected output is shown by two spaces only when the last layouts of both list
\* it; what an earlier layout gave to a space is gone.
OneSpacePerOutput ==
  \A o \in outputs : \A s, t \in spaces :
    s # t /\ o \in mapped[s] \cap mapped[t] => o[1] \in listed[s] \cap listed[t]

\* Startup is sent once at most, whatever number of layouts follow, and never
\* before a layout started the outputs and XWayland was up.
StartupOnce ==
  /\ startups <= 1
  /\ startups = 1 => backend /\ xwayland = "ready"

\* With XWayland up, the first layout that reaches the end of start_outputs is
\* enough: Startup is sent, even when outputs come and go in between.
StartupFollows == (started # {} /\ xwayland = "ready") ~> startups = 1
=============================================================================
