------------------------------ MODULE Devices ------------------------------
(***************************************************************************)
(* DRM devices, their connectors and the leases of headsets, as            *)
(* scape-display's udev.rs keeps them: udev events in the order of the     *)
(* kernel, rescans that fail, the session that pauses, and clients that    *)
(* lease connectors which are not for a desktop.                           *)
(*                                                                         *)
(* The scanner, the planes' claims and the lease global are smithay's and  *)
(* modelled as the code uses them: a connector keeps its crtc, disconnects *)
(* are reported before connects, and a plane has one claim.                *)
(***************************************************************************)
EXTENDS Naturals, Sequences, FiniteSets, Functions, SequencesExt

CONSTANTS
  Devices,      \* DRM nodes
  Connectors,   \* their names are unique over all devices
  Crtcs,        \* handles, counted anew by every device
  Home,         \* the device of a connector
  NonDesktop,   \* connectors with the property "non-desktop"
  RenderNode,   \* the render node that EGL reports for a device
  PrimaryGpu,   \* the render node of select_primary_gpu
  Unassigned,   \* what the scanner has for a connector without a crtc
  MaxEvents,    \* bound: udev events not yet handled
  MaxFaults     \* bound: opens, scans and set-ups that fail

ASSUME DevicesAssumption ==
  /\ IsFiniteSet(Connectors)
  /\ Home \in [Connectors -> Devices]
  /\ NonDesktop \subseteq Connectors
  /\ Unassigned \notin Crtcs
  /\ PrimaryGpu \in Range(RenderNode) /\ DOMAIN RenderNode = Devices
  /\ MaxEvents \in Nat /\ MaxFaults \in Nat

VARIABLES
  present, plugged,  \* the hardware: devices, and connectors with a display
  events,            \* UdevBackend's queue of [kind, device]
  starting,          \* devices whose immediate timer has not fired
  ready,             \* the timer behind them has fired (dmabuf, syncobj)
  backends,          \* UdevData.backends, by device
  gpus,              \* UdevData.gpus
  outputs,           \* State.outputs, by name: UdevOutputId
  sessionPaused,     \* State.session_paused
  up,                \* no unwrap has failed
  dark,              \* history: connectors whose set-up returned early
  missed,            \* history: devices whose last scan failed
  faults             \* history: failures so far

hardware == <<present, plugged>>
devicesVars == <<hardware, events, starting, ready, backends, gpus, outputs, sessionPaused, up, dark, missed, faults>>

Without(f, S) == [x \in DOMAIN f \ S |-> f[x]]
With(f, g) == [x \in DOMAIN f \cup DOMAIN g |-> IF x \in DOMAIN g THEN g[x] ELSE f[x]]
Empty == <<>>

NewDevice(leasing) == [surfaces |-> Empty, nonDesktop |-> Empty, scanner |-> Empty, leasing |-> leasing, leases |-> <<>>]

\* The device that was opened is the one that is plugged in now.
Live(d) == d \in present /\ \A i \in DOMAIN events : events[i] # [kind |-> "Removed", device |-> d]

Leased(b) == UNION {Range(b.leases[i]) : i \in DOMAIN b.leases}

DevicesInit ==
  /\ present \in SUBSET Devices
  /\ plugged \in SUBSET Connectors
  /\ events = <<>>
  /\ starting = present
  /\ ready = FALSE
  /\ backends = Empty
  /\ gpus = {}
  /\ outputs = Empty
  /\ sessionPaused = FALSE
  /\ up = TRUE
  /\ dark = {}
  /\ missed = {}
  /\ faults = 0
----------------------------------------------------------------------------
(***************************************************************************)
(* The hardware and the kernel.  A device that is still to be added by its *)
(* timer, in the first turn of the event loop, is not pulled out.          *)
(***************************************************************************)
Notify(kind, d) ==
  /\ Len(events) < MaxEvents
  /\ events' = Append(events, [kind |-> kind, device |-> d])
  /\ UNCHANGED <<starting, ready, backends, gpus, outputs, sessionPaused, up, dark, missed, faults>>

PlugDevice(d) ==
  /\ d \notin present
  /\ present' = present \cup {d}
  /\ UNCHANGED plugged
  /\ Notify("Added", d)

UnplugDevice(d) ==
  /\ d \in present \ starting
  /\ present' = present \ {d}
  /\ UNCHANGED plugged
  /\ Notify("Removed", d)

SwitchDisplay(c) ==
  /\ Home[c] \in present
  /\ plugged' = IF c \in plugged THEN plugged \ {c} ELSE plugged \cup {c}
  /\ UNCHANGED present
  /\ Notify("Changed", Home[c])
----------------------------------------------------------------------------
(***************************************************************************)
(* What smithay's scanner finds: the crtc of every display of the device,  *)
(* new for those that had none.                                            *)
(***************************************************************************)
Scans(d, b) ==
  LET now == {c \in plugged : Home[c] = d}
      kept == {c \in now \cap DOMAIN b.scanner : b.scanner[c] # Unassigned}
      free == Crtcs \ {b.scanner[c] : c \in kept}
  IN {s \in [now -> Crtcs \cup {Unassigned}] :
        /\ \A c \in kept : s[c] = b.scanner[c]
        /\ \A c, e \in now : c # e /\ s[c] = s[e] => s[c] = Unassigned
        /\ (\E c \in now : s[c] = Unassigned) => free \subseteq Range(s)}

\* The connectors of a scan with a crtc that another scan does not have.
WithCrtc(scan, others) == {c \in DOMAIN scan \ others : scan[c] # Unassigned}

ConnectorsDisconnectedAt(b, gone) ==
  [b EXCEPT !.surfaces = Without(@, {b.scanner[c] : c \in gone})]

ConnectorsDisconnected(b, gone) ==
  [b EXCEPT !.surfaces = Without(@, {b.scanner[c] : c \in gone \ DOMAIN b.nonDesktop}),
            !.nonDesktop = Without(@, gone)]

OutputsDisconnected(d, b, gone) ==
  Without(outputs, {c \in DOMAIN outputs :
                      \E e \in gone \ DOMAIN b.nonDesktop : outputs[c] = [device |-> d, crtc |-> b.scanner[e]]})

\* "connected" maps the connectors that are set up to their crtcs.
ConnectorsConnected(b, connected) ==
  [b EXCEPT !.nonDesktop = With(@, [c \in DOMAIN connected \cap NonDesktop |-> connected[c]]),
            !.surfaces = With(@, [k \in {connected[c] : c \in DOMAIN connected \ NonDesktop} |->
                                     CHOOSE c \in DOMAIN connected : connected[c] = k])]

OutputsConnected(d, connected) ==
  [c \in DOMAIN connected \ NonDesktop |-> [device |-> d, crtc |-> connected[c]]]

\* What the events of a scan do to a device, disconnects first.
RescannedLate(b, gone, connected) == ConnectorsDisconnected(ConnectorsConnected(b, connected), gone)
Rescanned(b, gone, connected) == ConnectorsConnected(ConnectorsDisconnected(b, gone), connected)

(***************************************************************************)
(* device_changed of a device with the data b.  A surface also fails when  *)
(* a lease holds the plane of its crtc.                                    *)
(***************************************************************************)
ScanFails(d, b, live) ==
  /\ live => faults < MaxFaults
  /\ faults' = IF live THEN faults + 1 ELSE faults
  /\ missed' = missed \cup {d}
  /\ backends' = With(backends, [x \in {d} |-> b])
  /\ UNCHANGED <<outputs, dark, up>>

ScanSucceeds(d, b) ==
  \E scan \in Scans(d, b) :
     LET gone == WithCrtc(b.scanner, DOMAIN scan)
         new == WithCrtc(scan, DOMAIN b.scanner)
         claimed == {c \in new \ NonDesktop : scan[c] \in Leased(b)}
     IN \E broken \in SUBSET (new \ (NonDesktop \cup claimed)) :
        LET connected == [c \in new \ (claimed \cup broken) |-> scan[c]]
        IN /\ faults + Cardinality(broken) <= MaxFaults
           /\ faults' = faults + Cardinality(broken)
           /\ backends' = With(backends, [x \in {d} |-> [Rescanned(b, gone, connected) EXCEPT !.scanner = scan]])
           /\ outputs' = With(OutputsDisconnected(d, b, gone), OutputsConnected(d, connected))
           /\ dark' = (dark \ (DOMAIN b.scanner \ DOMAIN scan))
                        \cup ((DOMAIN scan \ DOMAIN b.scanner) \ DOMAIN connected)
           /\ missed' = missed \ {d}
           /\ up' = (up /\ (new = {} \/ RenderNode[d] \in gpus'))

DeviceChanged(d, b, live) == ScanFails(d, b, live) \/ (live /\ ScanSucceeds(d, b))

DeviceAdded(d) ==
  \/ /\ d \in present => faults < MaxFaults
     /\ faults' = IF d \in present THEN faults + 1 ELSE faults
     /\ missed' = missed \cup {d}
     /\ UNCHANGED <<backends, gpus, outputs, dark, up>>
  \/ /\ d \in present
     /\ gpus' = gpus \cup {RenderNode[d]}
     /\ \E leasing \in {"none", "active"} : DeviceChanged(d, NewDevice(leasing), TRUE)

GpusWithout(d) == gpus \ {RenderNode[d]}

DeviceRemoved(d) ==
  /\ IF d \in DOMAIN backends
     THEN LET b == backends[d]
          IN /\ outputs' = OutputsDisconnected(d, b, WithCrtc(b.scanner, {}))
             /\ backends' = Without(backends, {d})
             /\ gpus' = GpusWithout(d)
     ELSE UNCHANGED <<outputs, backends, gpus>>
  /\ dark' = {c \in dark : Home[c] # d}
  /\ missed' = missed \ {d}
  /\ UNCHANGED <<up, faults>>
----------------------------------------------------------------------------
\* The sources that init_udev inserts into the event loop.
DeviceTimer(d) ==
  /\ d \in starting
  /\ starting' = starting \ {d}
  /\ DeviceAdded(d)
  /\ UNCHANGED <<hardware, events, ready, sessionPaused>>

InitTimer ==
  /\ starting = {} /\ ~ready
  /\ ready' = TRUE
  /\ up' = (up /\ PrimaryGpu \in gpus)
  /\ UNCHANGED <<hardware, events, starting, backends, gpus, outputs, sessionPaused, dark, missed, faults>>

UdevEvent(kind) ==
  /\ events # <<>> /\ Head(events).kind = kind
  /\ events' = Tail(events)
  /\ LET d == Head(events).device
     IN \/ kind = "Added" /\ DeviceAdded(d)
        \/ kind = "Changed" /\ UNCHANGED gpus /\
             IF d \in DOMAIN backends THEN DeviceChanged(d, backends[d], Live(d))
             ELSE UNCHANGED <<backends, outputs, up, dark, missed, faults>>
        \/ kind = "Removed" /\ DeviceRemoved(d)
  /\ UNCHANGED <<hardware, starting, ready, sessionPaused>>

Lessors(from, to) ==
  [d \in DOMAIN backends |-> IF backends[d].leasing = from THEN [backends[d] EXCEPT !.leasing = to] ELSE backends[d]]

PauseDevices ==
  /\ ~sessionPaused
  /\ sessionPaused' = TRUE
  /\ backends' = [d \in DOMAIN backends |-> [Lessors("active", "suspended")[d] EXCEPT !.leases = <<>>]]
  /\ UNCHANGED <<hardware, events, starting, ready, gpus, outputs, up, dark, missed, faults>>

ActivateDevices ==
  /\ sessionPaused
  /\ sessionPaused' = FALSE
  /\ backends' = Lessors("suspended", "active")
  /\ UNCHANGED <<hardware, events, starting, ready, gpus, outputs, up, dark, missed, faults>>
----------------------------------------------------------------------------
(***************************************************************************)
(* Leases.  A client asks for connectors that it was once offered; the     *)
(* kernel gives a lease only to the session that is active.                *)
(***************************************************************************)
Claimed(b) == DOMAIN b.surfaces \cup Leased(b)

MayLeaseListed(b, asked) == asked \subseteq DOMAIN b.nonDesktop
MayLease(b, asked) ==
  /\ asked \subseteq DOMAIN b.nonDesktop
  /\ \A c \in asked : b.nonDesktop[c] \notin Claimed(b)

LeaseRequest(d, asked) ==
  /\ d \in DOMAIN backends /\ Live(d)
  /\ backends[d].leasing = "active" /\ ~sessionPaused
  /\ asked # {}
  /\ MayLease(backends[d], asked)
  /\ backends' = [backends EXCEPT ![d].leases = Append(@, [c \in asked |-> backends[d].nonDesktop[c]])]
  /\ UNCHANGED <<hardware, events, starting, ready, gpus, outputs, sessionPaused, up, dark, missed, faults>>

LeaseDestroyed(d, i) ==
  /\ backends' = [backends EXCEPT ![d].leases = RemoveAt(@, i)]
  /\ UNCHANGED <<hardware, events, starting, ready, gpus, outputs, sessionPaused, up, dark, missed, faults>>

Client ==
  \E d \in Devices :
    \/ \E asked \in SUBSET {c \in Connectors : Home[c] = d} : LeaseRequest(d, asked)
    \/ d \in DOMAIN backends /\ \E i \in DOMAIN backends[d].leases : LeaseDestroyed(d, i)

DevicesNext ==
  /\ up
  /\ \/ \E d \in Devices : PlugDevice(d) \/ UnplugDevice(d) \/ DeviceTimer(d)
     \/ \E c \in Connectors : SwitchDisplay(c)
     \/ InitTimer
     \/ \E kind \in {"Added", "Changed", "Removed"} : UdevEvent(kind)
     \/ PauseDevices
     \/ ActivateDevices
     \/ Client

DevicesSpec == DevicesInit /\ [][DevicesNext]_devicesVars
----------------------------------------------------------------------------
Partial(S, T) == UNION {[X -> T] : X \in SUBSET S}

DeviceData ==
  [surfaces : Partial(Crtcs, Connectors), nonDesktop : Partial(NonDesktop, Crtcs),
   scanner : Partial(Connectors, Crtcs \cup {Unassigned}),
   leasing : {"none", "active", "suspended"}, leases : Seq(Partial(NonDesktop, Crtcs))]

\* Every variable has its type; only a paused session suspends the leases.
DevicesTypeOK ==
  /\ present \subseteq Devices /\ plugged \subseteq Connectors
  /\ \A i \in DOMAIN events : events[i].kind \in {"Added", "Changed", "Removed"} /\ events[i].device \in Devices
  /\ starting \subseteq present
  /\ DOMAIN backends \subseteq Devices
  /\ \A d \in DOMAIN backends : backends[d] \in DeviceData /\ (~sessionPaused => backends[d].leasing # "suspended")
  /\ gpus \subseteq Range(RenderNode)
  /\ outputs \in Partial(Connectors, [device : Devices, crtc : Crtcs])
  /\ {ready, sessionPaused, up} \subseteq BOOLEAN
  /\ dark \subseteq Connectors /\ missed \subseteq Devices /\ faults \in 0..MaxFaults

(***************************************************************************)
(* State.outputs and the surfaces of the devices agree: every output is    *)
(* driven by the surface its id names, and every surface drives its        *)
(* output.  The two are changed apart, by name and by crtc, for displays   *)
(* that change places at one crtc, devices that go, and set-ups that fail. *)
(***************************************************************************)
OutputsAreDriven ==
  /\ \A c \in DOMAIN outputs :
       /\ outputs[c].device \in DOMAIN backends
       /\ outputs[c].crtc \in DOMAIN backends[outputs[c].device].surfaces
       /\ backends[outputs[c].device].surfaces[outputs[c].crtc] = c
  /\ \A d \in DOMAIN backends : \A k \in DOMAIN backends[d].surfaces :
       LET c == backends[d].surfaces[k]
       IN c \in DOMAIN outputs /\ outputs[c] = [device |-> d, crtc |-> k]

\* The connectors of a device in use: those with a surface and those offered.
Used(b) == Range(b.surfaces) \cup DOMAIN b.nonDesktop

(***************************************************************************)
(* Once the udev events of a device are handled, and unless its last scan  *)
(* failed, it is known exactly if it is there, and exactly its connectors  *)
(* with a display are in use, but for those whose set-up failed.           *)
(***************************************************************************)
DisplaysAreKnown ==
  \A d \in Devices :
    (d \notin starting /\ d \notin missed /\ \A i \in DOMAIN events : events[i].device # d) =>
      /\ d \in DOMAIN backends <=> d \in present
      /\ d \in present => Used(backends[d]) = {c \in plugged : Home[c] = d} \ dark

(***************************************************************************)
(* No two of the surfaces and leases of a device have the same crtc, also  *)
(* when a leased headset is unplugged and its crtc goes to another one.    *)
(***************************************************************************)
CrtcHasOneUser ==
  \A d \in DOMAIN backends :
    /\ DOMAIN backends[d].surfaces \cap Leased(backends[d]) = {}
    /\ \A i, j \in DOMAIN backends[d].leases :
         i # j => Range(backends[d].leases[i]) \cap Range(backends[d].leases[j]) = {}

(***************************************************************************)
(* A device that is known has the renderer of its render node, which the   *)
(* next connected display unwraps: the two are kept by different keys and  *)
(* change in different places when devices fail to open, come and go.      *)
(***************************************************************************)
RendererIsThere == \A d \in DOMAIN backends : RenderNode[d] \in gpus

\* What holds of every device in every state: types, crtcs and renderers.
DevicesAreSound == DevicesTypeOK /\ CrtcHasOneUser /\ RendererIsThere
=============================================================================
