---------------------------- MODULE UdevProofs -------------------------------
(* Proofs about the udev backend: RenderScheduler.tla and Captures.tla on top *)
(* of it, and Devices.tla, for any devices, connectors, crtcs, frames and     *)
(* bounds.                                                                    *)
EXTENDS Captures, Devices, FiniteSetTheorems, SequenceTheorems, WellFoundedInduction, TLAPS


-----------------------------------------------------------------------------
(* The scheduler alone                                                       *)

\* Counting on keeps a count, and a frame queued is at most the second one.
LEMMA Counts ==
  ASSUME NEW f \in [Crtc -> Nat], NEW c \in Crtc
  PROVE  /\ Inc(f, c) \in [Crtc -> Nat]
         /\ f[c] > 0 => Dec(f, c) \in [Crtc -> Nat]
BY DEF Inc, Dec

LEMMA Frames ==
  ASSUME NEW f \in [Crtc -> 0 .. 2], NEW S
  PROVE  /\ Queued(f, S) \in [Crtc -> 0 .. 2]
         /\ \A c \in Crtc : f[c] > 0 => Dec(f, c) \in [Crtc -> 0 .. 2]
BY DEF Queued, Dec

\* Frames that are lost are no longer counted.
LEMMA LostFrames ==
  ASSUME NEW f \in [Crtc -> 0 .. 2], NEW S
  PROVE  [c \in Crtc |-> IF c \in S THEN 0 ELSE f[c]] \in [Crtc -> 0 .. 2]
OBVIOUS

LEMMA InitTypeOK == Init => TypeOK
<1>1. [c \in Crtc |-> 0] \in [Crtc -> 0 .. 2]
  OBVIOUS
<1>2. [c \in Crtc |-> 0] \in [Crtc -> Nat]
  OBVIOUS
<1> QED
  BY <1>1, <1>2 DEF Init, TypeOK

LEMMA NextTypeOK == TypeOK /\ [Next]_vars => TypeOK'
<1> SUFFICES ASSUME TypeOK, [Next]_vars PROVE TypeOK'
  OBVIOUS
<1> USE DEF TypeOK, outputVars, flags
<1>1. ASSUME NEW S \in SUBSET surfaces, RequestRender(S) PROVE TypeOK'
  <2>1. idles' \in [Crtc -> Nat]
    BY <1>1 DEF RequestRender, Schedule
  <2> QED
    BY <1>1, <2>1 DEF RequestRender, Schedule
<1>2. CASE ActivateSession
  <2>1. flips' \in [Crtc -> 0 .. 2]
    BY <1>2, LostFrames DEF ActivateSession
  <2>2. idles' \in [Crtc -> Nat]
    BY <1>2 DEF ActivateSession, Schedule
  <2> QED
    BY <1>2, <2>1, <2>2 DEF ActivateSession, Schedule
<1>3. ASSUME NEW c \in Crtc, RunIdle(c) PROVE TypeOK'
  <2>1. idles' \in [Crtc -> Nat]
    BY <1>3, Counts DEF RunIdle
  <2>2. flips' \in [Crtc -> 0 .. 2]
    BY <1>3, Frames DEF RunIdle
  <2> QED
    BY <1>3, <2>1, <2>2 DEF RunIdle
<1>4. ASSUME NEW c \in Crtc, VBlank(c) PROVE TypeOK'
  <2>1. timers' \in [Crtc -> Nat]
    BY <1>4, Counts DEF VBlank
  <2>2. flips' \in [Crtc -> 0 .. 2]
    BY <1>4, Frames DEF VBlank
  <2> QED
    BY <1>4, <2>1, <2>2 DEF VBlank
<1>5. ASSUME NEW c \in Crtc, TimerFires(c) PROVE TypeOK'
  <2>1. timers' \in [Crtc -> Nat] /\ idles' \in [Crtc -> Nat]
    BY <1>5, Counts DEF TimerFires
  <2> QED
    BY <1>5, <2>1 DEF TimerFires
<1>6. ASSUME NEW c \in Crtc, Connect(c) \/ Disconnect(c) PROVE TypeOK'
  BY <1>6 DEF Connect, Disconnect
<1>7. ASSUME NEW c \in Crtc, RetryInitial(c) PROVE TypeOK'
  <2>1. retries' \in [Crtc -> Nat]
    BY <1>7, Counts DEF RetryInitial
  <2>2. flips' \in [Crtc -> 0 .. 2]
    BY <1>7, Frames DEF RetryInitial
  <2> QED
    BY <1>7, <2>1, <2>2 DEF RetryInitial
<1>8. ASSUME NEW S \in SUBSET surfaces, SetLayout(S) PROVE TypeOK'
  <2>1. retries' \in [Crtc -> Nat]
    BY <1>8 DEF SetLayout
  <2>2. flips' \in [Crtc -> 0 .. 2]
    BY <1>8, Frames DEF SetLayout
  <2> QED
    BY <1>8, <2>1, <2>2 DEF SetLayout
<1>9. CASE PauseSession \/ UNCHANGED vars
  BY <1>9 DEF PauseSession, vars
<1> QED
  BY <1>1, <1>2, <1>3, <1>4, <1>5, <1>6, <1>7, <1>8, <1>9 DEF Next, Commit, Screencopy

\* Every variable keeps its type.
THEOREM TypeCorrect == Spec => []TypeOK
BY InitTypeOK, NextTypeOK, PTL DEF Spec

-----------------------------------------------------------------------------
(* Each flag is backed by what will clear it.                                *)

ScheduledRuns == \A c \in scheduled : idles[c] > 0
WaitingIsPending == waiting \subseteq pending
OwedExist == owed \subseteq surfaces

Backed == OwedExist /\ ScheduledRuns /\ WaitingIsPending /\ PendingEnds /\ UpdatesAreKept

IInv == TypeOK /\ Backed

\* A request leaves every surface it is for scheduled or waiting.
LEMMA ScheduleServes ==
  ASSUME TypeOK, ScheduledRuns, WaitingIsPending, PendingEnds,
         NEW S \in SUBSET Crtc, Schedule(S, Crtc \ pending), UNCHANGED <<pending, timers>>
  PROVE  /\ ScheduledRuns' /\ WaitingIsPending'
         /\ \A c \in S : c \in scheduled' \/ c \in waiting'
         /\ scheduled \subseteq scheduled' /\ waiting \subseteq waiting'
<1>1. \A c \in Crtc : idles'[c] >= idles[c]
  BY DEF TypeOK, Schedule
<1>2. ScheduledRuns'
  BY <1>1 DEF TypeOK, ScheduledRuns, Schedule
<1> QED
  BY <1>2 DEF TypeOK, Schedule, WaitingIsPending

LEMMA NextBacked == IInv /\ [Next]_vars => Backed'
<1> SUFFICES ASSUME IInv, [Next]_vars PROVE Backed'
  OBVIOUS
<1> USE DEF IInv, Backed, OwedExist, outputVars, flags
<1>1. ASSUME NEW S \in SUBSET surfaces, RequestRender(S) PROVE Backed'
  <2>1. /\ ScheduledRuns' /\ WaitingIsPending'
        /\ \A c \in S : c \in scheduled' \/ c \in waiting'
        /\ scheduled \subseteq scheduled' /\ waiting \subseteq waiting'
    BY <1>1, ScheduleServes DEF RequestRender, TypeOK
  <2>2. PendingEnds'
    BY <1>1 DEF RequestRender, PendingEnds
  <2>3. UpdatesAreKept'
    BY <1>1, <2>1, <2>2 DEF RequestRender, TypeOK, UpdatesAreKept, ScheduledRuns,
                            WaitingIsPending, PendingEnds
  <2> QED
    BY <1>1, <2>1, <2>2, <2>3 DEF RequestRender
<1>2. CASE ActivateSession
  <2>1. /\ ScheduledRuns' /\ WaitingIsPending'
        /\ \A c \in surfaces : c \in scheduled' \/ c \in waiting'
    BY <1>2, ScheduleServes DEF ActivateSession, TypeOK
  <2>2. PendingEnds'
    BY <1>2 DEF ActivateSession, PendingEnds
  <2>3. UpdatesAreKept'
    BY <1>2, <2>1, <2>2 DEF ActivateSession, UpdatesAreKept, ScheduledRuns,
                            WaitingIsPending, PendingEnds
  <2> QED
    BY <1>2, <2>1, <2>2, <2>3 DEF ActivateSession
<1> USE DEF TypeOK, ScheduledRuns, WaitingIsPending, PendingEnds, UpdatesAreKept
<1>3. ASSUME NEW c \in Crtc, RunIdle(c) PROVE Backed'
  BY <1>3 DEF RunIdle, Dec
<1>4. ASSUME NEW c \in Crtc, VBlank(c) PROVE Backed'
  BY <1>4 DEF VBlank, Inc
<1>5. ASSUME NEW c \in Crtc, TimerFires(c) PROVE Backed'
  BY <1>5 DEF TimerFires, Inc, Dec
<1>6. ASSUME NEW c \in Crtc, Connect(c) PROVE Backed'
  BY <1>6 DEF Connect
<1>7. ASSUME NEW c \in Crtc, Disconnect(c) PROVE Backed'
  BY <1>7 DEF Disconnect
<1>8. ASSUME NEW c \in Crtc, RetryInitial(c) PROVE Backed'
  BY <1>8 DEF RetryInitial
<1>9. ASSUME NEW S \in SUBSET surfaces, SetLayout(S) PROVE Backed'
  <2>1. UNCHANGED <<surfaces, scheduled, waiting, pending, idles, timers, paused, owed>>
    BY <1>9 DEF SetLayout
  <2> QED
    BY <2>1
<1>10. CASE PauseSession \/ UNCHANGED vars
  BY <1>10 DEF PauseSession, vars
<1> QED
  BY <1>1, <1>2, <1>3, <1>4, <1>5, <1>6, <1>7, <1>8, <1>9, <1>10
     DEF Next, Commit, Screencopy

LEMMA NextIInv == IInv /\ [Next]_vars => IInv'
BY NextTypeOK, NextBacked DEF IInv

THEOREM Invariance == Spec => []IInv
<1>1. Init => IInv
  BY InitTypeOK DEF Init, IInv, Backed, OwedExist, ScheduledRuns, WaitingIsPending, PendingEnds, UpdatesAreKept
<1> QED
  BY <1>1, NextIInv, PTL DEF Spec

\* No requested update is lost by the scheduler.
THEOREM NoLostUpdate == Spec => []UpdatesAreKept
<1>1. IInv => UpdatesAreKept
  BY DEF IInv, Backed
<1> QED
  BY <1>1, Invariance, PTL

\* No surface stays pending without a timer.
THEOREM NoFrozenSurface == Spec => []PendingEnds
<1>1. IInv => PendingEnds
  BY DEF IInv, Backed
<1> QED
  BY <1>1, Invariance, PTL

-----------------------------------------------------------------------------
(* Screen copies                                                             *)

\* A step of the captures is one of the render scheduler, or leaves it alone: the
\* output of a frame that is copied is one the scheduler knows.
LEMMA StepImplements == CapturesTypeOK /\ [CapturesNext]_allVars => [Next]_vars
<1> SUFFICES ASSUME CapturesTypeOK, [CapturesNext]_allVars PROVE [Next]_vars
  OBVIOUS
<1>1. ASSUME NEW f \in Frame, Copy(f) PROVE [Next]_vars
  <2>1. CASE source[f] = NoCrtc
    BY <1>1, <2>1 DEF Copy
  <2>2. CASE source[f] # NoCrtc
    <3>1. source[f] \in surfaces
      BY <2>2 DEF CapturesTypeOK
    <3> QED
      BY <1>1, <2>2, <3>1 DEF Copy, Next, Screencopy
  <2> QED
    BY <2>1, <2>2
<1>2. ASSUME NEW f \in Frame, DestroyFrame(f) \/ \E c \in Crtc : Capture(f, c) PROVE [Next]_vars
  BY <1>2 DEF DestroyFrame, Capture
<1>3. ASSUME NEW c \in Crtc, RenderSurface(c) \/ Unplug(c) PROVE [Next]_vars
  BY <1>3 DEF RenderSurface, Unplug, Next
<1>4. CASE Schedulers
  BY <1>4 DEF Schedulers, Next
<1>5. CASE UNCHANGED allVars
  BY <1>5 DEF allVars
<1> QED
  BY <1>1, <1>2, <1>3, <1>4, <1>5 DEF CapturesNext

LEMMA NextCapturesTypeOK ==
  TypeOK /\ CapturesTypeOK /\ [CapturesNext]_allVars => CapturesTypeOK'
<1> SUFFICES ASSUME TypeOK, CapturesTypeOK, [CapturesNext]_allVars PROVE CapturesTypeOK'
  OBVIOUS
<1> USE CapturesAssumption DEF CapturesTypeOK, vars, outputVars, captureVars
<1>1. ASSUME NEW f \in Frame, Copy(f) PROVE CapturesTypeOK'
  <2>1. surfaces' = surfaces
    BY <1>1 DEF Copy, RequestRender
  <2>2. stage' = [stage EXCEPT ![f] = "failed"] \/ stage' = [stage EXCEPT ![f] = "queued"]
    BY <1>1 DEF Copy
  <2> QED
    BY <1>1, <2>1, <2>2 DEF Copy
<1>2. ASSUME NEW f \in Frame, DestroyFrame(f) PROVE CapturesTypeOK'
  BY <1>2 DEF DestroyFrame
<1>3. ASSUME NEW f \in Frame, NEW c \in Crtc, Capture(f, c) PROVE CapturesTypeOK'
  BY <1>3 DEF Capture
<1>4. ASSUME NEW c \in Crtc, RenderSurface(c) PROVE CapturesTypeOK'
  <2>1. surfaces' = surfaces /\ source' = source
    BY <1>4 DEF RenderSurface, RunIdle
  <2>2. CASE UNCHANGED <<stage, image>>
    BY <2>1, <2>2
  <2>3. CASE Answer(c, TRUE)
    BY <2>1, <2>3 DEF Answer, Queue
  <2>4. CASE Answer(c, FALSE)
    BY <2>1, <2>4 DEF Answer, Queue
  <2> QED
    BY <1>4, <2>2, <2>3, <2>4 DEF RenderSurface
<1>5. ASSUME NEW c \in Crtc, Unplug(c) PROVE CapturesTypeOK'
  BY <1>5 DEF Unplug, Disconnect
<1>6. CASE Schedulers
  <2>1. surfaces \subseteq surfaces'
    BY <1>6 DEF Schedulers, Commit, RequestRender, VBlank, TimerFires, Connect, RetryInitial,
                SetLayout, PauseSession, ActivateSession
  <2> QED
    BY <1>6, <2>1 DEF Schedulers
<1>7. CASE UNCHANGED allVars
  BY <1>7 DEF allVars
<1> QED
  BY <1>1, <1>2, <1>3, <1>4, <1>5, <1>6, <1>7 DEF CapturesNext

\* The invariant of the composition: types, and the backing of every flag.
CapturesInv == IInv /\ CapturesTypeOK

THEOREM CapturesInvariance == CapturesSpec => []CapturesInv
<1>1. CapturesInit => CapturesInv
  <2>1. Init => IInv
    BY InitTypeOK DEF Init, IInv, Backed, OwedExist, ScheduledRuns, WaitingIsPending, PendingEnds, UpdatesAreKept
  <2> QED
    BY <2>1 DEF CapturesInit, CapturesInv, CapturesTypeOK
<1>2. CapturesInv /\ [CapturesNext]_allVars => CapturesInv'
  BY StepImplements, NextCapturesTypeOK, NextIInv DEF CapturesInv, IInv
<1> QED
  BY <1>1, <1>2, PTL DEF CapturesSpec

\* A frame shows something exactly when it is ready, and the source of a frame in
\* use is there.
THEOREM CapturesTypeCorrect == CapturesSpec => []CapturesTypeOK
<1>1. CapturesInv => CapturesTypeOK
  BY DEF CapturesInv
<1> QED
  BY <1>1, CapturesInvariance, PTL

\* With copies the render scheduler takes steps of its own only: whatever is proved
\* of it holds for the composition.
THEOREM CapturesImplementScheduler == CapturesSpec => Spec
<1>1. CapturesInit => Init
  BY DEF CapturesInit
<1>2. CapturesInv /\ [CapturesNext]_allVars => [Next]_vars
  BY StepImplements DEF CapturesInv
<1> QED
  BY <1>1, <1>2, CapturesInvariance, PTL DEF CapturesSpec, Spec

\* No update is lost when clients copy the screen.
THEOREM NoUpdateLostToCopies == CapturesSpec => []UpdatesAreKept
BY CapturesImplementScheduler, NoLostUpdate, PTL
-----------------------------------------------------------------------------
(* The udev backend: devices *)

\* What udev tells.
DeviceEvent == [kind : {"Added", "Changed", "Removed"}, device : Devices]

\* A crtc belongs to one connector, a surface to the connector that the scan
\* gave its crtc, and a connector for leases is known by that crtc.
ScanIsKept(d, b) ==
  /\ \A c \in DOMAIN b.scanner : Home[c] = d
  /\ \A c, e \in DOMAIN b.scanner : c # e /\ b.scanner[c] = b.scanner[e] => b.scanner[c] = Unassigned
  /\ \A k \in DOMAIN b.surfaces :
       /\ b.surfaces[k] \in DOMAIN b.scanner \ NonDesktop
       /\ b.scanner[b.surfaces[k]] = k
  /\ \A c \in DOMAIN b.nonDesktop : c \in DOMAIN b.scanner /\ b.scanner[c] = b.nonDesktop[c]

\* No crtc of a device has two users: CrtcHasOneUser of one device.
OneUser(b) ==
  /\ DOMAIN b.surfaces \cap Leased(b) = {}
  /\ \A i, j \in DOMAIN b.leases : i # j => Range(b.leases[i]) \cap Range(b.leases[j]) = {}

\* What a device uses of what it scanned is all but the connectors in "off".
UsesAll(d, b, off) ==
  /\ Used(b) = DOMAIN b.scanner \ off
  /\ \A c \in off : Home[c] = d => c \in DOMAIN b.scanner

\* The outputs of a device are those of its surfaces.
Drives(d, b, outs) ==
  /\ \A c \in DOMAIN outs : outs[c].device = d =>
       outs[c].crtc \in DOMAIN b.surfaces /\ b.surfaces[outs[c].crtc] = c
  /\ \A k \in DOMAIN b.surfaces :
       b.surfaces[k] \in DOMAIN outs /\ outs[b.surfaces[k]] = [device |-> d, crtc |-> k]

\* What holds of a known device, whatever the others do.
DeviceOK(d, b, off, outs) ==
  b \in DeviceData /\ ScanIsKept(d, b) /\ OneUser(b) /\ UsesAll(d, b, off) /\ Drives(d, b, outs)

\* It holds of every known device; outputs and dark connectors are of known ones.
DevicesOK ==
  /\ \A d \in DOMAIN backends : DeviceOK(d, backends[d], dark, outputs)
  /\ \A c \in DOMAIN outputs : outputs[c].device \in DOMAIN backends
  /\ \A c \in dark : Home[c] \in DOMAIN backends

\* The events of a device that made the one set of devices out of the other.
Follows(was, e, is) ==
  \/ e.kind = "Added" /\ e.device \notin was /\ is = was \cup {e.device}
  \/ e.kind = "Changed" /\ is = was
  \/ e.kind = "Removed" /\ e.device \in was /\ is = was \ {e.device}

\* Which devices there were: h[i] after the first i of the events in the queue.
Past(h) ==
  /\ h[Len(events)] = present
  /\ \A i \in 1 .. Len(events) : Follows(h[i - 1], events[i], h[i])
  /\ DOMAIN backends \subseteq h[0]
  /\ h[0] \subseteq DOMAIN backends \cup starting \cup missed
  /\ \A i \in 0 .. Len(events) : starting \subseteq h[i]

\* The queue tells a possible past of what there is now.
EventsFollow == \E h \in [0 .. Len(events) -> SUBSET Devices] : Past(h)

\* No rescan of the device is due.
Quiet(d) == \A i \in DOMAIN events : events[i].device = d => events[i].kind = "Added"

\* A device that is not to be scanned again knows what is plugged in.
ScansAreFresh ==
  \A d \in DOMAIN backends \ missed :
    Quiet(d) => DOMAIN backends[d].scanner = {c \in plugged : Home[c] = d}

\* The types of all but the devices' data.
Sorts ==
  /\ present \subseteq Devices /\ plugged \subseteq Connectors /\ starting \subseteq present
  /\ events \in Seq(DeviceEvent)
  /\ DOMAIN backends \subseteq Devices
  /\ gpus \subseteq Range(RenderNode)
  /\ outputs \in Partial(Connectors, [device : Devices, crtc : Crtcs])
  /\ ready \in BOOLEAN /\ sessionPaused \in BOOLEAN /\ up \in BOOLEAN
  /\ dark \subseteq Connectors /\ missed \subseteq Devices /\ faults \in 0 .. MaxFaults

\* No lease is suspended while the session is active.
LeasesResumed == ~sessionPaused => \A d \in DOMAIN backends : backends[d].leasing # "suspended"

\* The inductive invariant.
DevicesInv ==
  /\ Sorts
  /\ LeasesResumed
  /\ starting \cap DOMAIN backends = {}
  /\ DevicesOK
  /\ EventsFollow
  /\ ScansAreFresh

-----------------------------------------------------------------------------
(* Sequences and numbers *)

\* What a sequence has.
LEMMA SeqFacts ==
  ASSUME NEW M, NEW s \in Seq(M)
  PROVE  Len(s) \in Nat /\ DOMAIN s = 1 .. Len(s) /\ \A i \in 1 .. Len(s) : s[i] \in M
OBVIOUS

\* A sequence without its head.
LEMMA TailFacts ==
  ASSUME NEW M, NEW s \in Seq(M), s # <<>>
  PROVE  /\ Len(s) \in Nat /\ Len(s) >= 1
         /\ Head(s) = s[1] /\ Head(s) \in M
         /\ Tail(s) \in Seq(M)
         /\ Len(Tail(s)) = Len(s) - 1
         /\ \A i \in 1 .. Len(Tail(s)) : Tail(s)[i] = s[i + 1]
OBVIOUS

\* A sequence with one more element.
LEMMA AppendFacts ==
  ASSUME NEW M, NEW s \in Seq(M), NEW m \in M
  PROVE  /\ Append(s, m) \in Seq(M)
         /\ Len(s) \in Nat /\ Len(Append(s, m)) = Len(s) + 1
         /\ \A i \in 1 .. Len(s) : Append(s, m)[i] = s[i]
         /\ Append(s, m)[Len(s) + 1] = m
OBVIOUS

\* A sequence with one element less: those behind it move up.
LEMMA RemoveFacts ==
  ASSUME NEW M, NEW s \in Seq(M), NEW i \in 1 .. Len(s)
  PROVE  /\ RemoveAt(s, i) \in Seq(M)
         /\ Len(RemoveAt(s, i)) = Len(s) - 1
         /\ \A j \in 1 .. Len(s) - 1 : RemoveAt(s, i)[j] = IF j < i THEN s[j] ELSE s[j + 1]
<1> DEFINE a == SubSeq(s, 1, i - 1)
           z == SubSeq(s, i + 1, Len(s))
<1>1. Len(s) \in Nat /\ i \in Nat /\ 1 <= i /\ i <= Len(s)
  OBVIOUS
<1>2. a \in Seq(M) /\ Len(a) = i - 1 /\ \A j \in 1 .. i - 1 : a[j] = s[j]
  BY <1>1, SubSeqProperties
<1>3. z \in Seq(M) /\ Len(z) = Len(s) - i /\ \A j \in 1 .. Len(s) - i : z[j] = s[i + j]
  BY <1>1, SubSeqProperties
<1> HIDE DEF a, z
<1>4. /\ a \o z \in Seq(M) /\ Len(a \o z) = Len(a) + Len(z)
      /\ \A j \in 1 .. Len(a) + Len(z) : (a \o z)[j] = IF j <= Len(a) THEN a[j] ELSE z[j - Len(a)]
  BY <1>2, <1>3, ConcatProperties
<1>5. RemoveAt(s, i) = a \o z
  BY DEF RemoveAt, a, z
<1>6. ASSUME NEW j \in 1 .. Len(s) - 1 PROVE (a \o z)[j] = IF j < i THEN s[j] ELSE s[j + 1]
  <2>1. j \in 1 .. Len(a) + Len(z) /\ j \in Nat
    BY <1>1, <1>2, <1>3
  <2>2. CASE j < i
    BY <1>1, <1>2, <1>4, <2>1, <2>2
  <2>3. CASE ~(j < i)
    <3>1. j - Len(a) \in 1 .. Len(s) - i /\ i + (j - Len(a)) = j + 1 /\ ~(j <= Len(a))
      BY <1>1, <1>2, <2>1, <2>3
    <3> QED
      BY <1>3, <1>4, <2>1, <2>3, <3>1
  <2> QED
    BY <2>2, <2>3
<1>7. Len(a) + Len(z) = Len(s) - 1
  BY <1>1, <1>2, <1>3
<1> QED
  BY <1>4, <1>5, <1>6, <1>7

\* A set of numbers has a least one.
LEMMA Least ==
  ASSUME NEW T, T \subseteq Nat, T # {}
  PROVE  \E n \in T : \A m \in T : n <= m
<1> DEFINE R == {ss \in Nat \X Nat : ss[1] < ss[2]}
<1>1. IsWellFoundedOn(R, Nat)
  BY NatLessThanWellFounded DEF OpToRel
<1>2. \A m, n \in Nat : <<m, n>> \in R <=> m < n
  OBVIOUS
<1> HIDE DEF R
<1>3. PICK n \in T : \A m \in T : ~(<<m, n>> \in R)
  BY <1>1, WFMin
<1>4. \A m \in T : m \in Nat /\ n \in Nat
  OBVIOUS
<1>5. \A m \in T : ~(m < n)
  BY <1>2, <1>3, <1>4
<1> QED
  BY <1>4, <1>5

\* What 0 has and every next number keeps, every number has.
LEMMA Induction ==
  ASSUME NEW T, 0 \in T, \A n \in Nat : n \in T => n + 1 \in T
  PROVE  Nat \subseteq T
<1> SUFFICES ASSUME Nat \ T # {} PROVE FALSE
  OBVIOUS
<1>1. PICK n \in Nat \ T : \A m \in Nat \ T : n <= m
  BY Least
<1>2. n - 1 \in Nat /\ n - 1 \in T
  BY <1>1
<1> QED
  BY <1>1, <1>2

-----------------------------------------------------------------------------
(* Partial functions and sequences *)

\* A partial function by its domain and its values.
LEMMA PartialIs ==
  ASSUME NEW S, NEW T, NEW f
  PROVE  f \in Partial(S, T) <=> (f \in [DOMAIN f -> T] /\ DOMAIN f \subseteq S)
BY DEF Partial

\* What Without leaves.
LEMMA WithoutIs ==
  ASSUME NEW f, NEW X
  PROVE  /\ DOMAIN Without(f, X) = DOMAIN f \ X
         /\ \A x \in DOMAIN f \ X : Without(f, X)[x] = f[x]
BY DEF Without

\* Without keeps the type.
LEMMA WithoutType ==
  ASSUME NEW S, NEW T, NEW f \in Partial(S, T), NEW X
  PROVE  Without(f, X) \in Partial(S, T)
<1>1. f \in [DOMAIN f -> T] /\ DOMAIN f \subseteq S
  BY PartialIs
<1>2. Without(f, X) \in [DOMAIN f \ X -> T]
  BY <1>1 DEF Without
<1> QED
  BY <1>1, <1>2, PartialIs

\* What With overwrites and what it adds.
LEMMA WithIs ==
  ASSUME NEW f, NEW g
  PROVE  /\ DOMAIN With(f, g) = DOMAIN f \cup DOMAIN g
         /\ \A x \in DOMAIN g : With(f, g)[x] = g[x]
         /\ \A x \in DOMAIN f \ DOMAIN g : With(f, g)[x] = f[x]
BY DEF With

\* With keeps the type.
LEMMA WithType ==
  ASSUME NEW S, NEW T, NEW f \in Partial(S, T), NEW g \in Partial(S, T)
  PROVE  With(f, g) \in Partial(S, T)
<1>1. /\ f \in [DOMAIN f -> T] /\ DOMAIN f \subseteq S
      /\ g \in [DOMAIN g -> T] /\ DOMAIN g \subseteq S
  BY PartialIs
<1>2. With(f, g) \in [DOMAIN f \cup DOMAIN g -> T]
  BY <1>1 DEF With
<1> QED
  BY <1>1, <1>2, PartialIs

-----------------------------------------------------------------------------
(* Scans *)

\* The fields of a device.
LEMMA DataFacts ==
  ASSUME NEW b \in DeviceData
  PROVE  /\ b.surfaces \in Partial(Crtcs, Connectors)
         /\ b.nonDesktop \in Partial(NonDesktop, Crtcs)
         /\ b.scanner \in Partial(Connectors, Crtcs \cup {Unassigned})
         /\ b.leasing \in {"none", "active", "suspended"}
         /\ b.leases \in Seq(Partial(NonDesktop, Crtcs))
BY DEF DeviceData

\* What a scan and its events make of a device.
Updated(b, gone, connected, scan) == [Rescanned(b, gone, connected) EXCEPT !.scanner = scan]

\* The crtcs whose surface goes with a connector, and those a new connector gets.
Freed(b, gone, k) == \E c \in gone \ DOMAIN b.nonDesktop : b.scanner[c] = k
Taken(connected, k) == \E c \in DOMAIN connected \ NonDesktop : connected[c] = k

\* The device r is b without those that are gone and with those connected.
IsUpdate(b, gone, connected, scan, r) ==
  /\ r \in DeviceData
  /\ r.scanner = scan /\ r.leases = b.leases /\ r.leasing = b.leasing
  /\ \A k : k \in DOMAIN r.surfaces <=> (k \in DOMAIN b.surfaces /\ ~Freed(b, gone, k)) \/ Taken(connected, k)
  /\ \A c \in DOMAIN connected \ NonDesktop : r.surfaces[connected[c]] = c
  /\ \A k \in DOMAIN r.surfaces : ~Taken(connected, k) => r.surfaces[k] = b.surfaces[k]
  /\ \A c : c \in DOMAIN r.nonDesktop <=> (c \in DOMAIN b.nonDesktop \ gone) \/ c \in DOMAIN connected \cap NonDesktop
  /\ \A c \in DOMAIN connected \cap NonDesktop : r.nonDesktop[c] = connected[c]
  /\ \A c \in DOMAIN r.nonDesktop \ DOMAIN connected : r.nonDesktop[c] = b.nonDesktop[c]

\* What the handlers of a scan make of surfaces and connectors for leases.
LEMMA RescanFacts ==
  ASSUME NEW b \in DeviceData, NEW gone, NEW X \in SUBSET Connectors, NEW connected \in [X -> Crtcs],
         \A c, e \in X : connected[c] = connected[e] => c = e,
         NEW scan \in Partial(Connectors, Crtcs \cup {Unassigned})
  PROVE  IsUpdate(b, gone, connected, scan, Updated(b, gone, connected, scan))
<1> DEFINE freed == {b.scanner[c] : c \in gone \ DOMAIN b.nonDesktop}
           s1 == Without(b.surfaces, freed)
           n1 == Without(b.nonDesktop, gone)
           s2 == [k \in {connected[c] : c \in X \ NonDesktop} |-> CHOOSE c \in X : connected[c] = k]
           n2 == [c \in X \cap NonDesktop |-> connected[c]]
           r == Updated(b, gone, connected, scan)
<1>1. /\ s1 \in Partial(Crtcs, Connectors) /\ DOMAIN s1 = DOMAIN b.surfaces \ freed
      /\ \A k \in DOMAIN b.surfaces \ freed : s1[k] = b.surfaces[k]
  BY DataFacts, WithoutType, WithoutIs
<1>2. /\ n1 \in Partial(NonDesktop, Crtcs) /\ DOMAIN n1 = DOMAIN b.nonDesktop \ gone
      /\ \A c \in DOMAIN b.nonDesktop \ gone : n1[c] = b.nonDesktop[c]
  BY DataFacts, WithoutType, WithoutIs
<1>3. /\ s2 \in Partial(Crtcs, Connectors) /\ DOMAIN s2 = {connected[c] : c \in X \ NonDesktop}
      /\ \A c \in X \ NonDesktop : s2[connected[c]] = c
  <2>1. \A c \in X \ NonDesktop : s2[connected[c]] = c
    OBVIOUS
  <2>2. s2 \in [{connected[c] : c \in X \ NonDesktop} -> Connectors]
    BY <2>1
  <2>3. {connected[c] : c \in X \ NonDesktop} \subseteq Crtcs
    OBVIOUS
  <2> QED
    BY <2>1, <2>2, <2>3, PartialIs
<1>4. /\ n2 \in Partial(NonDesktop, Crtcs) /\ DOMAIN n2 = X \cap NonDesktop
      /\ \A c \in X \cap NonDesktop : n2[c] = connected[c]
  <2>1. n2 \in [X \cap NonDesktop -> Crtcs]
    OBVIOUS
  <2> QED
    BY <2>1, PartialIs
<1>5. DOMAIN connected = X
  OBVIOUS
<1> HIDE DEF s1, n1, s2, n2
<1>6. /\ With(s1, s2) \in Partial(Crtcs, Connectors) /\ DOMAIN With(s1, s2) = DOMAIN s1 \cup DOMAIN s2
      /\ \A k \in DOMAIN s2 : With(s1, s2)[k] = s2[k]
      /\ \A k \in DOMAIN s1 \ DOMAIN s2 : With(s1, s2)[k] = s1[k]
  <2>1. With(s1, s2) \in Partial(Crtcs, Connectors)
    BY <1>1, <1>3, WithType
  <2>2. /\ DOMAIN With(s1, s2) = DOMAIN s1 \cup DOMAIN s2
        /\ \A k \in DOMAIN s2 : With(s1, s2)[k] = s2[k]
        /\ \A k \in DOMAIN s1 \ DOMAIN s2 : With(s1, s2)[k] = s1[k]
    BY WithIs
  <2> QED
    BY <2>1, <2>2
<1>7. /\ With(n1, n2) \in Partial(NonDesktop, Crtcs) /\ DOMAIN With(n1, n2) = DOMAIN n1 \cup DOMAIN n2
      /\ \A c \in DOMAIN n2 : With(n1, n2)[c] = n2[c]
      /\ \A c \in DOMAIN n1 \ DOMAIN n2 : With(n1, n2)[c] = n1[c]
  BY <1>2, <1>4, WithType, WithIs
<1>8. /\ r.surfaces = With(s1, s2) /\ r.nonDesktop = With(n1, n2)
      /\ r.scanner = scan /\ r.leasing = b.leasing /\ r.leases = b.leases /\ r \in DeviceData
  <2> DEFINE a == ConnectorsDisconnected(b, gone)
             m == ConnectorsConnected(a, connected)
  <2>1. /\ a.surfaces = s1 /\ a.nonDesktop = n1
        /\ a.scanner = b.scanner /\ a.leasing = b.leasing /\ a.leases = b.leases /\ a \in DeviceData
    BY <1>1, <1>2 DEF ConnectorsDisconnected, DeviceData, s1, n1
  <2> HIDE DEF a
  <2>2. m = [a EXCEPT !.nonDesktop = With(@, n2), !.surfaces = With(@, s2)]
    BY <1>5 DEF ConnectorsConnected, s2, n2
  <2>3. /\ m.surfaces = With(a.surfaces, s2) /\ m.nonDesktop = With(a.nonDesktop, n2)
        /\ m.leasing = a.leasing /\ m.leases = a.leases
    BY <2>1, <2>2 DEF DeviceData
  <2>4. m \in DeviceData
    BY <1>6, <1>7, <2>1, <2>2 DEF DeviceData
  <2>5. r = [m EXCEPT !.scanner = scan]
    BY DEF Updated, Rescanned, m, a
  <2> HIDE DEF m, r
  <2>6. r.surfaces = m.surfaces /\ r.nonDesktop = m.nonDesktop /\ r.scanner = scan /\ r.leasing = m.leasing
        /\ r.leases = m.leases /\ r \in DeviceData
    BY <2>4, <2>5 DEF DeviceData
  <2> QED
    BY <2>1, <2>3, <2>6
<1> HIDE DEF r
<1>9. /\ \A k : Freed(b, gone, k) <=> k \in freed
      /\ \A k : Taken(connected, k) <=> k \in DOMAIN s2
  BY <1>3, <1>5 DEF Freed, Taken
<1>10. /\ \A k : k \in DOMAIN r.surfaces <=> (k \in DOMAIN b.surfaces /\ k \notin freed) \/ k \in DOMAIN s2
       /\ \A c \in X \ NonDesktop : r.surfaces[connected[c]] = c
       /\ \A k \in DOMAIN r.surfaces : k \notin DOMAIN s2 => r.surfaces[k] = b.surfaces[k]
  BY <1>1, <1>3, <1>6, <1>8
<1>11. /\ \A c : c \in DOMAIN r.nonDesktop <=> (c \in DOMAIN b.nonDesktop \ gone) \/ c \in X \cap NonDesktop
       /\ \A c \in X \cap NonDesktop : r.nonDesktop[c] = connected[c]
       /\ \A c \in DOMAIN r.nonDesktop \ X : r.nonDesktop[c] = b.nonDesktop[c]
  BY <1>2, <1>4, <1>7, <1>8
<1> HIDE DEF freed
<1>12. IsUpdate(b, gone, connected, scan, r)
  BY <1>5, <1>8, <1>9, <1>10, <1>11 DEF IsUpdate
<1> QED
  BY <1>12 DEF r

\* The names of ScanSucceeds.
Scanning(d, b, scan, gone, new, claimed, broken, connected) ==
  /\ gone = WithCrtc(b.scanner, DOMAIN scan)
  /\ new = WithCrtc(scan, DOMAIN b.scanner)
  /\ claimed = {c \in new \ NonDesktop : scan[c] \in Leased(b)}
  /\ broken \subseteq new \ (NonDesktop \cup claimed)
  /\ connected = [c \in new \ (claimed \cup broken) |-> scan[c]]

\* State.outputs after a scan, and the connectors that are dark then.
OutputsAfter(d, b, gone, connected) == With(OutputsDisconnected(d, b, gone), OutputsConnected(d, connected))

DarkAfter(b, scan, connected) ==
  (dark \ (DOMAIN b.scanner \ DOMAIN scan)) \cup ((DOMAIN scan \ DOMAIN b.scanner) \ DOMAIN connected)

\* What a scan finds is used, but for what it left dark and what could not be
\* set up: of the device itself and of the others.
RescanOK(d, r, scan, leasing, off, outs) ==
  /\ DeviceOK(d, r, off, outs)
  /\ r.scanner = scan /\ r.leasing = leasing
  /\ \A e \in DOMAIN backends \ {d} : DeviceOK(e, backends[e], off, outs)
  /\ outs \in Partial(Connectors, [device : Devices, crtc : Crtcs])
  /\ \A c \in DOMAIN outs : outs[c].device \in DOMAIN backends \cup {d}
  /\ \A c \in off : Home[c] \in DOMAIN backends \cup {d}

\* A scan leaves every device as the invariant wants it, the one scanned with
\* all it found but for what could not be set up.
LEMMA RescanSound ==
  ASSUME DevicesOK, plugged \subseteq Connectors, outputs \in Partial(Connectors, [device : Devices, crtc : Crtcs]),
         NEW d \in Devices, NEW b, DeviceOK(d, b, dark, outputs), NEW scan \in Scans(d, b),
         NEW gone, NEW new, NEW claimed, NEW broken, NEW connected,
         Scanning(d, b, scan, gone, new, claimed, broken, connected)
  PROVE  RescanOK(d, Updated(b, gone, connected, scan), scan, b.leasing,
                  DarkAfter(b, scan, connected), OutputsAfter(d, b, gone, connected))
<1> DEFINE X == new \ (claimed \cup broken)
           r == Updated(b, gone, connected, scan)
           outs == OutputsAfter(d, b, gone, connected)
           off == DarkAfter(b, scan, connected)
<1>1. b \in DeviceData /\ ScanIsKept(d, b) /\ OneUser(b) /\ UsesAll(d, b, dark) /\ Drives(d, b, outputs)
  BY DEF DeviceOK
<1>2. /\ DOMAIN scan = {c \in plugged : Home[c] = d}
      /\ \A c \in DOMAIN scan : scan[c] \in Crtcs \cup {Unassigned}
      /\ scan \in [DOMAIN scan -> Crtcs \cup {Unassigned}]
      /\ \A c \in DOMAIN scan \cap DOMAIN b.scanner : b.scanner[c] # Unassigned => scan[c] = b.scanner[c]
      /\ \A c, e \in DOMAIN scan : c # e /\ scan[c] = scan[e] => scan[c] = Unassigned
  BY DEF Scans
<1>3. /\ DOMAIN b.surfaces \subseteq Crtcs
      /\ DOMAIN b.nonDesktop \subseteq NonDesktop /\ \A c \in DOMAIN b.nonDesktop : b.nonDesktop[c] \in Crtcs
      /\ DOMAIN b.scanner \subseteq Connectors
  <2>1. b.nonDesktop \in [DOMAIN b.nonDesktop -> Crtcs] /\ DOMAIN b.nonDesktop \subseteq NonDesktop
    BY <1>1, DataFacts, PartialIs
  <2> QED
    BY <1>1, <2>1, DataFacts, PartialIs
<1>4. /\ \A c : c \in gone <=> c \in DOMAIN b.scanner /\ c \notin DOMAIN scan /\ b.scanner[c] # Unassigned
      /\ \A c : c \in new <=> c \in DOMAIN scan /\ c \notin DOMAIN b.scanner /\ scan[c] # Unassigned
  BY DEF WithCrtc, Scanning
<1>5. /\ X \subseteq new /\ X \in SUBSET Connectors
      /\ connected \in [X -> Crtcs] /\ DOMAIN connected = X
      /\ \A c \in X : connected[c] = scan[c]
      /\ \A c, e \in X : connected[c] = connected[e] => c = e
      /\ \A c \in X \ NonDesktop : scan[c] \notin Leased(b)
  <2>1. X \subseteq new /\ X \subseteq plugged /\ \A c \in X : scan[c] \in Crtcs
    BY <1>2, <1>4
  <2>2. \A c \in X \ NonDesktop : scan[c] \notin Leased(b)
    BY <2>1 DEF Scanning
  <2>3. \A c, e \in X : scan[c] = scan[e] => c = e
    BY <1>2, <1>4, <2>1
  <2>4. connected = [c \in X |-> scan[c]]
    BY DEF Scanning
  <2> HIDE DEF X
  <2> QED
    BY <2>1, <2>2, <2>3, <2>4
<1> HIDE DEF X
<1>6. scan \in Partial(Connectors, Crtcs \cup {Unassigned})
  BY <1>2, PartialIs
<1>7. IsUpdate(b, gone, connected, scan, r)
  BY <1>1, <1>5, <1>6, RescanFacts
<1> HIDE DEF r
<1>8. /\ \A k : Freed(b, gone, k) <=> \E c \in gone \ DOMAIN b.nonDesktop : b.scanner[c] = k
      /\ \A k : Taken(connected, k) <=> \E c \in X \ NonDesktop : scan[c] = k
  BY <1>5 DEF Freed, Taken
<1>81. /\ r \in DeviceData
       /\ r.scanner = scan /\ r.leases = b.leases /\ r.leasing = b.leasing
       /\ \A k : k \in DOMAIN r.surfaces <=> (k \in DOMAIN b.surfaces /\ ~Freed(b, gone, k)) \/ Taken(connected, k)
       /\ \A c \in X \ NonDesktop : r.surfaces[connected[c]] = c
       /\ \A k \in DOMAIN r.surfaces : ~Taken(connected, k) => r.surfaces[k] = b.surfaces[k]
       /\ \A c : c \in DOMAIN r.nonDesktop <=> (c \in DOMAIN b.nonDesktop \ gone) \/ c \in X \cap NonDesktop
       /\ \A c \in X \cap NonDesktop : r.nonDesktop[c] = connected[c]
       /\ \A c \in DOMAIN r.nonDesktop \ X : r.nonDesktop[c] = b.nonDesktop[c]
  BY <1>5, <1>7 DEF IsUpdate
\* A surface goes with its connector, and its crtc is not given away before.
<1>9. ASSUME NEW k \in DOMAIN b.surfaces
      PROVE  LET c == b.surfaces[k] IN
             /\ c \in DOMAIN b.scanner /\ c \notin NonDesktop /\ b.scanner[c] = k /\ k # Unassigned
             /\ Freed(b, gone, k) <=> c \notin DOMAIN scan
             /\ c \in DOMAIN scan => scan[c] = k /\ ~Taken(connected, k)
  <2> DEFINE c == b.surfaces[k]
  <2>1. c \in DOMAIN b.scanner /\ c \notin NonDesktop /\ b.scanner[c] = k /\ k # Unassigned
    BY <1>1, <1>3, <1>9, DevicesAssumption DEF ScanIsKept
  <2> HIDE DEF c
  <2>2. c \notin DOMAIN scan => Freed(b, gone, k)
    BY <1>3, <1>4, <1>8, <2>1
  <2>3. ASSUME c \in DOMAIN scan PROVE scan[c] = k /\ ~Taken(connected, k)
    <3>1. scan[c] = k
      BY <1>2, <2>1, <2>3
    <3>2. \A e \in X : e # c /\ e \in DOMAIN scan
      BY <1>4, <1>5, <2>1
    <3> QED
      BY <1>2, <1>8, <2>1, <2>3, <3>1, <3>2
  <2>4. c \in DOMAIN scan => ~Freed(b, gone, k)
    <3> SUFFICES ASSUME c \in DOMAIN scan, NEW e \in gone, b.scanner[e] = k PROVE FALSE
      BY <1>8
    <3>1. e # c /\ e \in DOMAIN b.scanner
      BY <1>4
    <3> QED
      BY <1>1, <2>1, <3>1 DEF ScanIsKept
  <2> QED
    BY <2>1, <2>2, <2>3, <2>4 DEF c
<1>10. ASSUME NEW k \in DOMAIN r.surfaces, ~Taken(connected, k)
       PROVE  /\ k \in DOMAIN b.surfaces /\ r.surfaces[k] = b.surfaces[k] /\ r.surfaces[k] \in DOMAIN scan
              /\ scan[r.surfaces[k]] = k /\ r.surfaces[k] \notin NonDesktop /\ r.surfaces[k] \in DOMAIN b.scanner
  BY <1>81, <1>9, <1>10
<1>11. ASSUME NEW k \in DOMAIN r.surfaces, Taken(connected, k)
       PROVE  /\ r.surfaces[k] \in X \ NonDesktop /\ r.surfaces[k] \in DOMAIN scan
              /\ scan[r.surfaces[k]] = k
  <2>1. PICK c \in X \ NonDesktop : scan[c] = k
    BY <1>8, <1>11
  <2>2. connected[c] = k /\ c \in DOMAIN scan
    BY <1>4, <1>5, <2>1
  <2> QED
    BY <1>81, <2>1, <2>2
<1>12. ASSUME NEW k \in DOMAIN b.surfaces, b.surfaces[k] \in DOMAIN scan
       PROVE  k \in DOMAIN r.surfaces /\ r.surfaces[k] = b.surfaces[k]
  BY <1>81, <1>9, <1>12
<1>13. ASSUME NEW c \in X \ NonDesktop
       PROVE  scan[c] \in DOMAIN r.surfaces /\ r.surfaces[scan[c]] = c
  BY <1>5, <1>81, <1>8, <1>13
<1>14. ASSUME NEW c \in DOMAIN r.nonDesktop
       PROVE  c \in DOMAIN scan /\ scan[c] = r.nonDesktop[c]
  <2>1. CASE c \in X
    BY <1>3, <1>4, <1>5, <1>81, <1>14, <2>1
  <2>2. CASE c \notin X
    <3>1. c \in DOMAIN b.nonDesktop /\ c \notin gone /\ r.nonDesktop[c] = b.nonDesktop[c]
      BY <1>81, <1>14, <2>2
    <3>2. c \in DOMAIN b.scanner /\ b.scanner[c] = b.nonDesktop[c] /\ b.scanner[c] # Unassigned
      BY <1>1, <1>3, <3>1, DevicesAssumption DEF ScanIsKept
    <3> QED
      BY <1>2, <1>4, <3>1, <3>2
  <2> QED
    BY <2>1, <2>2
<1>15. ScanIsKept(d, r)
  BY <1>2, <1>81, <1>10, <1>11, <1>14 DEF ScanIsKept
<1>16. OneUser(r)
  <2>1. Leased(r) = Leased(b)
    BY <1>81 DEF Leased
  <2>2. ASSUME NEW k \in DOMAIN r.surfaces, k \in Leased(r) PROVE FALSE
    <3>1. CASE Taken(connected, k)
      BY <1>5, <1>8, <2>1, <2>2, <3>1
    <3>2. CASE ~Taken(connected, k)
      BY <1>1, <1>10, <2>1, <2>2, <3>2 DEF OneUser
    <3> QED
      BY <3>1, <3>2
  <2> QED
    BY <1>1, <1>81, <2>2 DEF OneUser
<1>17. Used(r) = (Used(b) \cap DOMAIN scan) \cup X
  <2>1. \A c : c \in Used(r) <=> (\E k \in DOMAIN r.surfaces : r.surfaces[k] = c) \/ c \in DOMAIN r.nonDesktop
    BY DEF Used, Range
  <2>2. \A c : c \in Used(b) <=> (\E k \in DOMAIN b.surfaces : b.surfaces[k] = c) \/ c \in DOMAIN b.nonDesktop
    BY DEF Used, Range
  <2>3. ASSUME NEW c \in Used(r) PROVE c \in (Used(b) \cap DOMAIN scan) \cup X
    <3>1. CASE c \in DOMAIN r.nonDesktop
      BY <1>81, <1>14, <2>2, <3>1
    <3>2. ASSUME NEW k \in DOMAIN r.surfaces, r.surfaces[k] = c PROVE c \in (Used(b) \cap DOMAIN scan) \cup X
      BY <1>10, <1>11, <2>2, <3>2
    <3> QED
      BY <2>1, <2>3, <3>1, <3>2
  <2>4. ASSUME NEW c \in X PROVE c \in Used(r)
    BY <1>81, <1>13, <2>1, <2>4
  <2>5. ASSUME NEW c \in Used(b), c \in DOMAIN scan PROVE c \in Used(r)
    <3>1. CASE c \in DOMAIN b.nonDesktop
      BY <1>4, <1>81, <2>1, <2>5, <3>1
    <3>2. ASSUME NEW k \in DOMAIN b.surfaces, b.surfaces[k] = c PROVE c \in Used(r)
      BY <1>12, <2>1, <2>5, <3>2
    <3> QED
      BY <2>2, <2>5, <3>1, <3>2
  <2> QED
    BY <2>3, <2>4, <2>5
<1>18. off = (dark \ (DOMAIN b.scanner \ DOMAIN scan)) \cup ((DOMAIN scan \ DOMAIN b.scanner) \ X)
  BY <1>5 DEF DarkAfter
<1> HIDE DEF off, outs
<1>19. UsesAll(d, r, off)
  <2>1. Used(r) = DOMAIN scan \ off
    <3>1. /\ \A c : c \in Used(b) <=> c \in DOMAIN b.scanner /\ c \notin dark
          /\ X \subseteq DOMAIN scan \ DOMAIN b.scanner
      BY <1>1, <1>4, <1>5 DEF UsesAll
    <3>2. \A c \in dark : c \in DOMAIN scan => c \in DOMAIN b.scanner
      BY <1>1, <1>2 DEF UsesAll
    <3>3. \A c : c \in Used(r) <=> (c \in Used(b) /\ c \in DOMAIN scan) \/ c \in X
      BY <1>17
    <3>4. \A c : c \in off <=> (c \in dark /\ ~(c \in DOMAIN b.scanner /\ c \notin DOMAIN scan))
                                 \/ (c \in DOMAIN scan /\ c \notin DOMAIN b.scanner /\ c \notin X)
      BY <1>18
    <3> QED
      BY <3>1, <3>2, <3>3, <3>4
  <2> QED
    BY <1>1, <1>81, <1>18, <2>1 DEF UsesAll
<1>20. /\ \A c \in DOMAIN outputs : outputs[c].device \in Devices /\ outputs[c].crtc \in Crtcs
       /\ \A c \in DOMAIN outputs : outputs[c] = [device |-> outputs[c].device, crtc |-> outputs[c].crtc]
       /\ DOMAIN outputs \subseteq Connectors
  <2>1. outputs \in [DOMAIN outputs -> [device : Devices, crtc : Crtcs]] /\ DOMAIN outputs \subseteq Connectors
    BY PartialIs
  <2>2. \A c \in DOMAIN outputs : outputs[c] \in [device : Devices, crtc : Crtcs]
    BY <2>1
  <2> QED
    BY <2>1, <2>2
<1> DEFINE ends == {c \in DOMAIN outputs : \E e \in gone \ DOMAIN b.nonDesktop : outputs[c] = [device |-> d, crtc |-> b.scanner[e]]}
<1>22. OutputsDisconnected(d, b, gone) = Without(outputs, ends)
  BY DEF OutputsDisconnected
<1>23. \A c \in DOMAIN outputs : c \in ends <=> outputs[c].device = d /\ Freed(b, gone, outputs[c].crtc)
  BY <1>8, <1>20
<1> HIDE DEF ends
<1>24. /\ DOMAIN outs = (DOMAIN outputs \ ends) \cup (X \ NonDesktop)
       /\ \A c \in X \ NonDesktop : outs[c] = [device |-> d, crtc |-> scan[c]]
       /\ \A c \in DOMAIN outputs \ (ends \cup X) : outs[c] = outputs[c]
       /\ outs \in Partial(Connectors, [device : Devices, crtc : Crtcs])
  <2> DEFINE kept == Without(outputs, ends)
             added == OutputsConnected(d, connected)
  <2>1. /\ DOMAIN kept = DOMAIN outputs \ ends
        /\ \A c \in DOMAIN outputs \ ends : kept[c] = outputs[c]
        /\ kept \in Partial(Connectors, [device : Devices, crtc : Crtcs])
    BY WithoutIs, WithoutType
  <2>2. /\ DOMAIN added = X \ NonDesktop
        /\ \A c \in X \ NonDesktop : added[c] = [device |-> d, crtc |-> scan[c]]
    BY <1>5 DEF OutputsConnected
  <2>3. added \in Partial(Connectors, [device : Devices, crtc : Crtcs])
    <3>1. added \in [X \ NonDesktop -> [device : Devices, crtc : Crtcs]]
      BY <1>5 DEF OutputsConnected
    <3> QED
      BY <1>5, <2>2, <3>1, PartialIs
  <2> HIDE DEF kept, added
  <2>4. outs = With(kept, added)
    BY <1>22 DEF outs, OutputsAfter, kept, added
  <2>5. outs \in Partial(Connectors, [device : Devices, crtc : Crtcs])
    BY <2>1, <2>3, <2>4, WithType
  <2>6. /\ DOMAIN outs = DOMAIN kept \cup DOMAIN added
        /\ \A c \in DOMAIN added : outs[c] = added[c]
        /\ \A c \in DOMAIN kept \ DOMAIN added : outs[c] = kept[c]
    <3>1. /\ DOMAIN With(kept, added) = DOMAIN kept \cup DOMAIN added
          /\ \A c \in DOMAIN added : With(kept, added)[c] = added[c]
          /\ \A c \in DOMAIN kept \ DOMAIN added : With(kept, added)[c] = kept[c]
      BY WithIs
    <3> QED
      BY <2>4, <3>1
  <2> QED
    BY <2>1, <2>2, <2>5, <2>6
<1>25. \A c \in X : c \in DOMAIN scan /\ Home[c] = d /\ c \notin DOMAIN b.scanner
  BY <1>2, <1>4, <1>5
<1>26. Drives(d, r, outs)
  <2>1. ASSUME NEW c \in DOMAIN outs, outs[c].device = d
        PROVE  outs[c].crtc \in DOMAIN r.surfaces /\ r.surfaces[outs[c].crtc] = c
    <3>1. CASE c \in X \ NonDesktop
      <4>1. outs[c] = [device |-> d, crtc |-> scan[c]]
        BY <1>24, <3>1
      <4>2. outs[c].crtc = scan[c]
        BY <4>1
      <4> QED
        BY <1>13, <3>1, <4>2
    <3>2. CASE c \notin X \ NonDesktop
      <4>1. c \in DOMAIN outputs /\ c \notin ends
        BY <1>24, <2>1, <3>2
      <4>2. c \notin X
        <5> SUFFICES ASSUME c \in X PROVE FALSE
          OBVIOUS
        <5>1. c \in NonDesktop /\ outputs[c].device \in DOMAIN backends
          BY <3>2, <4>1 DEF DevicesOK
        <5>2. DeviceOK(outputs[c].device, backends[outputs[c].device], dark, outputs)
          BY <5>1 DEF DevicesOK
        <5> QED
          BY <4>1, <5>1, <5>2 DEF DeviceOK, Drives, ScanIsKept
      <4>3. outs[c] = outputs[c]
        BY <1>24, <4>1, <4>2
      <4>4. outputs[c].crtc \in DOMAIN b.surfaces /\ b.surfaces[outputs[c].crtc] = c
        BY <1>1, <2>1, <4>1, <4>3 DEF Drives
      <4>5. ~Freed(b, gone, outputs[c].crtc)
        BY <1>23, <2>1, <4>1, <4>3
      <4> QED
        BY <1>9, <1>12, <4>3, <4>4, <4>5
    <3> QED
      BY <3>1, <3>2
  <2>2. ASSUME NEW k \in DOMAIN r.surfaces
        PROVE  r.surfaces[k] \in DOMAIN outs /\ outs[r.surfaces[k]] = [device |-> d, crtc |-> k]
    <3>1. CASE Taken(connected, k)
      BY <1>11, <1>24, <3>1
    <3>2. CASE ~Taken(connected, k)
      <4> DEFINE c == r.surfaces[k]
      <4>1. k \in DOMAIN b.surfaces /\ c = b.surfaces[k] /\ c \in DOMAIN scan /\ c \in DOMAIN b.scanner
        BY <1>10, <3>2
      <4>2. c \in DOMAIN outputs /\ outputs[c] = [device |-> d, crtc |-> k]
        BY <1>1, <4>1 DEF Drives
      <4>3. ~Freed(b, gone, k)
        BY <1>9, <4>1
      <4> HIDE DEF c
      <4>4. outputs[c].crtc = k
        BY <4>2
      <4>5. c \notin ends /\ c \notin X
        BY <1>23, <1>25, <4>1, <4>2, <4>3, <4>4
      <4> QED
        BY <1>24, <4>2, <4>5 DEF c
    <3> QED
      BY <3>1, <3>2
  <2> QED
    BY <2>1, <2>2 DEF Drives
<1>27. DeviceOK(d, r, off, outs)
  BY <1>15, <1>16, <1>19, <1>26, <1>81 DEF DeviceOK
<1>28. ASSUME NEW e \in DOMAIN backends \ {d} PROVE DeviceOK(e, backends[e], off, outs)
  <2> DEFINE o == backends[e]
  <2>1. DeviceOK(e, o, dark, outputs)
    BY DEF DevicesOK
  <2> HIDE DEF o
  <2>2. \A c \in DOMAIN o.scanner : Home[c] = e
    BY <2>1 DEF DeviceOK, ScanIsKept
  <2>3. \A c : Home[c] = e => (c \in off <=> c \in dark)
    <3>1. \A c \in DOMAIN b.scanner \cup DOMAIN scan : Home[c] = d
      BY <1>1, <1>2 DEF ScanIsKept
    <3> QED
      BY <1>18, <1>28, <3>1
  <2>4. UsesAll(e, o, off)
    <3>1. UsesAll(e, o, dark)
      BY <2>1 DEF DeviceOK
    <3> QED
      BY <2>2, <2>3, <3>1 DEF UsesAll
  <2>5. Drives(e, o, outputs)
    BY <2>1 DEF DeviceOK
  <2>6. ASSUME NEW c \in DOMAIN outs, outs[c].device = e
        PROVE  outs[c].crtc \in DOMAIN o.surfaces /\ o.surfaces[outs[c].crtc] = c
    <3>1. c \notin X \ NonDesktop
      <4> SUFFICES ASSUME c \in X \ NonDesktop PROVE FALSE
        OBVIOUS
      <4>1. outs[c] = [device |-> d, crtc |-> scan[c]]
        BY <1>24
      <4> QED
        BY <1>28, <2>6, <4>1
    <3>2. c \in DOMAIN outputs /\ c \notin ends
      BY <1>24, <2>6, <3>1
    <3>3. c \notin X
      <4> SUFFICES ASSUME c \in X PROVE FALSE
        OBVIOUS
      <4>1. c \in NonDesktop /\ outputs[c].device \in DOMAIN backends
        BY <3>1, <3>2 DEF DevicesOK
      <4>2. DeviceOK(outputs[c].device, backends[outputs[c].device], dark, outputs)
        BY <4>1 DEF DevicesOK
      <4> QED
        BY <3>2, <4>1, <4>2 DEF DeviceOK, Drives, ScanIsKept
    <3>4. outs[c] = outputs[c]
      BY <1>24, <3>2, <3>3
    <3> QED
      BY <2>5, <2>6, <3>2, <3>4 DEF Drives
  <2>7. ASSUME NEW k \in DOMAIN o.surfaces
        PROVE  o.surfaces[k] \in DOMAIN outs /\ outs[o.surfaces[k]] = [device |-> e, crtc |-> k]
    <3> DEFINE c == o.surfaces[k]
    <3>1. c \in DOMAIN outputs /\ outputs[c] = [device |-> e, crtc |-> k]
      BY <2>5, <2>7 DEF Drives
    <3>2. c \in DOMAIN o.scanner
      BY <2>1, <2>7 DEF DeviceOK, ScanIsKept
    <3> HIDE DEF c
    <3>3. outputs[c].device = e
      BY <3>1
    <3>4. c \notin X /\ c \notin ends
      BY <1>23, <1>25, <1>28, <2>2, <3>1, <3>2, <3>3
    <3> QED
      BY <1>24, <3>1, <3>4 DEF c
  <2>8. Drives(e, o, outs)
    BY <2>6, <2>7 DEF Drives
  <2> QED
    BY <2>1, <2>4, <2>8 DEF DeviceOK, o
<1>29. \A c \in DOMAIN outs : outs[c].device \in DOMAIN backends \cup {d}
  <2> SUFFICES ASSUME NEW c \in DOMAIN outs PROVE outs[c].device \in DOMAIN backends \cup {d}
    OBVIOUS
  <2>1. CASE c \in X \ NonDesktop
    <3>1. outs[c] = [device |-> d, crtc |-> scan[c]]
      BY <1>24, <2>1
    <3> QED
      BY <3>1
  <2>2. CASE c \notin X \ NonDesktop
    <3>1. c \in DOMAIN outputs \ ends
      BY <1>24, <2>2
    <3>2. outputs[c].device \in DOMAIN backends
      BY <3>1 DEF DevicesOK
    <3>3. CASE c \in X
      <4>1. DeviceOK(outputs[c].device, backends[outputs[c].device], dark, outputs)
        BY <3>2 DEF DevicesOK
      <4> QED
        BY <2>2, <3>1, <3>3, <4>1 DEF DeviceOK, Drives, ScanIsKept
    <3>4. CASE c \notin X
      BY <1>24, <3>1, <3>2, <3>4
    <3> QED
      BY <3>3, <3>4
  <2> QED
    BY <2>1, <2>2
<1>30. \A c \in off : Home[c] \in DOMAIN backends \cup {d}
  BY <1>2, <1>18 DEF DevicesOK
<1> QED
  <2>1. RescanOK(d, r, scan, b.leasing, off, outs)
    BY <1>24, <1>27, <1>28, <1>29, <1>30, <1>81 DEF RescanOK
  <2> QED
    BY <2>1 DEF r, outs, off

-----------------------------------------------------------------------------
(* Devices that are added, changed and removed *)

\* The invariant says what the properties of types and crtcs say.
LEMMA DevicesTypes ==
  ASSUME DevicesInv
  PROVE  DevicesTypeOK /\ CrtcHasOneUser
<1>1. \A i \in DOMAIN events : events[i].kind \in {"Added", "Changed", "Removed"} /\ events[i].device \in Devices
  <2>1. \A i \in DOMAIN events : events[i] \in DeviceEvent
    BY DEF DevicesInv, Sorts
  <2> QED
    BY <2>1 DEF DeviceEvent
<1>2. \A d \in DOMAIN backends : backends[d] \in DeviceData /\ OneUser(backends[d])
  BY DEF DevicesInv, DevicesOK, DeviceOK
<1>3. \A d \in DOMAIN backends : ~sessionPaused => backends[d].leasing # "suspended"
  BY DEF DevicesInv, LeasesResumed
<1>4. CrtcHasOneUser
  BY <1>2 DEF CrtcHasOneUser, OneUser
<1> QED
  BY <1>1, <1>2, <1>3, <1>4 DEF DevicesInv, Sorts, DevicesTypeOK

\* A step of the handlers has touched the device d alone.
Handled(d) ==
  /\ DevicesOK'
  /\ outputs' \in Partial(Connectors, [device : Devices, crtc : Crtcs])
  /\ dark' \subseteq Connectors /\ missed' \subseteq Devices /\ faults' \in 0 .. MaxFaults /\ up' \in BOOLEAN
  /\ missed' \ {d} = missed \ {d}
  /\ DOMAIN backends' \ {d} = DOMAIN backends \ {d}
  /\ \A e \in DOMAIN backends \ {d} : backends'[e] = backends[e]
  /\ d \in DOMAIN backends' =>
       /\ d \notin missed' => DOMAIN backends'[d].scanner = {c \in plugged : Home[c] = d}
       /\ backends'[d].leasing = "suspended" => d \in DOMAIN backends /\ backends[d].leasing = "suspended"

\* The invariant of the devices, each on its own, after a step.
LEMMA DevicesAfter ==
  ASSUME \A d \in DOMAIN backends' : DeviceOK(d, backends'[d], dark', outputs'),
         \A c \in DOMAIN outputs' : outputs'[c].device \in DOMAIN backends',
         \A c \in dark' : Home[c] \in DOMAIN backends'
  PROVE  DevicesOK'
<1>1. \A d \in DOMAIN backends' : DeviceOK(d, backends[d], dark, outputs)'
  BY DEF DeviceOK, DeviceData, ScanIsKept, OneUser, Leased, UsesAll, Used, Drives, Partial
<1> QED
  BY <1>1 DEF DevicesOK

\* A device that was just opened has nothing and does nothing.
LEMMA NewDeviceOK ==
  ASSUME DevicesOK, NEW d \in Devices, d \notin DOMAIN backends, NEW leasing \in {"none", "active"}
  PROVE  DeviceOK(d, NewDevice(leasing), dark, outputs)
<1> DEFINE b == NewDevice(leasing)
<1>1. DOMAIN Empty = {} /\ \A S, T : Empty \in Partial(S, T)
  <2>1. DOMAIN Empty = {} /\ \A T : Empty \in [{} -> T]
    BY DEF Empty
  <2> QED
    BY <2>1, PartialIs
<1>2. /\ b.surfaces = Empty /\ b.nonDesktop = Empty /\ b.scanner = Empty /\ b.leasing = leasing /\ b.leases = <<>>
  BY DEF NewDevice
<1>3. b \in DeviceData
  <2>1. <<>> \in Seq(Partial(NonDesktop, Crtcs))
    OBVIOUS
  <2>2. \A S, T : Empty \in Partial(S, T)
    BY <1>1
  <2> HIDE DEF b
  <2>3. b = [surfaces |-> Empty, nonDesktop |-> Empty, scanner |-> Empty, leasing |-> leasing, leases |-> <<>>]
    BY DEF b, NewDevice
  <2> QED
    BY <2>1, <2>2, <2>3 DEF DeviceData
<1> HIDE DEF b
<1>4. ScanIsKept(d, b)
  BY <1>1, <1>2 DEF ScanIsKept
<1>5. OneUser(b)
  BY <1>1, <1>2 DEF OneUser
<1>6. UsesAll(d, b, dark)
  <2>1. Range(Empty) = {}
    BY <1>1 DEF Range
  <2> QED
    BY <1>1, <1>2, <2>1 DEF UsesAll, Used, DevicesOK
<1>7. Drives(d, b, outputs)
  BY <1>1, <1>2 DEF Drives, DevicesOK
<1> QED
  BY <1>3, <1>4, <1>5, <1>6, <1>7 DEF DeviceOK, b

\* Failures of one scan are counted by a number.
LEMMA FaultFacts ==
  ASSUME NEW S \in SUBSET Connectors
  PROVE  Cardinality(S) \in Nat
BY DevicesAssumption, FS_Subset, FS_CardinalityType

\* device_changed, whether the scan fails or not.
LEMMA ChangedHandled ==
  ASSUME Sorts, DevicesOK, NEW d \in Devices, NEW b, DeviceOK(d, b, dark, outputs), NEW live \in BOOLEAN,
         DeviceChanged(d, b, live), UNCHANGED hardware,
         b.leasing = "suspended" => d \in DOMAIN backends /\ backends[d].leasing = "suspended"
  PROVE  Handled(d) /\ d \in DOMAIN backends'
<1>1. CASE ScanFails(d, b, live)
  <2>1. /\ faults' \in 0 .. MaxFaults
        /\ missed' = missed \cup {d} /\ UNCHANGED <<outputs, dark, up>>
        /\ backends' = With(backends, [x \in {d} |-> b])
    BY <1>1, DevicesAssumption DEF ScanFails, Sorts
  <2>2. /\ DOMAIN backends' = DOMAIN backends \cup {d}
        /\ backends'[d] = b
        /\ \A e \in DOMAIN backends \ {d} : backends'[e] = backends[e]
    BY <2>1 DEF With
  <2>3. DevicesOK'
    <3>1. \A e \in DOMAIN backends' : DeviceOK(e, backends'[e], dark', outputs')
      BY <2>1, <2>2 DEF DevicesOK
    <3>2. /\ \A c \in DOMAIN outputs' : outputs'[c].device \in DOMAIN backends'
          /\ \A c \in dark' : Home[c] \in DOMAIN backends'
      BY <2>1, <2>2 DEF DevicesOK
    <3> QED
      BY <3>1, <3>2, DevicesAfter
  <2> QED
    BY <2>1, <2>2, <2>3 DEF Handled, Sorts
<1>2. CASE ScanSucceeds(d, b)
  <2>1. PICK scan \in Scans(d, b) : 
     LET gone == WithCrtc(b.scanner, DOMAIN scan)
         new == WithCrtc(scan, DOMAIN b.scanner)
         claimed == {c \in new \ NonDesktop : scan[c] \in Leased(b)}
     IN \E broken \in SUBSET (new \ (NonDesktop \cup claimed)) :
        LET connected == [c \in new \ (claimed \cup broken) |-> scan[c]]
        IN /\ faults + Cardinality(broken) <= MaxFaults
           /\ faults' = faults + Cardinality(broken)
           /\ backends' = With(backends, [x \in {d} |-> [Rescanned(b, gone, connected) EXCEPT !.scanner = scan]])
           /\ outputs' = With(OutputsDisconnected(d, b, gone), OutputsConnected(d, connected))
           /\ dark' = (dark \ (DOMAIN b.scanner \ DOMAIN scan))
                        \cup ((DOMAIN scan \ DOMAIN b.scanner) \ DOMAIN connected)
           /\ missed' = missed \ {d}
           /\ up' = (up /\ (new = {} \/ RenderNode[d] \in gpus'))
    BY <1>2 DEF ScanSucceeds
  <2> DEFINE gone == WithCrtc(b.scanner, DOMAIN scan)
             new == WithCrtc(scan, DOMAIN b.scanner)
             claimed == {c \in new \ NonDesktop : scan[c] \in Leased(b)}
  <2>2. PICK broken \in SUBSET (new \ (NonDesktop \cup claimed)) :
        LET connected == [c \in new \ (claimed \cup broken) |-> scan[c]]
        IN /\ faults + Cardinality(broken) <= MaxFaults
           /\ faults' = faults + Cardinality(broken)
           /\ backends' = With(backends, [x \in {d} |-> [Rescanned(b, gone, connected) EXCEPT !.scanner = scan]])
           /\ outputs' = With(OutputsDisconnected(d, b, gone), OutputsConnected(d, connected))
           /\ dark' = (dark \ (DOMAIN b.scanner \ DOMAIN scan))
                        \cup ((DOMAIN scan \ DOMAIN b.scanner) \ DOMAIN connected)
           /\ missed' = missed \ {d}
           /\ up' = (up /\ (new = {} \/ RenderNode[d] \in gpus'))
    BY <2>1
  <2> DEFINE connected == [c \in new \ (claimed \cup broken) |-> scan[c]]
             r == Updated(b, gone, connected, scan)
  <2>3. /\ faults + Cardinality(broken) <= MaxFaults
        /\ faults' = faults + Cardinality(broken)
        /\ backends' = With(backends, [x \in {d} |-> r])
        /\ outputs' = OutputsAfter(d, b, gone, connected)
        /\ dark' = DarkAfter(b, scan, connected)
        /\ missed' = missed \ {d}
        /\ up' \in BOOLEAN
    BY <2>2 DEF OutputsAfter, DarkAfter, Updated
  <2>4. Scanning(d, b, scan, gone, new, claimed, broken, connected)
    BY DEF Scanning
  <2>5. /\ DOMAIN scan = {c \in plugged : Home[c] = d}
        /\ broken \in SUBSET Connectors
    <3>1. DOMAIN scan = {c \in plugged : Home[c] = d}
      BY DEF Scans
    <3>2. new \subseteq DOMAIN scan
      BY DEF WithCrtc
    <3> QED
      BY <3>1, <3>2 DEF Sorts
  <2> HIDE DEF gone, new, claimed, connected
  <2>6. /\ DeviceOK(d, r, dark', outputs')
        /\ \A e \in DOMAIN backends \ {d} : DeviceOK(e, backends[e], dark', outputs')
        /\ outputs' \in Partial(Connectors, [device : Devices, crtc : Crtcs])
        /\ \A c \in DOMAIN outputs' : outputs'[c].device \in DOMAIN backends \cup {d}
        /\ \A c \in dark' : Home[c] \in DOMAIN backends \cup {d}
        /\ r.scanner = scan /\ r.leasing = b.leasing
    <3>1. plugged \subseteq Connectors /\ outputs \in Partial(Connectors, [device : Devices, crtc : Crtcs])
      BY DEF Sorts
    <3>2. RescanOK(d, r, scan, b.leasing, DarkAfter(b, scan, connected), OutputsAfter(d, b, gone, connected))
      BY <2>4, <3>1, RescanSound
    <3> QED
      BY <2>3, <3>2 DEF RescanOK
  <2> HIDE DEF r
  <2>7. /\ DOMAIN backends' = DOMAIN backends \cup {d}
        /\ backends'[d] = r
        /\ \A e \in DOMAIN backends \ {d} : backends'[e] = backends[e]
    BY <2>3 DEF With
  <2>8. DevicesOK'
    <3>1. \A e \in DOMAIN backends' : DeviceOK(e, backends'[e], dark', outputs')
      BY <2>6, <2>7
    <3> QED
      BY <2>6, <2>7, <3>1, DevicesAfter
  <2>9. dark' \subseteq Connectors
    <3>1. b \in DeviceData
      BY DEF DeviceOK
    <3>2. DarkAfter(b, scan, connected) \subseteq dark \cup DOMAIN scan
      BY DEF DarkAfter
    <3> QED
      BY <2>3, <2>5, <3>2 DEF Sorts
  <2>10. faults' \in 0 .. MaxFaults
    BY <2>3, <2>5, FaultFacts, DevicesAssumption DEF Sorts
  <2> QED
    BY <2>3, <2>5, <2>6, <2>7, <2>8, <2>9, <2>10 DEF Handled, Sorts
<1> QED
  BY <1>1, <1>2 DEF DeviceChanged

\* Nothing happened to the devices.
LEMMA DevicesStay ==
  ASSUME DevicesOK, UNCHANGED <<backends, outputs, dark>>
  PROVE  DevicesOK'
<1>1. \A d \in DOMAIN backends' : DeviceOK(d, backends'[d], dark', outputs')
  BY DEF DevicesOK
<1>2. /\ \A c \in DOMAIN outputs' : outputs'[c].device \in DOMAIN backends'
      /\ \A c \in dark' : Home[c] \in DOMAIN backends'
  BY DEF DevicesOK
<1> QED
  BY <1>1, <1>2, DevicesAfter

\* device_added of a device that is not known.
LEMMA AddedHandled ==
  ASSUME Sorts, DevicesOK, NEW d \in Devices, d \notin DOMAIN backends, DeviceAdded(d), UNCHANGED hardware
  PROVE  Handled(d) /\ d \in DOMAIN backends' \cup missed' /\ gpus' \subseteq Range(RenderNode)
<1>1. ASSUME missed' = missed \cup {d}, UNCHANGED <<backends, gpus, outputs, dark, up>>,
             faults' = (IF d \in present THEN faults + 1 ELSE faults), d \in present => faults < MaxFaults
      PROVE  Handled(d) /\ d \in DOMAIN backends' \cup missed' /\ gpus' \subseteq Range(RenderNode)
  <2>1. DevicesOK'
    BY <1>1, DevicesStay
  <2>2. faults' \in 0 .. MaxFaults
    BY <1>1, DevicesAssumption DEF Sorts
  <2> QED
    BY <1>1, <2>1, <2>2 DEF Handled, Sorts
<1>2. ASSUME NEW leasing \in {"none", "active"}, DeviceChanged(d, NewDevice(leasing), TRUE),
             gpus' = gpus \cup {RenderNode[d]}
      PROVE  Handled(d) /\ d \in DOMAIN backends' \cup missed' /\ gpus' \subseteq Range(RenderNode)
  <2>1. DeviceOK(d, NewDevice(leasing), dark, outputs)
    BY NewDeviceOK
  <2>2. NewDevice(leasing).leasing # "suspended"
    BY <1>2 DEF NewDevice
  <2>3. Handled(d) /\ d \in DOMAIN backends'
    BY <1>2, <2>1, <2>2, ChangedHandled
  <2>4. RenderNode[d] \in Range(RenderNode)
    BY DevicesAssumption DEF Range
  <2> QED
    BY <1>2, <2>3, <2>4 DEF Sorts
<1> QED
  BY <1>1, <1>2 DEF DeviceAdded

\* device_removed, known or not.
LEMMA RemovedHandled ==
  ASSUME Sorts, DevicesOK, NEW d \in Devices, DeviceRemoved(d)
  PROVE  Handled(d) /\ d \notin DOMAIN backends' /\ d \notin missed' /\ gpus' \subseteq Range(RenderNode)
<1>1. /\ dark' = {c \in dark : Home[c] # d} /\ missed' = missed \ {d} /\ UNCHANGED <<up, faults>>
      /\ gpus' \subseteq gpus
  BY DEF DeviceRemoved, GpusWithout
<1>2. /\ DOMAIN backends' = DOMAIN backends \ {d}
      /\ \A e \in DOMAIN backends \ {d} : backends'[e] = backends[e]
  <2>1. CASE d \in DOMAIN backends
    BY <2>1 DEF DeviceRemoved, Without
  <2>2. CASE d \notin DOMAIN backends
    BY <2>2 DEF DeviceRemoved
  <2> QED
    BY <2>1, <2>2
<1>3. /\ \A c \in DOMAIN outputs : outputs[c].device \in Devices /\ outputs[c].crtc \in Crtcs
      /\ \A c \in DOMAIN outputs : outputs[c] = [device |-> outputs[c].device, crtc |-> outputs[c].crtc]
  <2>1. outputs \in [DOMAIN outputs -> [device : Devices, crtc : Crtcs]] /\ DOMAIN outputs \subseteq Connectors
    BY PartialIs DEF Sorts
  <2>2. \A c \in DOMAIN outputs : outputs[c] \in [device : Devices, crtc : Crtcs]
    BY <2>1
  <2> QED
    BY <2>1, <2>2
\* All the outputs of the device go, and no other.
<1>4. /\ \A c : c \in DOMAIN outputs' <=> c \in DOMAIN outputs /\ outputs[c].device # d
      /\ \A c \in DOMAIN outputs' : outputs'[c] = outputs[c]
      /\ outputs' \in Partial(Connectors, [device : Devices, crtc : Crtcs])
  <2>1. CASE d \in DOMAIN backends
    <3> DEFINE b == backends[d]
               gone == WithCrtc(b.scanner, {})
               ends == {c \in DOMAIN outputs : \E e \in gone \ DOMAIN b.nonDesktop : outputs[c] = [device |-> d, crtc |-> b.scanner[e]]}
    <3>1. outputs' = Without(outputs, ends)
      BY <2>1 DEF DeviceRemoved, OutputsDisconnected
    <3>2. /\ b \in DeviceData /\ ScanIsKept(d, b) /\ Drives(d, b, outputs)
      BY <2>1 DEF DevicesOK, DeviceOK
    <3>3. /\ \A e : e \in gone <=> e \in DOMAIN b.scanner /\ b.scanner[e] # Unassigned
          /\ \A c : c \in ends <=> c \in DOMAIN outputs /\ \E e \in gone \ DOMAIN b.nonDesktop : outputs[c] = [device |-> d, crtc |-> b.scanner[e]]
      BY DEF WithCrtc
    <3>4. DOMAIN b.surfaces \subseteq Crtcs /\ DOMAIN b.nonDesktop \subseteq NonDesktop
      BY <3>2, DataFacts, PartialIs
    <3> HIDE DEF b, gone, ends
    <3>5. ASSUME NEW c \in ends PROVE outputs[c].device = d
      <4>1. PICK e \in gone \ DOMAIN b.nonDesktop : outputs[c] = [device |-> d, crtc |-> b.scanner[e]]
        BY <3>3, <3>5
      <4> QED
        BY <4>1
    <3>6. ASSUME NEW c \in DOMAIN outputs, outputs[c].device = d PROVE c \in ends
      <4>1. outputs[c].crtc \in DOMAIN b.surfaces /\ b.surfaces[outputs[c].crtc] = c
        BY <3>2, <3>6 DEF Drives
      <4>2. c \in DOMAIN b.scanner /\ c \notin NonDesktop /\ b.scanner[c] = outputs[c].crtc
        BY <3>2, <4>1 DEF ScanIsKept
      <4>3. c \in gone \ DOMAIN b.nonDesktop
        BY <1>3, <3>3, <3>4, <4>2, DevicesAssumption
      <4> QED
        BY <1>3, <3>3, <3>6, <4>2, <4>3
    <3>7. ends \subseteq DOMAIN outputs
      BY <3>3
    <3>8. /\ DOMAIN outputs' = DOMAIN outputs \ ends
          /\ \A c \in DOMAIN outputs \ ends : outputs'[c] = outputs[c]
      BY <3>1, WithoutIs
    <3>9. outputs' \in Partial(Connectors, [device : Devices, crtc : Crtcs])
      BY <3>1, WithoutType DEF Sorts
    <3> QED
      BY <3>5, <3>6, <3>7, <3>8, <3>9
  <2>2. CASE d \notin DOMAIN backends
    BY <2>2 DEF DeviceRemoved, DevicesOK, Sorts
  <2> QED
    BY <2>1, <2>2
<1>5. DevicesOK'
  <2>1. ASSUME NEW e \in DOMAIN backends \ {d} PROVE DeviceOK(e, backends'[e], dark', outputs')
    <3> DEFINE o == backends[e]
    <3>1. DeviceOK(e, o, dark, outputs)
      BY DEF DevicesOK
    <3> HIDE DEF o
    <3>2. UsesAll(e, o, dark')
      <4>1. \A c \in DOMAIN o.scanner : Home[c] = e
        BY <3>1 DEF DeviceOK, ScanIsKept
      <4>2. UsesAll(e, o, dark)
        BY <3>1 DEF DeviceOK
      <4> QED
        BY <1>1, <2>1, <4>1, <4>2 DEF UsesAll
    <3>3. Drives(e, o, outputs')
      <4>1. Drives(e, o, outputs)
        BY <3>1 DEF DeviceOK
      <4>2. ASSUME NEW k \in DOMAIN o.surfaces
            PROVE  o.surfaces[k] \in DOMAIN outputs' /\ outputs'[o.surfaces[k]] = [device |-> e, crtc |-> k]
        <5> DEFINE c == o.surfaces[k]
        <5>1. c \in DOMAIN outputs /\ outputs[c] = [device |-> e, crtc |-> k]
          BY <4>1 DEF Drives
        <5> HIDE DEF c
        <5>2. outputs[c].device = e
          BY <5>1
        <5> QED
          BY <1>4, <2>1, <5>1, <5>2 DEF c
      <4>3. ASSUME NEW c \in DOMAIN outputs', outputs'[c].device = e
            PROVE  outputs'[c].crtc \in DOMAIN o.surfaces /\ o.surfaces[outputs'[c].crtc] = c
        BY <1>4, <4>1, <4>3 DEF Drives
      <4> QED
        BY <4>2, <4>3 DEF Drives
    <3>4. o = backends'[e]
      BY <1>2 DEF o
    <3> QED
      BY <3>1, <3>2, <3>3, <3>4 DEF DeviceOK
  <2>3. \A c \in DOMAIN outputs' : outputs'[c].device \in DOMAIN backends'
    BY <1>2, <1>4 DEF DevicesOK
  <2>4. \A c \in dark' : Home[c] \in DOMAIN backends'
    BY <1>1, <1>2 DEF DevicesOK
  <2> QED
    BY <1>2, <2>1, <2>3, <2>4, DevicesAfter
<1> QED
  BY <1>1, <1>2, <1>4, <1>5 DEF Handled, Sorts

-----------------------------------------------------------------------------
(* The events of the kernel *)

\* The queue of udev.
LEMMA EventsAre ==
  ASSUME Sorts
  PROVE  /\ Len(events) \in Nat /\ DOMAIN events = 1 .. Len(events)
         /\ \A i \in 1 .. Len(events) : events[i] \in DeviceEvent
BY SeqFacts DEF Sorts

\* One more event.
LEMMA QueueLonger ==
  ASSUME Sorts, EventsFollow, NEW e \in DeviceEvent, events' = Append(events, e), Follows(present, e, present'),
         UNCHANGED <<backends, missed, starting>>, present' \subseteq Devices, starting \subseteq present'
  PROVE  EventsFollow'
<1> DEFINE n == Len(events)
<1>1. /\ n \in Nat /\ Len(events') = n + 1
      /\ \A i \in 1 .. n : events'[i] = events[i]
      /\ events'[n + 1] = e
  BY AppendFacts DEF Sorts
<1>2. PICK h \in [0 .. n -> SUBSET Devices] : Past(h)
  BY DEF EventsFollow
<1>3. PICK g : g = [i \in 0 .. n + 1 |-> IF i = n + 1 THEN present' ELSE h[i]]
  OBVIOUS
<1>4. /\ g \in [0 .. n + 1 -> SUBSET Devices] /\ g[n + 1] = present'
      /\ \A i \in 0 .. n : g[i] = h[i]
  <2>1. \A i \in 0 .. n : i # n + 1 /\ i \in 0 .. n + 1 /\ h[i] \in SUBSET Devices
    BY <1>1
  <2>2. \A i \in 0 .. n + 1 : i # n + 1 => i \in 0 .. n
    BY <1>1
  <2>3. n + 1 \in 0 .. n + 1
    BY <1>1
  <2> HIDE DEF n
  <2> QED
    BY <1>3, <2>1, <2>2, <2>3
<1>5. h[n] = present /\ 0 \in 0 .. n /\ n \in 0 .. n
  BY <1>1, <1>2 DEF Past
<1>6. ASSUME NEW i \in 1 .. n + 1 PROVE Follows(g[i - 1], events'[i], g[i])
  <2>1. CASE i = n + 1
    <3>1. i - 1 = n
      BY <1>1, <2>1
    <3> QED
      BY <1>1, <1>4, <1>5, <2>1, <3>1
  <2>2. CASE i # n + 1
    <3>1. i \in 1 .. n /\ i \in 0 .. n /\ i - 1 \in 0 .. n
      BY <1>1, <2>2
    <3>2. Follows(h[i - 1], events[i], h[i])
      BY <1>2, <3>1 DEF Past
    <3> QED
      BY <1>1, <1>4, <3>1, <3>2
  <2> QED
    BY <2>1, <2>2
<1>7. /\ DOMAIN backends \subseteq h[0] /\ h[0] \subseteq DOMAIN backends \cup starting \cup missed
      /\ \A i \in 0 .. n : starting \subseteq h[i]
  BY <1>2 DEF Past
<1>8. \A i \in 0 .. n + 1 : starting \subseteq g[i]
  <2>1. \A i \in 0 .. n + 1 : i = n + 1 \/ i \in 0 .. n
    BY <1>1
  <2> HIDE DEF n
  <2> QED
    BY <1>4, <1>7, <2>1
<1>9. Past(g)'
  <2> HIDE DEF n
  <2> QED
    BY <1>1, <1>4, <1>5, <1>6, <1>7, <1>8 DEF Past
<1> QED
  BY <1>1, <1>4, <1>9 DEF EventsFollow

\* The first event is handled.
LEMMA QueueShorter ==
  ASSUME Sorts, events # <<>>, events' = Tail(events), UNCHANGED <<present, starting>>,
         NEW h \in [0 .. Len(events) -> SUBSET Devices], Past(h),
         DOMAIN backends' \subseteq h[1], h[1] \subseteq DOMAIN backends' \cup starting \cup missed'
  PROVE  EventsFollow'
<1> DEFINE n == Len(events)
<1>1. /\ n \in Nat /\ n >= 1 /\ Len(events') = n - 1
      /\ \A i \in 1 .. n - 1 : events'[i] = events[i + 1]
  BY TailFacts DEF Sorts
<1>2. PICK g : g = [i \in 0 .. n - 1 |-> h[i + 1]]
  OBVIOUS
<1>3. /\ \A i \in 0 .. n - 1 : i + 1 \in 0 .. n /\ i + 1 \in 1 .. n
      /\ \A i \in 1 .. n - 1 : i \in 0 .. n - 1 /\ i - 1 \in 0 .. n - 1 /\ (i - 1) + 1 = i /\ i + 1 \in 1 .. n /\ (i + 1) - 1 = i
      /\ 0 \in 0 .. n - 1 /\ n - 1 \in 0 .. n - 1 /\ (n - 1) + 1 = n /\ 0 + 1 = 1
  BY <1>1
<1>4. g \in [0 .. n - 1 -> SUBSET Devices] /\ \A i \in 0 .. n - 1 : g[i] = h[i + 1]
  BY <1>2, <1>3
<1>5. /\ h[n] = present
      /\ \A i \in 1 .. n : Follows(h[i - 1], events[i], h[i])
      /\ \A i \in 0 .. n : starting \subseteq h[i]
  BY DEF Past
<1>6. ASSUME NEW i \in 1 .. n - 1 PROVE Follows(g[i - 1], events'[i], g[i])
  <2>1. Follows(h[(i + 1) - 1], events[i + 1], h[i + 1])
    BY <1>3, <1>5
  <2>2. g[i - 1] = h[i] /\ g[i] = h[i + 1] /\ (i + 1) - 1 = i /\ events'[i] = events[i + 1]
    BY <1>1, <1>3, <1>4
  <2> QED
    BY <2>1, <2>2
<1>7. \A i \in 0 .. n - 1 : starting \subseteq g[i]
  BY <1>3, <1>4, <1>5
<1>8. g[0] = h[1] /\ g[n - 1] = h[n]
  BY <1>3, <1>4
<1>9. Past(g)'
  <2> HIDE DEF n
  <2> QED
    BY <1>1, <1>5, <1>6, <1>7, <1>8 DEF Past
<1> QED
  BY <1>1, <1>4, <1>9 DEF EventsFollow

\* Where no event of a device is waiting, what was is.
LEMMA NothingHappened ==
  ASSUME Sorts, NEW h \in [0 .. Len(events) -> SUBSET Devices], Past(h), NEW d,
         \A i \in DOMAIN events : events[i].device # d
  PROVE  d \in h[0] <=> d \in present
<1> DEFINE T == {n \in Nat : n <= Len(events) => (d \in h[n] <=> d \in h[0])}
<1>1. Len(events) \in Nat /\ DOMAIN events = 1 .. Len(events)
  BY EventsAre
<1>2. ASSUME NEW n \in Nat, n \in T PROVE n + 1 \in T
  <2> SUFFICES ASSUME n + 1 <= Len(events) PROVE d \in h[n + 1] <=> d \in h[0]
    OBVIOUS
  <2>1. n + 1 \in 1 .. Len(events) /\ (n + 1) - 1 = n /\ n <= Len(events)
    BY <1>1
  <2>2. Follows(h[n], events[n + 1], h[n + 1])
    BY <2>1 DEF Past
  <2>3. events[n + 1].device # d
    BY <1>1, <2>1
  <2>4. d \in h[n] <=> d \in h[0]
    BY <1>2, <2>1
  <2> QED
    BY <2>2, <2>3, <2>4 DEF Follows
<1>3. 0 \in T
  OBVIOUS
<1> HIDE DEF T
<1>4. Len(events) \in T
  BY <1>1, <1>2, <1>3, Induction
<1> QED
  BY <1>1, <1>4 DEF T, Past

-----------------------------------------------------------------------------
(* The steps *)

\* What the handlers did to one device leaves the invariant as it was.
LEMMA HandledInv ==
  ASSUME DevicesInv, NEW d \in Devices, Handled(d), UNCHANGED <<hardware, sessionPaused>>, ready' \in BOOLEAN,
         gpus' \subseteq Range(RenderNode), events' \in Seq(DeviceEvent),
         starting' \subseteq starting, starting' \cap DOMAIN backends' = {}, EventsFollow',
         \A e \in Devices \ {d} : Quiet(e)' => Quiet(e)
  PROVE  DevicesInv'
<1>1. Sorts /\ LeasesResumed /\ ScansAreFresh
  BY DEF DevicesInv
<1>2. /\ DOMAIN backends' \subseteq Devices
      /\ \A e \in DOMAIN backends' \ {d} : e \in DOMAIN backends /\ backends'[e] = backends[e]
  BY <1>1 DEF Handled, Sorts
<1>3. Sorts'
  BY <1>1, <1>2 DEF Sorts, Handled, hardware
<1>4. LeasesResumed'
  BY <1>1, <1>2 DEF LeasesResumed, Handled
<1>5. ScansAreFresh'
  <2> SUFFICES ASSUME NEW e \in DOMAIN backends' \ missed', Quiet(e)'
               PROVE  DOMAIN backends'[e].scanner = {c \in plugged' : Home[c] = e}
    BY DEF ScansAreFresh
  <2>1. CASE e = d
    BY <2>1 DEF Handled, hardware
  <2>2. CASE e # d
    <3>1. e \in DOMAIN backends \ missed /\ backends'[e] = backends[e] /\ Quiet(e)
      BY <1>2, <2>2 DEF Handled
    <3> QED
      BY <1>1, <3>1 DEF ScansAreFresh, hardware
  <2> QED
    BY <2>1, <2>2
<1> QED
  BY <1>3, <1>4, <1>5 DEF DevicesInv, Handled

\* A device of the start.
LEMMA TimerInv ==
  ASSUME DevicesInv, NEW d \in Devices, DeviceTimer(d)
  PROVE  DevicesInv'
<1>1. /\ d \in starting /\ starting' = starting \ {d} /\ DeviceAdded(d)
      /\ UNCHANGED <<hardware, events, ready, sessionPaused>>
  BY DEF DeviceTimer
<1>2. Sorts /\ DevicesOK /\ starting \cap DOMAIN backends = {} /\ EventsFollow
  BY DEF DevicesInv
<1>3. Handled(d) /\ d \in DOMAIN backends' \cup missed' /\ gpus' \subseteq Range(RenderNode)
  BY <1>1, <1>2, AddedHandled
<1>4. /\ starting' \cap DOMAIN backends' = {}
      /\ \A e \in DOMAIN backends' : e = d \/ e \in DOMAIN backends
      /\ \A e \in DOMAIN backends \cup starting \cup missed : e = d \/ e \in DOMAIN backends' \cup starting' \cup missed'
  BY <1>1, <1>2, <1>3 DEF Handled
<1>5. EventsFollow'
  <2>1. PICK h \in [0 .. Len(events) -> SUBSET Devices] : Past(h)
    BY <1>2 DEF EventsFollow
  <2>2. Len(events) \in Nat /\ 0 \in 0 .. Len(events)
    BY <1>2, EventsAre
  <2>3. DOMAIN backends' \subseteq h[0]
    BY <1>1, <1>4, <2>1, <2>2 DEF Past
  <2>4. h[0] \subseteq DOMAIN backends' \cup starting' \cup missed'
    BY <1>3, <1>4, <2>1 DEF Past
  <2>5. \A i \in 0 .. Len(events) : starting' \subseteq h[i]
    BY <1>1, <2>1 DEF Past
  <2>6. Past(h)'
    BY <1>1, <2>1, <2>3, <2>4, <2>5 DEF Past, hardware
  <2> QED
    BY <1>1, <2>1, <2>6 DEF EventsFollow
<1>6. \A e \in Devices \ {d} : Quiet(e)' => Quiet(e)
  BY <1>1 DEF Quiet
<1> QED
  BY <1>1, <1>2, <1>3, <1>4, <1>5, <1>6, HandledInv DEF Sorts

\* An event of udev.
LEMMA EventInv ==
  ASSUME DevicesInv, NEW kind \in {"Added", "Changed", "Removed"}, UdevEvent(kind)
  PROVE  DevicesInv'
<1> DEFINE e == Head(events)
           d == e.device
<1>1. /\ events # <<>> /\ events' = Tail(events) /\ e.kind = kind
      /\ UNCHANGED <<hardware, starting, ready, sessionPaused>>
      /\ \/ kind = "Added" /\ DeviceAdded(d)
         \/ kind = "Changed" /\ UNCHANGED gpus /\
              IF d \in DOMAIN backends THEN DeviceChanged(d, backends[d], Live(d))
              ELSE UNCHANGED <<backends, outputs, up, dark, missed, faults>>
         \/ kind = "Removed" /\ DeviceRemoved(d)
  BY DEF UdevEvent
<1>2. Sorts /\ DevicesOK /\ starting \cap DOMAIN backends = {} /\ EventsFollow /\ LeasesResumed /\ ScansAreFresh
  BY DEF DevicesInv
<1>3. /\ Len(events) \in Nat /\ Len(events) >= 1 /\ e = events[1] /\ e \in DeviceEvent
      /\ Tail(events) \in Seq(DeviceEvent) /\ Len(Tail(events)) = Len(events) - 1
      /\ \A i \in 1 .. Len(Tail(events)) : Tail(events)[i] = events[i + 1]
  BY <1>1, <1>2, TailFacts DEF Sorts
<1>4. d \in Devices
  BY <1>3 DEF DeviceEvent
<1>5. PICK h \in [0 .. Len(events) -> SUBSET Devices] : Past(h)
  BY <1>2 DEF EventsFollow
<1>6. /\ DOMAIN backends \subseteq h[0] /\ h[0] \subseteq DOMAIN backends \cup starting \cup missed
      /\ starting \subseteq h[0] /\ starting \subseteq h[1] /\ Follows(h[0], e, h[1])
  <2>1. 1 \in 1 .. Len(events) /\ 0 \in 0 .. Len(events) /\ 1 \in 0 .. Len(events) /\ 1 - 1 = 0
    BY <1>3
  <2> QED
    BY <1>3, <1>5, <2>1 DEF Past
<1> HIDE DEF e, d
<1>7. /\ Handled(d) /\ gpus' \subseteq Range(RenderNode) /\ starting \cap DOMAIN backends' = {}
      /\ DOMAIN backends' \subseteq h[1] /\ h[1] \subseteq DOMAIN backends' \cup starting \cup missed'
  <2>1. CASE kind = "Added"
    <3>1. DeviceAdded(d) /\ d \notin h[0] /\ h[1] = h[0] \cup {d}
      BY <1>1, <1>6, <2>1 DEF Follows, d
    <3>2. Handled(d) /\ d \in DOMAIN backends' \cup missed' /\ gpus' \subseteq Range(RenderNode)
      BY <1>1, <1>2, <1>4, <1>6, <3>1, AddedHandled
    <3> QED
      BY <1>2, <1>6, <3>1, <3>2 DEF Handled
  <2>2. CASE kind = "Changed"
    <3>1. h[1] = h[0] /\ UNCHANGED gpus
      BY <1>1, <1>6, <2>2 DEF Follows
    <3>2. CASE d \in DOMAIN backends
      <4>1. DeviceChanged(d, backends[d], Live(d)) /\ Live(d) \in BOOLEAN
        BY <1>1, <2>2, <3>2 DEF Live
      <4>2. DeviceOK(d, backends[d], dark, outputs)
        BY <1>2, <3>2 DEF DevicesOK
      <4>3. Handled(d) /\ d \in DOMAIN backends'
        BY <1>1, <1>2, <1>4, <3>2, <4>1, <4>2, ChangedHandled
      <4> QED
        BY <1>2, <1>6, <3>1, <3>2, <4>3 DEF Handled, Sorts
    <3>3. CASE d \notin DOMAIN backends
      <4>1. UNCHANGED <<backends, outputs, up, dark, missed, faults>>
        BY <1>1, <2>2, <3>3
      <4>2. DevicesOK'
        BY <1>2, <4>1, DevicesStay
      <4>3. Handled(d)
        BY <1>2, <3>3, <4>1, <4>2 DEF Handled, Sorts
      <4> QED
        BY <1>2, <1>6, <3>1, <4>1, <4>3 DEF Sorts
    <3> QED
      BY <3>2, <3>3
  <2>3. CASE kind = "Removed"
    <3>1. DeviceRemoved(d) /\ h[1] = h[0] \ {d}
      BY <1>1, <1>6, <2>3 DEF Follows, d
    <3>2. Handled(d) /\ d \notin DOMAIN backends' /\ d \notin missed' /\ gpus' \subseteq Range(RenderNode)
      BY <1>2, <1>4, <3>1, RemovedHandled
    <3> QED
      BY <1>2, <1>6, <3>1, <3>2 DEF Handled
  <2> QED
    BY <2>1, <2>2, <2>3
<1>8. EventsFollow'
  BY <1>1, <1>2, <1>5, <1>7, QueueShorter DEF hardware
<1>9. ASSUME NEW f \in Devices \ {d}, Quiet(f)' PROVE Quiet(f)
  <2> SUFFICES ASSUME NEW i \in 1 .. Len(events), events[i].device = f PROVE events[i].kind = "Added"
    BY <1>2, EventsAre DEF Quiet
  <2>1. i # 1
    BY <1>3, <1>9 DEF d
  <2>2. i - 1 \in 1 .. Len(Tail(events)) /\ (i - 1) + 1 = i
    BY <1>3, <2>1
  <2>3. Tail(events)[i - 1] = events[i] /\ i - 1 \in DOMAIN Tail(events)
    BY <1>3, <2>2, SeqFacts
  <2> QED
    BY <1>1, <1>9, <2>3 DEF Quiet
<1> QED
  BY <1>1, <1>2, <1>3, <1>4, <1>7, <1>8, <1>9, HandledInv DEF Sorts

\* The hardware changes and udev hears of it.
LEMMA NotifyInv ==
  ASSUME DevicesInv, NEW kind \in {"Added", "Changed", "Removed"}, NEW d \in Devices, Notify(kind, d),
         NEW e, e = [kind |-> kind, device |-> d], Follows(present, e, present'),
         present' \subseteq Devices, plugged' \subseteq Connectors, starting \subseteq present',
         kind # "Changed" => plugged' = plugged,
         \A c : Home[c] # d => (c \in plugged' <=> c \in plugged)
  PROVE  DevicesInv'
<1>1. /\ events' = Append(events, e) /\ e \in DeviceEvent /\ e.kind = kind /\ e.device = d
      /\ UNCHANGED <<starting, ready, backends, gpus, outputs, sessionPaused, up, dark, missed, faults>>
  BY DEF Notify, DeviceEvent
<1>2. Sorts /\ DevicesOK /\ starting \cap DOMAIN backends = {} /\ EventsFollow /\ LeasesResumed /\ ScansAreFresh
  BY DEF DevicesInv
<1>3. /\ Append(events, e) \in Seq(DeviceEvent) /\ DOMAIN events = 1 .. Len(events)
      /\ Len(events) \in Nat /\ Len(events') = Len(events) + 1 /\ DOMAIN events' = 1 .. Len(events) + 1
      /\ \A i \in 1 .. Len(events) : events'[i] = events[i]
      /\ events'[Len(events) + 1] = e
  BY <1>1, <1>2, AppendFacts, SeqFacts DEF Sorts
<1>4. Sorts'
  BY <1>1, <1>2, <1>3 DEF Sorts
<1>5. LeasesResumed' /\ starting' \cap DOMAIN backends' = {}
  BY <1>1, <1>2 DEF LeasesResumed
<1>6. DevicesOK'
  BY <1>1, <1>2, DevicesStay
<1>7. EventsFollow'
  BY <1>1, <1>2, QueueLonger
<1>8. ASSUME NEW f \in DOMAIN backends' \ missed', Quiet(f)'
      PROVE  DOMAIN backends'[f].scanner = {c \in plugged' : Home[c] = f}
  <2>1. Quiet(f)
    <3> SUFFICES ASSUME NEW i \in DOMAIN events, events[i].device = f PROVE events[i].kind = "Added"
      BY DEF Quiet
    <3>1. i \in DOMAIN events' /\ events'[i] = events[i]
      BY <1>3
    <3> QED
      BY <1>8, <3>1 DEF Quiet
  <2>2. f = d => kind = "Added"
    <3>1. Len(events) + 1 \in DOMAIN events'
      BY <1>3
    <3> QED
      BY <1>1, <1>3, <1>8, <3>1 DEF Quiet
  <2>3. DOMAIN backends[f].scanner = {c \in plugged : Home[c] = f}
    BY <1>1, <1>2, <1>8, <2>1 DEF ScansAreFresh
  <2>4. {c \in plugged : Home[c] = f} = {c \in plugged' : Home[c] = f}
    BY <2>2
  <2> QED
    BY <1>1, <2>3, <2>4
<1>9. ScansAreFresh'
  BY <1>8 DEF ScansAreFresh
<1> QED
  BY <1>4, <1>5, <1>6, <1>7, <1>9 DEF DevicesInv

\* The hardware's three steps.
LEMMA HardwareInv ==
  ASSUME DevicesInv
  PROVE  /\ \A d \in Devices : PlugDevice(d) \/ UnplugDevice(d) => DevicesInv'
         /\ \A c \in Connectors : SwitchDisplay(c) => DevicesInv'
<1>1. Sorts /\ present \subseteq Devices /\ plugged \subseteq Connectors /\ starting \subseteq present
  BY DEF DevicesInv, Sorts
<1>2. ASSUME NEW d \in Devices, PlugDevice(d) PROVE DevicesInv'
  <2> DEFINE e == [kind |-> "Added", device |-> d]
  <2>1. d \notin present /\ present' = present \cup {d} /\ plugged' = plugged /\ Notify("Added", d)
    BY <1>2 DEF PlugDevice
  <2>2. Follows(present, e, present')
    BY <2>1 DEF Follows
  <2> HIDE DEF e
  <2> QED
    BY <1>1, <2>1, <2>2, NotifyInv DEF e
<1>3. ASSUME NEW d \in Devices, UnplugDevice(d) PROVE DevicesInv'
  <2> DEFINE e == [kind |-> "Removed", device |-> d]
  <2>1. d \in present \ starting /\ present' = present \ {d} /\ plugged' = plugged /\ Notify("Removed", d)
    BY <1>3 DEF UnplugDevice
  <2>2. Follows(present, e, present')
    BY <2>1 DEF Follows
  <2> HIDE DEF e
  <2> QED
    BY <1>1, <2>1, <2>2, NotifyInv DEF e
<1>4. ASSUME NEW c \in Connectors, SwitchDisplay(c) PROVE DevicesInv'
  <2> DEFINE d == Home[c]
             e == [kind |-> "Changed", device |-> d]
  <2>1. /\ d \in Devices /\ present' = present /\ Notify("Changed", d)
        /\ plugged' = IF c \in plugged THEN plugged \ {c} ELSE plugged \cup {c}
    BY <1>4, DevicesAssumption DEF SwitchDisplay
  <2>2. Follows(present, e, present')
    BY <2>1 DEF Follows
  <2>3. plugged' \subseteq Connectors /\ \A f : Home[f] # d => (f \in plugged' <=> f \in plugged)
    BY <1>1, <2>1
  <2> HIDE DEF e, d
  <2> QED
    BY <1>1, <2>1, <2>2, <2>3, NotifyInv DEF e
<1> QED
  BY <1>2, <1>3, <1>4

\* What a device with other leases, or another state of the leasing, has left.
SameScan(b, r) ==
  r.surfaces = b.surfaces /\ r.nonDesktop = b.nonDesktop /\ r.scanner = b.scanner

\* Leases come and go, and nothing else.
LEMMA LeasesOnly ==
  ASSUME DevicesInv, sessionPaused' \in BOOLEAN, LeasesResumed', DOMAIN backends' = DOMAIN backends,
         UNCHANGED <<hardware, events, starting, ready, gpus, outputs, up, dark, missed, faults>>,
         \A d \in DOMAIN backends : backends'[d] \in DeviceData /\ SameScan(backends[d], backends'[d]) /\ OneUser(backends'[d])
  PROVE  DevicesInv'
<1>1. Sorts /\ DevicesOK /\ starting \cap DOMAIN backends = {} /\ EventsFollow /\ ScansAreFresh
  BY DEF DevicesInv
<1>2. Sorts'
  BY <1>1 DEF Sorts, hardware
<1>3. DevicesOK'
  <2>1. ASSUME NEW d \in DOMAIN backends' PROVE DeviceOK(d, backends'[d], dark', outputs')
    <3> DEFINE b == backends[d]
               r == backends'[d]
    <3>1. DeviceOK(d, b, dark, outputs) /\ r \in DeviceData /\ SameScan(b, r) /\ OneUser(r)
      BY <1>1 DEF DevicesOK
    <3> HIDE DEF b, r
    <3>2. ScanIsKept(d, r)
      BY <3>1 DEF DeviceOK, ScanIsKept, SameScan
    <3>3. UsesAll(d, r, dark)
      BY <3>1 DEF DeviceOK, UsesAll, Used, SameScan
    <3>4. Drives(d, r, outputs)
      BY <3>1 DEF DeviceOK, Drives, SameScan
    <3> QED
      BY <3>1, <3>2, <3>3, <3>4 DEF DeviceOK, r
  <2> QED
    BY <1>1, <2>1, DevicesAfter DEF DevicesOK
<1>4. EventsFollow'
  <2>1. PICK h \in [0 .. Len(events) -> SUBSET Devices] : Past(h)
    BY <1>1 DEF EventsFollow
  <2>2. Past(h)'
    BY <2>1 DEF Past, hardware
  <2> QED
    BY <2>1, <2>2 DEF EventsFollow
<1>5. ScansAreFresh'
  <2>1. \A d : Quiet(d)' <=> Quiet(d)
    BY DEF Quiet
  <2> QED
    BY <1>1, <2>1 DEF ScansAreFresh, SameScan, hardware
<1> QED
  BY <1>1, <1>2, <1>3, <1>4, <1>5 DEF DevicesInv

\* The leasing of a device that is suspended or resumed.
LEMMA LessorFacts ==
  ASSUME DevicesInv, NEW from, NEW to \in {"active", "suspended"}, NEW d \in DOMAIN backends
  PROVE  LET r == Lessors(from, to)[d] IN
         /\ r \in DeviceData /\ SameScan(backends[d], r) /\ r.leases = backends[d].leases
         /\ r.leasing = IF backends[d].leasing = from THEN to ELSE backends[d].leasing
<1> DEFINE b == backends[d]
<1>1. b \in DeviceData
  BY DEF DevicesInv, DevicesOK, DeviceOK
<1>2. Lessors(from, to)[d] = IF b.leasing = from THEN [b EXCEPT !.leasing = to] ELSE b
  BY DEF Lessors
<1> HIDE DEF b
<1> QED
  BY <1>1, <1>2 DEF DeviceData, SameScan, b

\* Every known device has its type and one user for each crtc.
LEMMA OneUserFacts ==
  ASSUME DevicesInv, NEW d \in DOMAIN backends
  PROVE  backends[d] \in DeviceData /\ OneUser(backends[d])
BY DEF DevicesInv, DevicesOK, DeviceOK

\* Pause and activation.
LEMMA SessionInv ==
  ASSUME DevicesInv, PauseDevices \/ ActivateDevices
  PROVE  DevicesInv'
<1>1. CASE PauseDevices
  <2> DEFINE r(d) == Lessors("active", "suspended")[d]
  <2>1. /\ sessionPaused' = TRUE
        /\ UNCHANGED <<hardware, events, starting, ready, gpus, outputs, up, dark, missed, faults>>
        /\ backends' = [d \in DOMAIN backends |-> [r(d) EXCEPT !.leases = <<>>]]
    BY <1>1 DEF PauseDevices
  <2>2. ASSUME NEW d \in DOMAIN backends
        PROVE  backends'[d] \in DeviceData /\ SameScan(backends[d], backends'[d]) /\ OneUser(backends'[d])
    <3>1. r(d) \in DeviceData /\ SameScan(backends[d], r(d))
      BY LessorFacts
    <3>2. backends'[d] = [r(d) EXCEPT !.leases = <<>>]
      BY <2>1
    <3> HIDE DEF r
    <3>3. <<>> \in Seq(Partial(NonDesktop, Crtcs))
      OBVIOUS
    <3>4. backends'[d] \in DeviceData /\ backends'[d].leases = <<>>
      BY <3>1, <3>2, <3>3 DEF DeviceData
    <3>5. SameScan(r(d), backends'[d])
      BY <3>1, <3>2 DEF DeviceData, SameScan
    <3> QED
      BY <3>1, <3>4, <3>5 DEF OneUser, Leased, SameScan
  <2> HIDE DEF r
  <2>3. DOMAIN backends' = DOMAIN backends
    BY <2>1
  <2>4. LeasesResumed'
    BY <2>1 DEF LeasesResumed
  <2> QED
    BY <2>1, <2>2, <2>3, <2>4, LeasesOnly
<1>2. CASE ActivateDevices
  <2>1. /\ sessionPaused' = FALSE /\ backends' = Lessors("suspended", "active")
        /\ UNCHANGED <<hardware, events, starting, ready, gpus, outputs, up, dark, missed, faults>>
    BY <1>2 DEF ActivateDevices
  <2>2. DOMAIN backends' = DOMAIN backends
    BY <2>1 DEF Lessors
  <2>3. ASSUME NEW d \in DOMAIN backends
        PROVE  /\ backends'[d] \in DeviceData /\ SameScan(backends[d], backends'[d]) /\ OneUser(backends'[d])
               /\ backends'[d].leasing # "suspended"
    <3>1. /\ backends'[d] \in DeviceData /\ SameScan(backends[d], backends'[d])
          /\ backends'[d].leases = backends[d].leases
          /\ backends'[d].leasing = IF backends[d].leasing = "suspended" THEN "active" ELSE backends[d].leasing
      BY <2>1, LessorFacts
    <3>2. OneUser(backends[d])
      BY OneUserFacts
    <3> QED
      BY <3>1, <3>2 DEF OneUser, Leased, SameScan
  <2>4. LeasesResumed'
    BY <2>2, <2>3 DEF LeasesResumed
  <2> QED
    BY <2>1, <2>2, <2>3, <2>4, LeasesOnly
<1> QED
  BY <1>1, <1>2

\* A new lease has connectors whose crtcs nothing uses.
LEMMA LeaseInv ==
  ASSUME DevicesInv, NEW d \in Devices, NEW asked \in SUBSET Connectors, LeaseRequest(d, asked)
  PROVE  DevicesInv'
<1> DEFINE b == backends[d]
           lease == [c \in asked |-> b.nonDesktop[c]]
           r == backends'[d]
<1>1. /\ d \in DOMAIN backends /\ b.leasing = "active" /\ MayLease(b, asked)
      /\ backends' = [backends EXCEPT ![d].leases = Append(@, lease)]
      /\ UNCHANGED <<hardware, events, starting, ready, gpus, outputs, sessionPaused, up, dark, missed, faults>>
  BY DEF LeaseRequest
<1>2. b \in DeviceData /\ OneUser(b)
  BY <1>1, OneUserFacts
<1>3. /\ b.nonDesktop \in [DOMAIN b.nonDesktop -> Crtcs] /\ DOMAIN b.nonDesktop \subseteq NonDesktop
      /\ b.leases \in Seq(Partial(NonDesktop, Crtcs))
  BY <1>2, DataFacts, PartialIs
<1>4. asked \subseteq DOMAIN b.nonDesktop /\ \A c \in asked : b.nonDesktop[c] \notin Claimed(b)
  BY <1>1 DEF MayLease
<1>5. lease \in Partial(NonDesktop, Crtcs) /\ DOMAIN lease = asked
  <2>1. lease \in [asked -> Crtcs] /\ asked \subseteq NonDesktop
    BY <1>3, <1>4
  <2> QED
    BY <2>1, PartialIs
<1>6. \A k \in Range(lease) : k \notin DOMAIN b.surfaces /\ k \notin Leased(b)
  BY <1>4 DEF Range, Claimed
<1>7. /\ DOMAIN backends' = DOMAIN backends /\ \A e \in DOMAIN backends \ {d} : backends'[e] = backends[e]
      /\ r = [b EXCEPT !.leases = Append(b.leases, lease)]
  BY <1>1
<1> HIDE DEF b, r, lease
<1>8. LET s == b.leases
          z == Append(s, lease)
      IN /\ z \in Seq(Partial(NonDesktop, Crtcs)) /\ DOMAIN z = 1 .. Len(s) + 1
         /\ Len(s) \in Nat /\ DOMAIN s = 1 .. Len(s)
         /\ \A i \in 1 .. Len(s) : z[i] = s[i]
         /\ z[Len(s) + 1] = lease
  BY <1>3, <1>5, AppendFacts, SeqFacts
<1>9. r \in DeviceData /\ SameScan(b, r) /\ r.leases = Append(b.leases, lease) /\ r.leasing = b.leasing
  <2>1. r \in DeviceData
    BY <1>2, <1>7, <1>8 DEF DeviceData
  <2>2. SameScan(b, r) /\ r.leases = Append(b.leases, lease) /\ r.leasing = b.leasing
    BY <1>2, <1>7 DEF DeviceData, SameScan
  <2> QED
    BY <2>1, <2>2
<1>10. ASSUME NEW i \in DOMAIN r.leases
       PROVE  \/ i \in DOMAIN b.leases /\ r.leases[i] = b.leases[i]
              \/ i \notin DOMAIN b.leases /\ i = Len(b.leases) + 1 /\ r.leases[i] = lease
  BY <1>8, <1>9
<1>11. OneUser(r)
  <2>1. \A k \in Leased(r) : k \in Leased(b) \/ k \in Range(lease)
    BY <1>10 DEF Leased
  <2>2. \A i \in DOMAIN b.leases : Range(b.leases[i]) \subseteq Leased(b)
    BY DEF Leased
  <2>3. DOMAIN r.surfaces \cap Leased(r) = {}
    BY <1>2, <1>6, <1>9, <2>1 DEF OneUser, SameScan
  <2>4. ASSUME NEW i \in DOMAIN r.leases, NEW j \in DOMAIN r.leases, i # j
        PROVE  Range(r.leases[i]) \cap Range(r.leases[j]) = {}
    <3>1. i \in DOMAIN b.leases \/ j \in DOMAIN b.leases
      BY <1>10, <2>4
    <3> QED
      BY <1>2, <1>6, <1>10, <2>2, <2>4, <3>1 DEF OneUser
  <2> QED
    BY <2>3, <2>4 DEF OneUser
<1>12. ASSUME NEW e \in DOMAIN backends
       PROVE  backends'[e] \in DeviceData /\ SameScan(backends[e], backends'[e]) /\ OneUser(backends'[e])
  <2>1. CASE e = d
    BY <1>9, <1>11, <2>1 DEF b, r
  <2>2. CASE e # d
    <3>1. backends'[e] = backends[e]
      BY <1>7, <2>2
    <3> QED
      BY <3>1, OneUserFacts DEF SameScan
  <2> QED
    BY <2>1, <2>2
<1>13. LeasesResumed'
  <2>1. LeasesResumed
    BY DEF DevicesInv
  <2>2. \A e \in DOMAIN backends : backends'[e].leasing = backends[e].leasing
    BY <1>7, <1>9 DEF b, r
  <2> QED
    BY <1>1, <1>7, <2>1, <2>2 DEF LeasesResumed
<1>14. sessionPaused' \in BOOLEAN
  BY <1>1 DEF DevicesInv, Sorts
<1> QED
  BY <1>1, <1>7, <1>12, <1>13, <1>14, LeasesOnly

\* A lease that ends frees its crtcs.
LEMMA LeaseDestroyedInv ==
  ASSUME DevicesInv, NEW d \in DOMAIN backends, NEW i \in DOMAIN backends[d].leases, LeaseDestroyed(d, i)
  PROVE  DevicesInv'
<1> DEFINE b == backends[d]
           r == backends'[d]
<1>1. /\ backends' = [backends EXCEPT ![d].leases = RemoveAt(@, i)]
      /\ UNCHANGED <<hardware, events, starting, ready, gpus, outputs, sessionPaused, up, dark, missed, faults>>
  BY DEF LeaseDestroyed
<1>2. b \in DeviceData /\ OneUser(b) /\ i \in DOMAIN b.leases
  BY OneUserFacts
<1>3. /\ DOMAIN backends' = DOMAIN backends /\ \A e \in DOMAIN backends \ {d} : backends'[e] = backends[e]
      /\ r = [b EXCEPT !.leases = RemoveAt(b.leases, i)]
  BY <1>1
<1> HIDE DEF b, r
<1>4. LET s == b.leases
          z == RemoveAt(s, i)
      IN /\ z \in Seq(Partial(NonDesktop, Crtcs)) /\ DOMAIN z = 1 .. Len(s) - 1
         /\ Len(s) \in Nat /\ DOMAIN s = 1 .. Len(s) /\ i \in 1 .. Len(s)
         /\ \A j \in 1 .. Len(s) - 1 : z[j] = IF j < i THEN s[j] ELSE s[j + 1]
  <2> DEFINE s == b.leases
  <2>1. s \in Seq(Partial(NonDesktop, Crtcs)) /\ i \in DOMAIN s
    BY <1>2, DataFacts
  <2> HIDE DEF s
  <2>2. Len(s) \in Nat /\ DOMAIN s = 1 .. Len(s) /\ i \in 1 .. Len(s)
    BY <2>1, SeqFacts
  <2>3. /\ RemoveAt(s, i) \in Seq(Partial(NonDesktop, Crtcs))
        /\ Len(RemoveAt(s, i)) = Len(s) - 1
        /\ \A j \in 1 .. Len(s) - 1 : RemoveAt(s, i)[j] = IF j < i THEN s[j] ELSE s[j + 1]
    BY <2>1, <2>2, RemoveFacts
  <2>4. DOMAIN RemoveAt(s, i) = 1 .. Len(s) - 1
    BY <2>3, SeqFacts
  <2> QED
    BY <2>2, <2>3, <2>4 DEF s
<1>5. r \in DeviceData /\ SameScan(b, r) /\ r.leases = RemoveAt(b.leases, i) /\ r.leasing = b.leasing
  <2>1. r \in DeviceData
    BY <1>2, <1>3, <1>4 DEF DeviceData
  <2>2. SameScan(b, r) /\ r.leases = RemoveAt(b.leases, i) /\ r.leasing = b.leasing
    BY <1>2, <1>3 DEF DeviceData, SameScan
  <2> QED
    BY <2>1, <2>2
<1> DEFINE from(j) == IF j < i THEN j ELSE j + 1
<1>6. /\ \A j \in DOMAIN r.leases : from(j) \in DOMAIN b.leases /\ r.leases[j] = b.leases[from(j)]
      /\ \A j, k \in DOMAIN r.leases : j # k => from(j) # from(k)
  <2> DEFINE n == Len(b.leases)
  <2>1. /\ n \in Nat /\ i \in 1 .. n /\ DOMAIN b.leases = 1 .. n /\ DOMAIN r.leases = 1 .. n - 1
        /\ \A j \in 1 .. n - 1 : r.leases[j] = IF j < i THEN b.leases[j] ELSE b.leases[j + 1]
    BY <1>4, <1>5
  <2> HIDE DEF n
  <2>2. \A j \in 1 .. n - 1 : from(j) \in 1 .. n
    BY <2>1
  <2>3. \A j, k \in 1 .. n - 1 : j # k => from(j) # from(k)
    BY <2>1
  <2> QED
    BY <2>1, <2>2, <2>3
<1> HIDE DEF from
<1>7. OneUser(r)
  <2>1. Leased(r) \subseteq Leased(b)
    BY <1>6 DEF Leased
  <2> QED
    BY <1>2, <1>5, <1>6, <2>1 DEF OneUser, SameScan
<1>8. ASSUME NEW e \in DOMAIN backends
      PROVE  backends'[e] \in DeviceData /\ SameScan(backends[e], backends'[e]) /\ OneUser(backends'[e])
  <2>1. CASE e = d
    BY <1>5, <1>7, <2>1 DEF b, r
  <2>2. CASE e # d
    <3>1. backends'[e] = backends[e]
      BY <1>3, <2>2
    <3> QED
      BY <3>1, OneUserFacts DEF SameScan
  <2> QED
    BY <2>1, <2>2
<1>9. LeasesResumed'
  <2>1. LeasesResumed
    BY DEF DevicesInv
  <2>2. \A e \in DOMAIN backends : backends'[e].leasing = backends[e].leasing
    BY <1>3, <1>5 DEF b, r
  <2> QED
    BY <1>1, <1>3, <2>1, <2>2 DEF LeasesResumed
<1>10. sessionPaused' \in BOOLEAN
  BY <1>1 DEF DevicesInv, Sorts
<1> QED
  BY <1>1, <1>3, <1>8, <1>9, <1>10, LeasesOnly

\* The timer behind those of the start.
LEMMA InitTimerInv ==
  ASSUME DevicesInv, InitTimer
  PROVE  DevicesInv'
<1>1. Sorts /\ DevicesOK /\ starting \cap DOMAIN backends = {} /\ EventsFollow /\ LeasesResumed /\ ScansAreFresh
  BY DEF DevicesInv
<1>2. /\ ready' = TRUE /\ up' = (up /\ PrimaryGpu \in gpus)
      /\ UNCHANGED <<hardware, events, starting, backends, gpus, outputs, sessionPaused, dark, missed, faults>>
  BY DEF InitTimer
<1>3. Sorts'
  BY <1>1, <1>2 DEF Sorts, hardware
<1>4. DevicesOK'
  BY <1>1, <1>2, DevicesStay
<1>5. EventsFollow'
  <2>1. PICK h \in [0 .. Len(events) -> SUBSET Devices] : Past(h)
    BY <1>1 DEF EventsFollow
  <2>2. Past(h)'
    BY <1>2, <2>1 DEF Past, hardware
  <2> QED
    BY <1>2, <2>1, <2>2 DEF EventsFollow
<1>6. ScansAreFresh' /\ LeasesResumed'
  BY <1>1, <1>2 DEF ScansAreFresh, Quiet, LeasesResumed, hardware
<1> QED
  BY <1>1, <1>2, <1>3, <1>4, <1>5, <1>6 DEF DevicesInv

\* A step of other components.
LEMMA DevicesStutter ==
  ASSUME DevicesInv, UNCHANGED devicesVars
  PROVE  DevicesInv'
<1>1. Sorts /\ DevicesOK /\ starting \cap DOMAIN backends = {} /\ EventsFollow /\ LeasesResumed /\ ScansAreFresh
  BY DEF DevicesInv
<1>2. UNCHANGED <<present, plugged, events, starting, ready, backends, gpus, outputs, sessionPaused, up, dark, missed, faults>>
  BY DEF devicesVars, hardware
<1>3. Sorts'
  BY <1>1, <1>2 DEF Sorts
<1>4. DevicesOK'
  BY <1>1, <1>2, DevicesStay
<1>5. EventsFollow'
  <2>1. PICK h \in [0 .. Len(events) -> SUBSET Devices] : Past(h)
    BY <1>1 DEF EventsFollow
  <2>2. Past(h)'
    BY <1>2, <2>1 DEF Past
  <2> QED
    BY <1>2, <2>1, <2>2 DEF EventsFollow
<1>6. ScansAreFresh' /\ LeasesResumed'
  BY <1>1, <1>2 DEF ScansAreFresh, Quiet, LeasesResumed
<1> QED
  BY <1>1, <1>2, <1>3, <1>4, <1>5, <1>6 DEF DevicesInv

\* At the start nothing is known.
LEMMA DevicesInitial == DevicesInit => DevicesInv
<1> SUFFICES ASSUME DevicesInit PROVE DevicesInv
  OBVIOUS
<1>1. /\ present \subseteq Devices /\ plugged \subseteq Connectors /\ events = <<>> /\ starting = present
      /\ ready = FALSE /\ backends = Empty /\ gpus = {} /\ outputs = Empty /\ sessionPaused = FALSE
      /\ up = TRUE /\ dark = {} /\ missed = {} /\ faults = 0
  BY DEF DevicesInit
<1>2. DOMAIN backends = {} /\ DOMAIN outputs = {}
  BY <1>1 DEF Empty
<1>3. outputs \in Partial(Connectors, [device : Devices, crtc : Crtcs])
  <2>1. outputs \in [DOMAIN outputs -> [device : Devices, crtc : Crtcs]]
    BY <1>1, <1>2 DEF Empty
  <2> QED
    BY <1>2, <2>1, PartialIs
<1>4. events \in Seq(DeviceEvent) /\ Len(events) = 0
  BY <1>1
<1>5. Sorts
  <2>1. faults \in 0 .. MaxFaults
    BY <1>1, DevicesAssumption
  <2>2. /\ ready \in BOOLEAN /\ sessionPaused \in BOOLEAN /\ up \in BOOLEAN
        /\ gpus \subseteq Range(RenderNode) /\ dark \subseteq Connectors /\ missed \subseteq Devices
    BY <1>1
  <2>3. DOMAIN backends \subseteq Devices /\ starting \subseteq present
    BY <1>1, <1>2
  <2> QED
    BY <1>1, <1>3, <1>4, <2>1, <2>2, <2>3 DEF Sorts
<1>6. DevicesOK
  BY <1>1, <1>2 DEF DevicesOK
<1>7. EventsFollow
  <2>1. PICK h : h = [i \in 0 .. 0 |-> present]
    OBVIOUS
  <2>2. h \in [0 .. Len(events) -> SUBSET Devices] /\ h[0] = present
    BY <1>1, <1>4, <2>1
  <2>3. Past(h)
    BY <1>1, <1>2, <1>4, <2>2 DEF Past
  <2> QED
    BY <2>2, <2>3 DEF EventsFollow
<1> QED
  BY <1>1, <1>2, <1>5, <1>6, <1>7 DEF DevicesInv, LeasesResumed, ScansAreFresh

\* Every step of the devices keeps the invariant.
LEMMA DevicesStep ==
  ASSUME DevicesInv, [DevicesNext]_devicesVars
  PROVE  DevicesInv'
<1>1. ASSUME NEW d \in Devices, PlugDevice(d) PROVE DevicesInv'
  BY <1>1, HardwareInv
<1>2. ASSUME NEW d \in Devices, UnplugDevice(d) PROVE DevicesInv'
  BY <1>2, HardwareInv
<1>3. ASSUME NEW d \in Devices, DeviceTimer(d) PROVE DevicesInv'
  BY <1>3, TimerInv
<1>4. ASSUME NEW c \in Connectors, SwitchDisplay(c) PROVE DevicesInv'
  BY <1>4, HardwareInv
<1>5. CASE InitTimer
  BY <1>5, InitTimerInv
<1>6. ASSUME NEW kind \in {"Added", "Changed", "Removed"}, UdevEvent(kind) PROVE DevicesInv'
  BY <1>6, EventInv
<1>7. CASE PauseDevices \/ ActivateDevices
  BY <1>7, SessionInv
<1>8. CASE Client
  <2>1. ASSUME NEW d \in Devices, NEW asked \in SUBSET {c \in Connectors : Home[c] = d}, LeaseRequest(d, asked)
        PROVE  DevicesInv'
    BY <2>1, LeaseInv
  <2>2. ASSUME NEW d \in Devices, d \in DOMAIN backends, NEW i \in DOMAIN backends[d].leases, LeaseDestroyed(d, i)
        PROVE  DevicesInv'
    BY <2>2, LeaseDestroyedInv
  <2> QED
    BY <1>8, <2>1, <2>2 DEF Client
<1>9. CASE UNCHANGED devicesVars
  BY <1>9, DevicesStutter
<1> QED
  BY <1>1, <1>2, <1>3, <1>4, <1>5, <1>6, <1>7, <1>8, <1>9 DEF DevicesNext

\* The inductive invariant of the udev backend's devices holds in every state.
THEOREM DevicesInductive == DevicesSpec => []DevicesInv
<1>1. DevicesInit => DevicesInv
  BY DevicesInitial
<1>2. DevicesInv /\ [DevicesNext]_devicesVars => DevicesInv'
  BY DevicesStep
<1> QED
  BY <1>1, <1>2, PTL DEF DevicesSpec

(***************************************************************************)
(* In every state of every system every variable has its type, only a      *)
(* paused session suspends leases, and no crtc of a device has two users   *)
(* (udev.rs: connector_connected, lease_request, pause, device_removed).   *)
(***************************************************************************)
THEOREM DevicesTyped == DevicesSpec => [](DevicesTypeOK /\ CrtcHasOneUser)
<1>1. DevicesInv => DevicesTypeOK /\ CrtcHasOneUser
  BY DevicesTypes
<1> QED
  BY <1>1, DevicesInductive, PTL

\* OutputsAreDriven is Drives of every device.
LEMMA DrivenThen == DevicesInv => OutputsAreDriven
<1> SUFFICES ASSUME DevicesInv PROVE OutputsAreDriven
  OBVIOUS
<1>1. DevicesOK
  BY DEF DevicesInv
<1>2. \A d \in DOMAIN backends : Drives(d, backends[d], outputs)
  BY <1>1 DEF DevicesOK, DeviceOK
<1>3. \A c \in DOMAIN outputs : outputs[c].device \in DOMAIN backends
  BY <1>1 DEF DevicesOK
<1> QED
  BY <1>2, <1>3 DEF OutputsAreDriven, Drives

(***************************************************************************)
(* OutputsAreDriven in every state of every system: whatever order events, *)
(* rescans, failures and removals come in, State.outputs and the surfaces  *)
(* of the devices name each other (udev.rs: connector_connected,           *)
(* connector_disconnected, device_removed).                                *)
(***************************************************************************)
THEOREM OutputsDriven == DevicesSpec => []OutputsAreDriven
BY DrivenThen, DevicesInductive, PTL

\* DisplaysAreKnown: by the timeline a device is known exactly if it is there,
\* by its last scan the connectors in use are the plugged ones.
LEMMA KnownThen == DevicesInv => DisplaysAreKnown
<1> SUFFICES ASSUME DevicesInv, NEW d \in Devices, d \notin starting, d \notin missed,
                    \A i \in DOMAIN events : events[i].device # d
             PROVE  /\ d \in DOMAIN backends <=> d \in present
                    /\ d \in present => Used(backends[d]) = {c \in plugged : Home[c] = d} \ dark
  BY DEF DisplaysAreKnown
<1>1. Sorts /\ DevicesOK /\ EventsFollow /\ ScansAreFresh
  BY DEF DevicesInv
<1>2. d \in DOMAIN backends <=> d \in present
  <2>1. PICK h \in [0 .. Len(events) -> SUBSET Devices] : Past(h)
    BY <1>1 DEF EventsFollow
  <2>2. d \in h[0] <=> d \in present
    BY <1>1, <2>1, NothingHappened
  <2>3. DOMAIN backends \subseteq h[0] /\ h[0] \subseteq DOMAIN backends \cup starting \cup missed
    BY <2>1 DEF Past
  <2> QED
    BY <2>2, <2>3
<1>3. ASSUME d \in present PROVE Used(backends[d]) = {c \in plugged : Home[c] = d} \ dark
  <2>1. d \in DOMAIN backends \ missed /\ Quiet(d)
    BY <1>2, <1>3 DEF Quiet
  <2>2. DOMAIN backends[d].scanner = {c \in plugged : Home[c] = d}
    BY <1>1, <2>1 DEF ScansAreFresh
  <2>3. UsesAll(d, backends[d], dark)
    BY <1>1, <2>1 DEF DevicesOK, DeviceOK
  <2> QED
    BY <2>2, <2>3 DEF UsesAll
<1> QED
  BY <1>2, <1>3

(***************************************************************************)
(* DisplaysAreKnown in every state of every system: a device whose events  *)
(* are handled is known if it is there, with the displays it has, however  *)
(* its events lay between those of others and of its own past              *)
(* (udev.rs: UdevEvent, device_added, device_changed, device_removed).     *)
(***************************************************************************)
THEOREM DisplaysKnown == DevicesSpec => []DisplaysAreKnown
BY KnownThen, DevicesInductive, PTL

\* No two devices have one render node, as two cards of their own have not.
RendersAlone == \A d, e \in Devices : RenderNode[d] = RenderNode[e] => d = e

\* A renderer goes with the only device that used it.
LEMMA RendererStep ==
  ASSUME RendersAlone, DevicesInv, RendererIsThere, [DevicesNext]_devicesVars
  PROVE  RendererIsThere'
<1>1. DOMAIN backends \subseteq Devices /\ events \in Seq(DeviceEvent)
  BY DEF DevicesInv, Sorts
<1>2. ASSUME gpus \subseteq gpus', NEW d, \A e \in DOMAIN backends' : e \in DOMAIN backends \/ (e = d /\ RenderNode[d] \in gpus')
      PROVE  RendererIsThere'
  BY <1>2 DEF RendererIsThere
<1>3. ASSUME UNCHANGED gpus, DOMAIN backends' \subseteq DOMAIN backends PROVE RendererIsThere'
  BY <1>3 DEF RendererIsThere
<1>4. ASSUME NEW d, NEW b, NEW live, DeviceChanged(d, b, live)
      PROVE  \A e \in DOMAIN backends' : e \in DOMAIN backends \/ e = d
  <2>1. \A r : \A e \in DOMAIN With(backends, [x \in {d} |-> r]) : e \in DOMAIN backends \/ e = d
    BY DEF With
  <2>2. \E r : backends' = With(backends, [x \in {d} |-> r])
    BY <1>4 DEF DeviceChanged, ScanFails, ScanSucceeds
  <2> QED
    BY <2>1, <2>2
<1>5. ASSUME NEW d, DeviceAdded(d) PROVE RendererIsThere'
  <2>1. CASE UNCHANGED <<backends, gpus>>
    BY <1>3, <2>1
  <2>2. ASSUME gpus' = gpus \cup {RenderNode[d]}, NEW leasing, DeviceChanged(d, NewDevice(leasing), TRUE)
        PROVE  RendererIsThere'
    BY <1>2, <1>4, <2>2
  <2> QED
    BY <1>5, <2>1, <2>2 DEF DeviceAdded
<1>6. ASSUME NEW d \in Devices, DeviceRemoved(d) PROVE RendererIsThere'
  <2>1. CASE d \in DOMAIN backends
    <3>1. gpus' = gpus \ {RenderNode[d]} /\ DOMAIN backends' = DOMAIN backends \ {d}
      BY <1>6, <2>1 DEF DeviceRemoved, GpusWithout, Without
    <3> QED
      BY <1>1, <3>1 DEF RendererIsThere, RendersAlone
  <2>2. CASE d \notin DOMAIN backends
    BY <1>3, <1>6, <2>2 DEF DeviceRemoved
  <2> QED
    BY <2>1, <2>2
<1>7. ASSUME NEW d \in Devices, PlugDevice(d) \/ UnplugDevice(d) \/ DeviceTimer(d) PROVE RendererIsThere'
  BY <1>3, <1>5, <1>7 DEF PlugDevice, UnplugDevice, DeviceTimer, Notify
<1>8. ASSUME NEW c, SwitchDisplay(c) PROVE RendererIsThere'
  BY <1>3, <1>8 DEF SwitchDisplay, Notify
<1>9. ASSUME NEW kind \in {"Added", "Changed", "Removed"}, UdevEvent(kind) PROVE RendererIsThere'
  <2> DEFINE d == Head(events).device
  <2>1. /\ events # <<>>
        /\ \/ DeviceAdded(d)
           \/ UNCHANGED gpus /\ d \in DOMAIN backends /\ DeviceChanged(d, backends[d], Live(d))
           \/ UNCHANGED <<gpus, backends>>
           \/ DeviceRemoved(d)
    BY <1>9 DEF UdevEvent
  <2>2. d \in Devices
    <3>1. Head(events) \in DeviceEvent
      BY <1>1, <2>1, TailFacts
    <3> QED
      BY <3>1 DEF DeviceEvent
  <2> HIDE DEF d
  <2>3. CASE UNCHANGED gpus /\ d \in DOMAIN backends /\ DeviceChanged(d, backends[d], Live(d))
    <3>1. DOMAIN backends' \subseteq DOMAIN backends
      BY <1>4, <2>3
    <3> QED
      BY <1>3, <2>3, <3>1
  <2> QED
    BY <1>3, <1>5, <1>6, <2>1, <2>2, <2>3
<1>10. CASE InitTimer \/ PauseDevices \/ ActivateDevices
  BY <1>3, <1>10 DEF InitTimer, PauseDevices, ActivateDevices, Lessors
<1>11. CASE Client
  BY <1>3, <1>11 DEF Client, LeaseRequest, LeaseDestroyed
<1>12. CASE UNCHANGED devicesVars
  BY <1>3, <1>12 DEF devicesVars
<1> QED
  BY <1>7, <1>8, <1>9, <1>10, <1>11, <1>12 DEF DevicesNext

(***************************************************************************)
(* DevicesAreSound in every state of every system in which no two devices  *)
(* have one render node: device_removed takes the renderer of the node     *)
(* away, also from another device that renders with it                     *)
(* (udev.rs: device_added, device_removed, connector_connected).           *)
(***************************************************************************)
THEOREM DevicesSound ==
  ASSUME RendersAlone
  PROVE  DevicesSpec => []DevicesAreSound
<1>1. DevicesInit => RendererIsThere
  BY DEF DevicesInit, RendererIsThere, Empty
<1>2. RendersAlone /\ DevicesInv /\ RendererIsThere /\ [DevicesNext]_devicesVars => RendererIsThere'
  BY RendererStep
<1>3. DevicesInv /\ RendererIsThere => DevicesAreSound
  BY DevicesTypes DEF DevicesAreSound
<1>4. []RendersAlone
  BY PTL
<1> QED
  BY <1>1, <1>2, <1>3, <1>4, DevicesInductive, PTL DEF DevicesSpec
=============================================================================
