------------------------------ MODULE Captures -------------------------------
(***************************************************************************)
(* Screen copies (scape-display/src/protocols/wlr_screencopy.rs, udev.rs)  *)
(* on top of the render scheduler: a client asks for a frame of an output, *)
(* the request to copy it waits in one list for all outputs, and the next  *)
(* render of any output empties the list.                                  *)
(*                                                                         *)
(* A client copies a frame once, as the protocol asks, and its name is     *)
(* used again when it was answered.                                        *)
(***************************************************************************)
EXTENDS RenderScheduler

CONSTANTS
  Frame,
  NoCrtc

ASSUME CapturesAssumption == NoCrtc \notin Crtc

VARIABLES
  stage,   \* what became of each frame
  source,  \* the crtc of the output that was captured, until it is unplugged
  image    \* the crtc whose output the copy shows

captureVars == <<stage, source, image>>
allVars == <<vars, captureVars>>

\* Besides the types: the copy that failed shows nothing, that of a ready frame
\* shows something, and a source is that of a frame in use and is there.
CapturesTypeOK ==
  /\ stage \in [Frame -> {"free", "captured", "queued", "ready", "failed"}]
  /\ source \in [Frame -> Crtc \cup {NoCrtc}]
  /\ image \in [Frame -> Crtc \cup {NoCrtc}]
  /\ \A f \in Frame : image[f] # NoCrtc <=> stage[f] = "ready"
  /\ \A f \in Frame : source[f] # NoCrtc => stage[f] # "free" /\ source[f] \in surfaces

CapturesInit ==
  /\ Init
  /\ stage = [f \in Frame |-> "free"]
  /\ source = [f \in Frame |-> NoCrtc]
  /\ image = [f \in Frame |-> NoCrtc]

\* The list State.screencopy_frames
Queue == {f \in Frame : stage[f] = "queued"}

-----------------------------------------------------------------------------
\* CaptureOutput and CaptureOutputRegion, for an output that is there.
Capture(f, c) ==
  /\ stage[f] = "free"
  /\ c \in surfaces
  /\ stage' = [stage EXCEPT ![f] = "captured"]
  /\ source' = [source EXCEPT ![f] = c]
  /\ UNCHANGED <<vars, image>>

\* Copy and CopyWithDamage, ScreencopyHandler::frame: without a surface that has
\* the output the frame is dropped, and that fails it.
Copy(f) ==
  /\ stage[f] = "captured"
  /\ IF source[f] = NoCrtc
       THEN stage' = [stage EXCEPT ![f] = "failed"] /\ UNCHANGED vars
       ELSE stage' = [stage EXCEPT ![f] = "queued"] /\ RequestRender({source[f]})
  /\ UNCHANGED <<source, image>>

\* The client destroys a frame that was answered.
DestroyFrame(f) ==
  /\ stage[f] \in {"ready", "failed"}
  /\ stage' = [stage EXCEPT ![f] = "free"]
  /\ source' = [source EXCEPT ![f] = NoCrtc]
  /\ image' = [image EXCEPT ![f] = NoCrtc]
  /\ UNCHANGED vars

\* What the list becomes when c was rendered, or was not.
Answer(c, rendered) ==
  /\ stage' = [f \in Frame |-> IF f \in Queue
                                 THEN IF rendered THEN "ready" ELSE "failed"
                                 ELSE stage[f]]
  /\ image' = [f \in Frame |-> IF f \in Queue /\ rendered THEN c ELSE image[f]]

\* render_surface for an output that can be rendered at all: a paused device
\* fails, another one may fail, and only a rendered frame is handed on.
RenderSurface(c) ==
  /\ RunIdle(c)
  /\ IF c \in surfaces \cap active
       THEN \/ ~paused /\ Answer(c, TRUE)
            \/ flips' = flips /\ Answer(c, FALSE)
       ELSE UNCHANGED <<stage, image>>
  /\ UNCHANGED source

\* The output of an unplugged connector is gone for good: one that is plugged in
\* again has another.
Unplug(c) ==
  /\ Disconnect(c)
  /\ source' = [f \in Frame |-> IF source[f] = c THEN NoCrtc ELSE source[f]]
  /\ UNCHANGED <<stage, image>>

-----------------------------------------------------------------------------
Schedulers ==
  /\ \/ Commit
     \/ \E c \in Crtc : VBlank(c) \/ TimerFires(c) \/ Connect(c) \/ RetryInitial(c)
     \/ \E S \in SUBSET surfaces : SetLayout(S)
     \/ PauseSession
     \/ ActivateSession
  /\ UNCHANGED captureVars

CapturesNext ==
  \/ \E f \in Frame : Copy(f) \/ DestroyFrame(f) \/ \E c \in Crtc : Capture(f, c)
  \/ \E c \in Crtc : RenderSurface(c) \/ Unplug(c)
  \/ Schedulers

CapturesSpec == CapturesInit /\ [][CapturesNext]_allVars

\* The loop runs its idles and its timers.
CapturesFairness ==
  \A c \in Crtc : WF_allVars(RenderSurface(c)) /\ WF_allVars(TimerFires(c) /\ UNCHANGED captureVars)

FairCaptures == CapturesSpec /\ CapturesFairness

-----------------------------------------------------------------------------
(* Properties *)

\* A copy of an output that is shown and owes a render, as it does from the request
\* on, is answered unless the output goes, also when the session is paused.  (One
\* that was asked for before the first layout waits for the next render.)
CopiesAreAnswered ==
  \A f \in Frame :
    stage[f] = "queued" /\ source[f] \in owed \cap active
      ~> (stage[f] # "queued" \/ source[f] \notin active)
=============================================================================
