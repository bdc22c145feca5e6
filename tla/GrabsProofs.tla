---------------------------- MODULE GrabsProofs -----------------------------
(* Proofs about Grabs.tla for any windows, edges and bounds.                 *)
EXTENDS Grabs, TLAPS

-----------------------------------------------------------------------------
(* The inductive invariant                                                   *)

\* A grab that moves or resizes has a window.
GrabsHaveWindows ==
  /\ grab.kind \in {"move", "resize"} => grab.window \in Window
  /\ touch.kind = "move" => touch.window \in Window

\* While a toplevel is resized by its left edge and nothing else places it, its
\* commits are anchored on the right edge of the grab.
ResizeIsAnchored ==
  grab.kind = "resize" /\ grab.edge = "Left" /\ grab.window \in xdg \ press.others =>
    /\ resize[grab.window] = [at |-> "Resizing", edge |-> "Left", right |-> grab.loc]
    /\ loc[grab.window] + size[grab.window] = grab.loc

\* Until a request comes, what nothing places stays where it was at the press,
\* seen from there, and the grab of the first request starts from that.
HoldIsKept ==
  /\ press.asks = 0 => grab.kind \in {"none", "click"}
  /\ grab.kind = "click" /\ press.asks = 0 =>
       \A w \in Window \ press.others : loc[w] - grab.start = press.hold[w]
  /\ grab.kind = "move" /\ press.asks = 1 /\ grab.window \notin press.others =>
       grab.loc - grab.start = press.hold[grab.window]

IInv ==
  TypeOK /\ GrabNeedsButtons /\ GrabsHaveWindows /\ ResizeIsAnchored /\ MaximizeIsUndone /\ HoldIsKept

-----------------------------------------------------------------------------
(* What the helpers return                                                   *)

LEMMA ScreenFacts == MaxSize \in Nat \ {0} /\ Screen \in Size /\ MaxLoc \in Nat /\ MaxPos \in Nat
BY GrabsAssumption DEF Size

LEMMA AskedSizes ==
  ASSUME NEW p \in 0 .. MaxPos, grab \in Grab, grab.kind = "resize"
  PROVE  AskedSize(p) \in Size
<1> DEFINE grown == CASE grab.edge = "Left" -> grab.size - (p - grab.start)
                      [] grab.edge = "Right" -> grab.size + (p - grab.start)
                      [] OTHER -> grab.size
<1>1. grab.size \in Int /\ grab.start \in Int /\ p \in Int
  BY ScreenFacts DEF Grab, NoGrab, Size
<1>2. grown \in Int
  BY <1>1
<1>3. Min2(Max2(grown, 1), MaxSize) \in Size
  BY <1>2, ScreenFacts DEF Min2, Max2, Size
<1> QED
  BY <1>3 DEF AskedSize

\* The values that stand for none are of the types.
LEMMA NoneHave == NoGrab \in Grab /\ NotResizing \in ResizeState /\ NoGeometry \in Geometry
BY ScreenFacts DEF NoGrab, Grab, NotResizing, ResizeState, NoGeometry, Geometry

LEMMA InitTypeOK == Init => TypeOK
<1> SUFFICES ASSUME Init PROVE TypeOK
  OBVIOUS
<1>1. 0 \in Place /\ 1 \in Size /\ 0 \in 0 .. MaxPos /\ 0 \in 0 .. MaxButtons /\ 0 \in 0 .. MaxAsks
  BY ScreenFacts, GrabsAssumption DEF Place, Size
<1>2. NoPress \in [hold : [Window -> Int], asks : 0 .. MaxAsks, others : SUBSET Window]
  BY <1>1 DEF NoPress
<1>3. loc \in [Window -> Place] /\ xloc \in [Window -> Int]
  BY <1>1 DEF Init
<1>4. xdg \in SUBSET Window /\ size \in [Window -> Size]
  BY <1>1 DEF Init
<1>5. resize \in [Window -> ResizeState] /\ oldGeo \in [Window -> Geometry] /\ undo \in [Window -> Geometry]
  BY NoneHave DEF Init
<1> QED
  BY <1>1, <1>2, <1>3, <1>4, <1>5, NoneHave DEF Init, TypeOK

-----------------------------------------------------------------------------
(* Types                                                                     *)

\* The grabs that click grabs and requests put in place.
LEMMA NewGrabs ==
  ASSUME NEW f \in Window \cup {NoWindow}, NEW p \in 0 .. MaxPos
  PROVE  /\ Click(f, p) \in Grab
         /\ \A g \in Grab, w \in Window, x \in Int :
              /\ Moving(g, f, w, x) \in Grab
              /\ \A e \in Edge \cup {"None"}, s \in Size \cup {0} : Resizing(g, f, w, e, x, s) \in Grab
<1>1. 0 \in 0 .. MaxPos /\ p \in 0 .. MaxPos
  BY ScreenFacts
<1>2. Click(f, p) \in Grab
  BY <1>1 DEF Click, Grab
<1>3. \A g \in Grab : g.start \in 0 .. MaxPos
  BY <1>1 DEF Grab, NoGrab
<1>4. ASSUME NEW g \in Grab, NEW w \in Window, NEW x \in Int
      PROVE  Moving(g, f, w, x) \in Grab
  BY <1>3 DEF Moving, Grab
<1>5. ASSUME NEW g \in Grab, NEW w \in Window, NEW x \in Int,
             NEW e \in Edge \cup {"None"}, NEW s \in Size \cup {0}
      PROVE  Resizing(g, f, w, e, x, s) \in Grab
  BY <1>3 DEF Resizing, Grab
<1> QED
  BY <1>2, <1>4, <1>5

LEMMA RightEdges ==
  ASSUME TypeOK, NEW w \in Window, NEW e \in Edge
  PROVE  /\ RightEdge(w, e) \in Int
         /\ [at |-> "Resizing", edge |-> e, right |-> RightEdge(w, e)] \in ResizeState
<1>1. loc[w] \in Int /\ size[w] \in Int
  BY ScreenFacts DEF TypeOK, Place, Size
<1>2. RightEdge(w, e) \in Int
  BY <1>1 DEF RightEdge
<1> QED
  BY <1>2 DEF ResizeState

\* How the history of a press goes on.
LEMMA PressUpdates ==
  ASSUME TypeOK
  PROVE  /\ \A w \in Window :
              [press EXCEPT !.others = @ \cup {w}] \in [hold : [Window -> Int], asks : 0 .. MaxAsks, others : SUBSET Window]
         /\ \A placed \in SUBSET Window :
              press.asks < MaxAsks /\ CountAsk(placed)
                => press' \in [hold : [Window -> Int], asks : 0 .. MaxAsks, others : SUBSET Window]
         /\ NoPress \in [hold : [Window -> Int], asks : 0 .. MaxAsks, others : SUBSET Window]
<1>1. MaxAsks \in Nat
  BY GrabsAssumption
<1>2. NoPress.hold \in [Window -> Int] /\ NoPress.asks \in 0 .. MaxAsks /\ NoPress.others = {}
  BY <1>1 DEF NoPress
<1>3. NoPress \in [hold : [Window -> Int], asks : 0 .. MaxAsks, others : SUBSET Window]
  BY <1>1 DEF NoPress
<1>4. press \in [hold : [Window -> Int], asks : 0 .. MaxAsks, others : SUBSET Window]
  BY DEF TypeOK
<1>5. ASSUME NEW placed \in SUBSET Window, press.asks < MaxAsks, CountAsk(placed)
      PROVE  press' \in [hold : [Window -> Int], asks : 0 .. MaxAsks, others : SUBSET Window]
  <2>1. press.asks + 1 \in 0 .. MaxAsks
    BY <1>1, <1>4, <1>5
  <2>2. (IF press.asks = 0 /\ grab'.kind = "move" THEN press.hold ELSE NoPress.hold) \in [Window -> Int]
    BY <1>2, <1>4
  <2> QED
    BY <1>4, <1>5, <2>1, <2>2 DEF CountAsk
<1> QED
  BY <1>3, <1>4, <1>5

\* A place and a size that are asked for keep the types.
LEMMA PlaceTypes ==
  ASSUME TypeOK, NEW w \in Window, NEW x, MapAt(w, x)
  PROVE  /\ loc' \in [Window -> Place] /\ mapped' \subseteq Window
         /\ press' \in [hold : [Window -> Int], asks : 0 .. MaxAsks, others : SUBSET Window]
BY PressUpdates DEF TypeOK, MapAt

LEMMA ConfigureTypes ==
  ASSUME TypeOK, NEW w \in Window, NEW x \in Int, NEW s \in Size, NEW why \in {"none", "place", "size"},
         ConfigureX11(w, x, s, why)
  PROVE  /\ xloc' \in [Window -> Int] /\ size' \in [Window -> Size]
         /\ notify' \in [Window -> {"none", "place", "size"}]
BY DEF TypeOK, ConfigureX11

LEMMA PointerTypeOK ==
  ASSUME TypeOK, GrabsHaveWindows
  PROVE  /\ \A w \in Window \cup {NoWindow} : Press(w) => TypeOK'
         /\ Release => TypeOK'
         /\ \A p \in 0 .. MaxPos : Motion(p) => TypeOK'
<1> USE DEF vars, toplevelVars, x11Vars, windowVars
<1>1. ASSUME NEW w \in Window \cup {NoWindow}, Press(w) PROVE TypeOK'
  <2>1. pressed' \in 0 .. MaxButtons
    BY <1>1, GrabsAssumption DEF Press, TypeOK
  <2>2. pointer \in 0 .. MaxPos /\ Click(w, pointer) \in Grab
    BY NewGrabs DEF TypeOK
  <2>3. grab' \in Grab
    BY <1>1, <2>2 DEF Press, TypeOK
  <2>4. [v \in Window |-> loc[v] - pointer] \in [Window -> Int]
    BY <2>2, ScreenFacts DEF TypeOK, Place
  <2>5. press' \in [hold : [Window -> Int], asks : 0 .. MaxAsks, others : SUBSET Window]
    BY <1>1, <2>4, GrabsAssumption DEF Press, TypeOK
  <2> QED
    BY <1>1, <2>1, <2>3, <2>5 DEF Press, TypeOK
<1>2. ASSUME Release PROVE TypeOK'
  <2>1. pressed' \in 0 .. MaxButtons /\ grab' \in Grab
    BY <1>2, NoneHave, GrabsAssumption DEF Release, TypeOK
  <2>2. press' \in [hold : [Window -> Int], asks : 0 .. MaxAsks, others : SUBSET Window]
    BY <1>2, PressUpdates DEF Release, TypeOK
  <2> QED
    BY <1>2, <2>1, <2>2 DEF Release, TypeOK
<1>3. ASSUME NEW p \in 0 .. MaxPos, Motion(p) PROVE TypeOK'
  <2>1. pointer' \in 0 .. MaxPos /\ UNCHANGED <<xdg, resize, pressed, touch, panicked, press>>
    BY <1>3 DEF Motion
  <2>2. CASE MotionMove(p)
    <3>1. loc' \in [Window -> Place] /\ mapped' \subseteq Window
      BY <2>2 DEF MotionMove, TypeOK, GrabsHaveWindows
    <3> QED
      BY <2>1, <2>2, <3>1 DEF MotionMove, TypeOK
  <2>3. CASE MotionResize(p)
    <3>1. grab' \in Grab
      BY <2>3, NoneHave DEF MotionResize, TypeOK
    <3>2. CASE grab.window \in alive /\ grab.window \in mapped \ xdg
      <4>1. ConfigureX11(grab.window, loc[grab.window], AskedSize(p), "place")
            /\ UNCHANGED <<alive, mapped, loc, toplevelVars, xmax, oldGeo, undo>>
        BY <2>3, <3>2 DEF MotionResize
      <4>2. grab.window \in Window /\ loc[grab.window] \in Int /\ AskedSize(p) \in Size
        BY <2>3, AskedSizes, ScreenFacts DEF MotionResize, TypeOK, GrabsHaveWindows, Place
      <4>3. xloc' \in [Window -> Int] /\ size' \in [Window -> Size]
            /\ notify' \in [Window -> {"none", "place", "size"}]
        BY <4>1, <4>2, ConfigureTypes
      <4> QED
        BY <2>1, <3>1, <4>1, <4>3 DEF TypeOK
    <3>3. CASE ~(grab.window \in alive /\ grab.window \in mapped \ xdg)
      <4>1. UNCHANGED <<windowVars, toplevelVars, x11Vars>>
        BY <2>3, <3>3 DEF MotionResize
      <4> QED
        BY <2>1, <3>1, <4>1 DEF TypeOK
    <3> QED
      BY <3>2, <3>3
  <2>4. CASE UNCHANGED <<windowVars, toplevelVars, x11Vars, grab>>
    BY <2>1, <2>4 DEF TypeOK
  <2> QED
    BY <1>3, <2>2, <2>3, <2>4 DEF Motion
<1> QED
  BY <1>1, <1>2, <1>3

LEMMA TouchTypeOK ==
  ASSUME TypeOK, GrabsHaveWindows
  PROVE  /\ \A w \in Window, p \in Touched : TouchDown(w, p) => TypeOK'
         /\ TouchUp => TypeOK'
         /\ \A p \in 0 .. MaxPos : TouchMotion(p) => TypeOK'
         /\ \A w \in Window : TouchMoveRequest(w) => TypeOK'
         /\ \A w \in Window, e \in Edge : TouchResizeRequest(w, e) => TypeOK'
<1> USE DEF vars, toplevelVars, x11Vars, windowVars
<1>1. ASSUME NEW w \in Window, NEW p \in Touched, TouchDown(w, p) PROVE TypeOK'
  <2>1. touch' \in Grab
    BY <1>1, NewGrabs, GrabsAssumption DEF TouchDown
  <2> QED
    BY <1>1, <2>1 DEF TouchDown, TypeOK
<1>2. ASSUME TouchUp PROVE TypeOK'
  BY <1>2, NoneHave DEF TouchUp, TypeOK
<1>3. ASSUME NEW p \in 0 .. MaxPos, TouchMotion(p) PROVE TypeOK'
  BY <1>3, PlaceTypes DEF TouchMotion, TypeOK, GrabsHaveWindows
<1>4. ASSUME NEW w \in Window, TouchMoveRequest(w) PROVE TypeOK'
  <2>1. (IF w \in current THEN touch.start ELSE loc[w]) \in Int
    <3>1. touch.start \in Int
      BY ScreenFacts DEF TypeOK, Grab, NoGrab
    <3> QED
      BY <3>1, ScreenFacts DEF TypeOK, Place
  <2>2. touch.focus \in Window \cup {NoWindow} /\ 0 \in 0 .. MaxPos
    BY ScreenFacts DEF TypeOK, Grab, NoGrab
  <2>3. touch' \in Grab
    BY <1>4, <2>1, <2>2, NewGrabs DEF TouchMoveRequest, TypeOK
  <2>4. sent' \subseteq Window
    BY <1>4 DEF TouchMoveRequest, TypeOK
  <2> QED
    BY <1>4, <2>3, <2>4 DEF TouchMoveRequest, TypeOK
<1>5. ASSUME NEW w \in Window, NEW e \in Edge, TouchResizeRequest(w, e) PROVE TypeOK'
  <2>1. touch.focus \in Window \cup {NoWindow} /\ 0 \in 0 .. MaxPos
    BY ScreenFacts DEF TypeOK, Grab, NoGrab
  <2>2. touch' \in Grab
    <3>1. touch \in Grab /\ "None" \in Edge \cup {"None"} /\ 0 \in Size \cup {0} /\ 0 \in Int
      BY DEF TypeOK
    <3>2. touch.start \in 0 .. MaxPos
      BY <3>1, <2>1 DEF Grab, NoGrab
    <3>3. Resizing(touch, touch.focus, w, "None", 0, 0) \in Grab
      BY <2>1, <3>1, <3>2 DEF Resizing, Grab
    <3> QED
      BY <1>5, <3>3 DEF TouchResizeRequest
  <2>3. resize' \in [Window -> ResizeState]
    BY <1>5, RightEdges DEF TouchResizeRequest, StartResize, TypeOK
  <2>4. press' \in [hold : [Window -> Int], asks : 0 .. MaxAsks, others : SUBSET Window]
    BY <1>5, PressUpdates DEF TouchResizeRequest
  <2> QED
    BY <1>5, <2>2, <2>3, <2>4 DEF TouchResizeRequest, TypeOK
<1> QED
  BY <1>1, <1>2, <1>3, <1>4, <1>5

LEMMA ToplevelTypeOK ==
  ASSUME TypeOK
  PROVE  /\ \A w \in Window : MoveRequest(w) => TypeOK'
         /\ \A w \in Window, e \in Edge : ResizeRequest(w, e) => TypeOK'
         /\ \A w \in Window : MaximizeRequest(w) \/ UnmaximizeRequest(w) => TypeOK'
         /\ \A w \in Window : AckConfigure(w) => TypeOK'
         /\ \A w \in Window, s \in Size, d \in {0, 1} : Commit(w, s, d) => TypeOK'
         /\ \A w \in Window : Destroy(w) => TypeOK'
<1> USE DEF vars, toplevelVars, x11Vars, windowVars, seatVars
<1>1. ASSUME NEW w \in Window, MoveRequest(w) PROVE TypeOK'
  <2>1. (IF w \in current THEN pointer ELSE loc[w]) \in Int
    BY ScreenFacts DEF TypeOK, Place
  <2>2. grab.focus \in Window \cup {NoWindow} /\ 0 \in 0 .. MaxPos
    BY ScreenFacts DEF TypeOK, Grab, NoGrab
  <2>3. grab' \in Grab
    BY <1>1, <2>1, <2>2, NewGrabs DEF MoveRequest, TypeOK
  <2>4. sent' \subseteq Window /\ Unmaximizing(w) \in SUBSET Window
    BY <1>1 DEF MoveRequest, TypeOK, Unmaximizing
  <2>5. press' \in [hold : [Window -> Int], asks : 0 .. MaxAsks, others : SUBSET Window]
    BY <1>1, <2>4, PressUpdates DEF MoveRequest, Granted
  <2> QED
    BY <1>1, <2>3, <2>4, <2>5 DEF MoveRequest, TypeOK
<1>2. ASSUME NEW w \in Window, NEW e \in Edge, ResizeRequest(w, e) PROVE TypeOK'
  <2>1. grab.focus \in Window \cup {NoWindow} /\ 0 \in 0 .. MaxPos
    BY ScreenFacts DEF TypeOK, Grab, NoGrab
  <2>2. grab' \in Grab
    BY <1>2, <2>1, NewGrabs, RightEdges DEF ResizeRequest, TypeOK
  <2>3. resize' \in [Window -> ResizeState]
    BY <1>2, RightEdges DEF ResizeRequest, StartResize, TypeOK
  <2>4. press' \in [hold : [Window -> Int], asks : 0 .. MaxAsks, others : SUBSET Window]
    BY <1>2, PressUpdates DEF ResizeRequest, Granted
  <2> QED
    BY <1>2, <2>2, <2>3, <2>4 DEF ResizeRequest, TypeOK
<1>3. ASSUME NEW w \in Window, MaximizeRequest(w) \/ UnmaximizeRequest(w) PROVE TypeOK'
  BY <1>3, PlaceTypes DEF MaximizeRequest, UnmaximizeRequest, TypeOK
<1>4. ASSUME NEW w \in Window, AckConfigure(w) PROVE TypeOK'
  <2>1. acked' \subseteq Window
    BY <1>4 DEF AckConfigure, TakenOver, TypeOK
  <2>2. resize[w].at = "WaitingForFinalAck" => [resize EXCEPT ![w].at = "WaitingForCommit"] \in [Window -> ResizeState]
    <3>1. resize[w].at = "WaitingForFinalAck" => [resize[w] EXCEPT !.at = "WaitingForCommit"] \in ResizeState
      BY DEF TypeOK, ResizeState, NotResizing
    <3> QED
      BY <3>1 DEF TypeOK
  <2>3. resize' \in [Window -> ResizeState]
    BY <1>4, <2>2 DEF AckConfigure, TypeOK
  <2> QED
    BY <1>4, <2>1, <2>3 DEF AckConfigure, TypeOK
<1>5. ASSUME NEW w \in Window, NEW s \in Size, NEW d \in {0, 1}, Commit(w, s, d) PROVE TypeOK'
  <2>1. current' \subseteq Window
    BY <1>5 DEF Commit, TakenOver, TypeOK
  <2>2. size' \in [Window -> Size] /\ loc' \in [Window -> Place]
    BY <1>5 DEF Commit, TypeOK
  <2>3. press' \in [hold : [Window -> Int], asks : 0 .. MaxAsks, others : SUBSET Window]
    BY <1>5, PressUpdates DEF Commit, TypeOK
  <2>4. resize' \in [Window -> ResizeState]
    BY <1>5, NoneHave DEF Commit, TypeOK
  <2> QED
    BY <1>5, <2>1, <2>2, <2>3, <2>4 DEF Commit, TypeOK
<1>6. ASSUME NEW w \in Window, Destroy(w) PROVE TypeOK'
  BY <1>6 DEF Destroy, TypeOK
<1> QED
  BY <1>1, <1>2, <1>3, <1>4, <1>5, <1>6

\* The geometry of a window, and the one that an X11 window returns to.
LEMMA Geometries ==
  ASSUME TypeOK, NEW w \in Window
  PROVE  /\ loc[w] \in Int /\ xloc[w] \in Int /\ size[w] \in Size /\ pointer \in Int
         /\ [loc |-> loc[w], size |-> size[w]] \in Geometry
         /\ oldGeo[w] # NoGeometry => oldGeo[w].loc \in Int /\ oldGeo[w].size \in Size
<1>1. loc[w] \in Place /\ xloc[w] \in Int /\ size[w] \in Size /\ pointer \in 0 .. MaxPos /\ oldGeo[w] \in Geometry
  BY DEF TypeOK
<1>2. loc[w] \in Int /\ pointer \in Int
  BY <1>1, ScreenFacts DEF Place
<1>3. [loc |-> loc[w], size |-> size[w]] \in Geometry
  BY <1>1 DEF Geometry
<1>4. oldGeo[w] # NoGeometry => oldGeo[w].loc \in Place /\ oldGeo[w].size \in Size
  BY <1>1 DEF Geometry
<1> QED
  BY <1>1, <1>2, <1>3, <1>4, ScreenFacts DEF Place

LEMMA X11TypeOK ==
  ASSUME TypeOK
  PROVE  /\ \A w \in Window : MoveRequestX11(w) => TypeOK'
         /\ \A w \in Window, e \in Edge : ResizeRequestX11(w, e) => TypeOK'
         /\ \A w \in Window, s \in Size : ConfigureRequest(w, s) \/ UnfullscreenRequestX11(w, s) => TypeOK'
         /\ \A w \in Window : ConfigureNotify(w) => TypeOK'
         /\ \A w \in Window : MaximizeRequestX11(w) => TypeOK'
         /\ \A w \in Window : UnmaximizeRequestX11(w) => TypeOK'
         /\ \A w \in Window : FullscreenRequestX11(w) => TypeOK'
<1> USE DEF vars, toplevelVars, x11Vars, windowVars, seatVars
<1>1. ASSUME NEW w \in Window, MoveRequestX11(w) PROVE TypeOK'
  <2>1. (IF w \in xmax THEN pointer ELSE loc[w]) \in Int
    BY Geometries
  <2>2. grab' \in Grab
    <3>1. grab \in Grab /\ 0 \in 0 .. MaxPos
      BY ScreenFacts DEF TypeOK
    <3> QED
      BY <1>1, <2>1, <3>1, NewGrabs DEF MoveRequestX11
  <2>3. xmax' \subseteq Window /\ undo' \in [Window -> Geometry]
    BY <1>1, NoneHave DEF MoveRequestX11, NoLongerMaximized, TypeOK
  <2>4. press' \in [hold : [Window -> Int], asks : 0 .. MaxAsks, others : SUBSET Window]
    <3>1. xmax \cap {w} \in SUBSET Window
      BY DEF TypeOK
    <3> QED
      BY <1>1, <3>1, PressUpdates DEF MoveRequestX11
  <2>5. /\ oldGeo' \in [Window -> Geometry] /\ xloc' \in [Window -> Int] /\ size' \in [Window -> Size]
        /\ notify' \in [Window -> {"none", "place", "size"}]
    <3>1. CASE w \in xmax /\ oldGeo[w] # NoGeometry
      BY Geometries, <1>1, <3>1, ConfigureTypes, NoneHave DEF MoveRequestX11, TakeOld, TypeOK
    <3>2. CASE ~(w \in xmax /\ oldGeo[w] # NoGeometry)
      BY <1>1, <3>2 DEF MoveRequestX11, TypeOK
    <3> QED
      BY <3>1, <3>2
  <2> QED
    BY <1>1, <2>2, <2>3, <2>4, <2>5 DEF MoveRequestX11, TypeOK
<1>2. ASSUME NEW w \in Window, NEW e \in Edge, ResizeRequestX11(w, e) PROVE TypeOK'
  <2>1. CASE grab.kind = "none"
    BY <1>2, <2>1 DEF ResizeRequestX11, TypeOK
  <2>2. CASE grab.kind # "none"
    <3>1. grab' \in Grab
      <4>1. grab \in Grab /\ 0 \in 0 .. MaxPos
        BY ScreenFacts DEF TypeOK
      <4> QED
        BY Geometries, <1>2, <2>2, <4>1, NewGrabs, RightEdges DEF ResizeRequestX11
    <3>2. resize' \in [Window -> ResizeState]
      BY <1>2, <2>2, RightEdges DEF ResizeRequestX11, StartResize, TypeOK
    <3>3. press' \in [hold : [Window -> Int], asks : 0 .. MaxAsks, others : SUBSET Window]
      BY <1>2, <2>2, PressUpdates DEF ResizeRequestX11
    <3> QED
      BY <1>2, <2>2, <3>1, <3>2, <3>3 DEF ResizeRequestX11, TypeOK
  <2> QED
    BY <2>1, <2>2
<1>3. ASSUME NEW w \in Window, NEW s \in Size, ConfigureRequest(w, s) \/ UnfullscreenRequestX11(w, s) PROVE TypeOK'
  <2>1. CASE ConfigureRequest(w, s)
    BY Geometries, <2>1, ConfigureTypes DEF ConfigureRequest, TypeOK
  <2>2. CASE UnfullscreenRequestX11(w, s)
    BY <2>2, ConfigureTypes, PlaceTypes DEF UnfullscreenRequestX11, TypeOK
  <2> QED
    BY <1>3, <2>1, <2>2
<1>4. ASSUME NEW w \in Window, ConfigureNotify(w) PROVE TypeOK'
  <2>1. notify' \in [Window -> {"none", "place", "size"}]
    BY <1>4 DEF ConfigureNotify, TypeOK
  <2>2. CASE Found(w)
    BY <1>4, <2>1, <2>2, PlaceTypes DEF ConfigureNotify, TypeOK
  <2>3. CASE ~Found(w)
    BY <1>4, <2>1, <2>3 DEF ConfigureNotify, TypeOK
  <2> QED
    BY <2>2, <2>3
<1>5. ASSUME NEW w \in Window, MaximizeRequestX11(w) PROVE TypeOK'
  <2>1. /\ xloc' \in [Window -> Int] /\ size' \in [Window -> Size]
        /\ notify' \in [Window -> {"none", "place", "size"}]
    BY <1>5, ConfigureTypes, ScreenFacts DEF MaximizeRequestX11
  <2>2. xmax' \subseteq Window /\ oldGeo' \in [Window -> Geometry] /\ undo' \in [Window -> Geometry]
    BY Geometries, <1>5, NoneHave DEF MaximizeRequestX11, TypeOK
  <2> QED
    BY <1>5, <2>1, <2>2, PlaceTypes DEF MaximizeRequestX11, TypeOK
<1>6. ASSUME NEW w \in Window, UnmaximizeRequestX11(w) PROVE TypeOK'
  <2>1. xmax' \subseteq Window /\ undo' \in [Window -> Geometry]
    BY <1>6, NoneHave DEF UnmaximizeRequestX11, NoLongerMaximized, TypeOK
  <2>2. CASE oldGeo[w] # NoGeometry
    <3>1. /\ xloc' \in [Window -> Int] /\ size' \in [Window -> Size] /\ oldGeo' \in [Window -> Geometry]
          /\ notify' \in [Window -> {"none", "place", "size"}]
      BY Geometries, <1>6, <2>2, ConfigureTypes, NoneHave DEF UnmaximizeRequestX11, TakeOld, TypeOK
    <3>2. /\ loc' \in [Window -> Place] /\ mapped' \subseteq Window
          /\ press' \in [hold : [Window -> Int], asks : 0 .. MaxAsks, others : SUBSET Window]
      BY <1>6, <2>2, PlaceTypes DEF UnmaximizeRequestX11
    <3> QED
      BY <1>6, <2>1, <3>1, <3>2 DEF UnmaximizeRequestX11, TypeOK
  <2>3. CASE oldGeo[w] = NoGeometry
    BY <1>6, <2>1, <2>3 DEF UnmaximizeRequestX11, TypeOK
  <2> QED
    BY <2>2, <2>3
<1>7. ASSUME NEW w \in Window, FullscreenRequestX11(w) PROVE TypeOK'
  BY <1>7, ConfigureTypes, ScreenFacts DEF FullscreenRequestX11, TypeOK
<1> QED
  BY <1>1, <1>2, <1>3, <1>4, <1>5, <1>6, <1>7

LEMMA NextTypeOK == TypeOK /\ GrabsHaveWindows /\ [Next]_vars => TypeOK'
<1> SUFFICES ASSUME TypeOK, GrabsHaveWindows, [Next]_vars PROVE TypeOK'
  OBVIOUS
<1>1. CASE User
  BY <1>1, PointerTypeOK, TouchTypeOK DEF User
<1>2. CASE Toplevel
  BY <1>2, ToplevelTypeOK, TouchTypeOK DEF Toplevel
<1>3. CASE X11
  BY <1>3, X11TypeOK DEF X11
<1>4. CASE Refresh \/ UNCHANGED vars
  BY <1>4 DEF Refresh, vars, toplevelVars, x11Vars, windowVars, seatVars, TypeOK
<1> QED
  BY <1>1, <1>2, <1>3, <1>4 DEF Next

-----------------------------------------------------------------------------
(* Buttons and windows of the grabs                                          *)

\* Requests replace a grab and never start one, and the last release ends it.
LEMMA NextGrabs == TypeOK /\ GrabNeedsButtons /\ GrabsHaveWindows /\ [Next]_vars => GrabNeedsButtons' /\ GrabsHaveWindows'
<1> SUFFICES ASSUME TypeOK, GrabNeedsButtons, GrabsHaveWindows, [Next]_vars
             PROVE  GrabNeedsButtons' /\ GrabsHaveWindows'
  OBVIOUS
<1> USE DEF GrabNeedsButtons, GrabsHaveWindows, vars, seatVars, windowVars, toplevelVars, x11Vars
<1>1. ASSUME NEW w \in Window \cup {NoWindow}, Press(w) PROVE GrabNeedsButtons' /\ GrabsHaveWindows'
  <2>1. pressed' > 0
    BY <1>1, GrabsAssumption DEF Press, TypeOK
  <2> QED
    BY <1>1, <2>1 DEF Press, Click
<1>2. ASSUME Release PROVE GrabNeedsButtons' /\ GrabsHaveWindows'
  <2>1. pressed # 1 => pressed' > 0
    BY <1>2, GrabsAssumption DEF Release, TypeOK
  <2> QED
    BY <1>2, <2>1 DEF Release, NoGrab
<1>3. ASSUME NEW p \in 0 .. MaxPos, Motion(p) PROVE GrabNeedsButtons' /\ GrabsHaveWindows'
  BY <1>3 DEF Motion, MotionMove, MotionResize, NoGrab
<1>4. ASSUME NEW w \in Window, NEW p \in Touched, TouchDown(w, p) PROVE GrabNeedsButtons' /\ GrabsHaveWindows'
  BY <1>4 DEF TouchDown, Click
<1>5. ASSUME TouchUp PROVE GrabNeedsButtons' /\ GrabsHaveWindows'
  BY <1>5 DEF TouchUp, NoGrab
<1>6. ASSUME NEW p \in 0 .. MaxPos, TouchMotion(p) PROVE GrabNeedsButtons' /\ GrabsHaveWindows'
  BY <1>6 DEF TouchMotion
<1>7. ASSUME NEW w \in Window, MoveRequest(w) PROVE GrabNeedsButtons' /\ GrabsHaveWindows'
  BY <1>7 DEF MoveRequest, Granted, Moving
<1>8. ASSUME NEW w \in Window, TouchMoveRequest(w) PROVE GrabNeedsButtons' /\ GrabsHaveWindows'
  BY <1>8 DEF TouchMoveRequest, Moving
<1>9. ASSUME NEW w \in Window, NEW e \in Edge, ResizeRequest(w, e) PROVE GrabNeedsButtons' /\ GrabsHaveWindows'
  BY <1>9 DEF ResizeRequest, Granted, Resizing
<1>10. ASSUME NEW w \in Window, NEW e \in Edge, TouchResizeRequest(w, e) PROVE GrabNeedsButtons' /\ GrabsHaveWindows'
  BY <1>10 DEF TouchResizeRequest, Resizing
<1>11. ASSUME NEW w \in Window, MoveRequestX11(w) PROVE GrabNeedsButtons' /\ GrabsHaveWindows'
  BY <1>11 DEF MoveRequestX11, Moving
<1>12. ASSUME NEW w \in Window, NEW e \in Edge, ResizeRequestX11(w, e) PROVE GrabNeedsButtons' /\ GrabsHaveWindows'
  BY <1>12 DEF ResizeRequestX11, Resizing
<1>13. ASSUME NEW w \in Window,
              MaximizeRequest(w) \/ UnmaximizeRequest(w) \/ AckConfigure(w) \/ Destroy(w)
                \/ \E s \in Size, d \in {0, 1} : Commit(w, s, d)
       PROVE  GrabNeedsButtons' /\ GrabsHaveWindows'
  BY <1>13 DEF MaximizeRequest, UnmaximizeRequest, AckConfigure, Destroy, Commit
<1>14. ASSUME NEW w \in Window,
              ConfigureNotify(w) \/ MaximizeRequestX11(w) \/ UnmaximizeRequestX11(w) \/ FullscreenRequestX11(w)
                \/ \E s \in Size : ConfigureRequest(w, s) \/ UnfullscreenRequestX11(w, s)
       PROVE  GrabNeedsButtons' /\ GrabsHaveWindows'
  BY <1>14 DEF ConfigureNotify, MaximizeRequestX11, UnmaximizeRequestX11, FullscreenRequestX11,
               ConfigureRequest, UnfullscreenRequestX11
<1>15. ASSUME Refresh \/ UNCHANGED vars PROVE GrabNeedsButtons' /\ GrabsHaveWindows'
  BY <1>15 DEF Refresh
<1> QED
  BY <1>1, <1>2, <1>3, <1>4, <1>5, <1>6, <1>7, <1>8, <1>9, <1>10, <1>11, <1>12, <1>13, <1>14, <1>15
     DEF Next, User, Toplevel, X11

-----------------------------------------------------------------------------
(* The right edge of a toplevel that is resized by its left one              *)

\* Without such a grab there is nothing to keep.
LEMMA NothingAnchored ==
  ASSUME ~(grab'.kind = "resize" /\ grab'.window \in xdg')
  PROVE  ResizeIsAnchored'
BY DEF ResizeIsAnchored

\* A step that only disturbs windows that it counts as placed keeps the edge.
LEMMA AnchorKept ==
  ASSUME ResizeIsAnchored, UNCHANGED <<xdg, grab>>, press.others \subseteq press'.others,
         \A v \in xdg \ press'.others : resize'[v] = resize[v] /\ loc'[v] = loc[v] /\ size'[v] = size[v]
  PROVE  ResizeIsAnchored'
BY DEF ResizeIsAnchored

LEMMA PlacingIsCounted ==
  ASSUME TypeOK, NEW w \in Window, NEW x, MapAt(w, x)
  PROVE  /\ press.others \subseteq press'.others
         /\ w \in press'.others
         /\ \A v \in Window \ press'.others : loc'[v] = loc[v]
<1>1. press'.others = press.others \cup {w}
  BY DEF MapAt, TypeOK
<1> QED
  BY <1>1 DEF MapAt, TypeOK

LEMMA PointerAnchored ==
  ASSUME TypeOK, GrabsHaveWindows, ResizeIsAnchored
  PROVE  /\ \A w \in Window \cup {NoWindow} : Press(w) => ResizeIsAnchored'
         /\ Release => ResizeIsAnchored'
         /\ \A p \in 0 .. MaxPos : Motion(p) => ResizeIsAnchored'
<1> USE DEF vars, toplevelVars, x11Vars, windowVars
<1>1. ASSUME NEW w \in Window \cup {NoWindow}, Press(w) PROVE ResizeIsAnchored'
  <2>1. CASE grab.kind = "none"
    <3>1. grab'.kind = "click"
      BY <1>1, <2>1 DEF Press, Click
    <3> QED
      BY <3>1, NothingAnchored
  <2>2. CASE grab.kind # "none"
    BY <1>1, <2>2, AnchorKept DEF Press
  <2> QED
    BY <2>1, <2>2
<1>2. ASSUME Release PROVE ResizeIsAnchored'
  <2>1. CASE pressed = 1
    BY <1>2, <2>1, NothingAnchored DEF Release, NoGrab
  <2>2. CASE pressed # 1
    BY <1>2, <2>2, AnchorKept DEF Release
  <2> QED
    BY <2>1, <2>2
<1>3. ASSUME NEW p \in 0 .. MaxPos, Motion(p) PROVE ResizeIsAnchored'
  <2>1. UNCHANGED <<xdg, resize, press>>
    BY <1>3 DEF Motion
  <2>2. CASE grab.kind # "resize"
    <3>1. grab' = grab
      BY <1>3, <2>2 DEF Motion, MotionMove, MotionResize
    <3> QED
      BY <2>2, <3>1, NothingAnchored
  <2>3. CASE grab.kind = "resize" /\ grab.window \notin alive
    <3>1. grab' = NoGrab
      BY <1>3, <2>3 DEF Motion, MotionMove, MotionResize
    <3> QED
      BY <3>1, NothingAnchored DEF NoGrab
  <2>4. CASE grab.kind = "resize" /\ grab.window \in alive
    <3>1. UNCHANGED <<grab, loc>>
      BY <1>3, <2>4 DEF Motion, MotionMove, MotionResize
    <3>2. \A v \in xdg : size'[v] = size[v]
      BY <1>3, <2>4 DEF Motion, MotionMove, MotionResize, ConfigureX11, TypeOK
    <3> QED
      BY <2>1, <3>1, <3>2, AnchorKept
  <2> QED
    BY <2>2, <2>3, <2>4
<1> QED
  BY <1>1, <1>2, <1>3

LEMMA ToplevelAnchored ==
  ASSUME TypeOK, GrabsHaveWindows, ResizeIsAnchored
  PROVE  /\ \A w \in Window : MoveRequest(w) => ResizeIsAnchored'
         /\ \A w \in Window, e \in Edge : ResizeRequest(w, e) => ResizeIsAnchored'
         /\ \A w \in Window : MaximizeRequest(w) => ResizeIsAnchored'
         /\ \A w \in Window : UnmaximizeRequest(w) \/ Destroy(w) => ResizeIsAnchored'
         /\ \A w \in Window : AckConfigure(w) => ResizeIsAnchored'
         /\ \A w \in Window, s \in Size, d \in {0, 1} : Commit(w, s, d) => ResizeIsAnchored'
<1> USE DEF vars, toplevelVars, x11Vars, windowVars, seatVars
<1>1. ASSUME NEW w \in Window, MoveRequest(w) PROVE ResizeIsAnchored'
  <2>1. grab'.kind = "move"
    BY <1>1 DEF MoveRequest, Moving
  <2> QED
    BY <2>1, NothingAnchored
<1>2. ASSUME NEW w \in Window, NEW e \in Edge, ResizeRequest(w, e) PROVE ResizeIsAnchored'
  <2>1. grab'.window = w /\ grab'.edge = e /\ grab'.loc = RightEdge(w, e) /\ UNCHANGED <<loc, size>>
    BY <1>2 DEF ResizeRequest, Resizing
  <2>2. resize'[w] = [at |-> "Resizing", edge |-> e, right |-> RightEdge(w, e)]
    BY <1>2 DEF ResizeRequest, StartResize, TypeOK
  <2> QED
    BY <2>1, <2>2 DEF ResizeIsAnchored, RightEdge
<1>3. ASSUME NEW w \in Window, MaximizeRequest(w) PROVE ResizeIsAnchored'
  <2>1. UNCHANGED <<xdg, grab, resize, size>> /\ MapAt(w, 0)
    BY <1>3 DEF MaximizeRequest
  <2> QED
    BY <2>1, PlacingIsCounted, AnchorKept DEF TypeOK
<1>4. ASSUME NEW w \in Window, UnmaximizeRequest(w) \/ Destroy(w) PROVE ResizeIsAnchored'
  BY <1>4, AnchorKept DEF UnmaximizeRequest, Destroy
<1>5. ASSUME NEW w \in Window, AckConfigure(w) PROVE ResizeIsAnchored'
  <2>1. UNCHANGED <<xdg, grab, press, loc, size>>
    BY <1>5 DEF AckConfigure
  <2>2. resize[w].at # "WaitingForFinalAck" => resize' = resize
    BY <1>5 DEF AckConfigure
  <2>3. \A v \in Window : v # w => resize'[v] = resize[v]
    BY <1>5 DEF AckConfigure, TypeOK
  <2> QED
    BY <2>1, <2>2, <2>3 DEF ResizeIsAnchored, TypeOK
<1>6. ASSUME NEW w \in Window, NEW s \in Size, NEW d \in {0, 1}, Commit(w, s, d) PROVE ResizeIsAnchored'
  <2>1. UNCHANGED <<xdg, grab>> /\ press.others \subseteq press'.others
    BY <1>6 DEF Commit, TypeOK
  <2>2. \A v \in Window : v # w => resize'[v] = resize[v] /\ loc'[v] = loc[v] /\ size'[v] = size[v]
    BY <1>6 DEF Commit, TypeOK
  <2>3. CASE w # grab.window
    BY <2>1, <2>2, <2>3 DEF ResizeIsAnchored, TypeOK
  <2>4. CASE w = grab.window /\ d # 0
    <3>1. w \in press'.others
      BY <1>6, <2>4 DEF Commit, TypeOK
    <3> QED
      BY <2>1, <2>4, <3>1 DEF ResizeIsAnchored
  <2>5. CASE w = grab.window /\ d = 0
    <3> SUFFICES ASSUME grab.kind = "resize", grab.edge = "Left", w \in xdg \ press.others
                 PROVE  /\ resize'[w] = [at |-> "Resizing", edge |-> "Left", right |-> grab.loc]
                        /\ loc'[w] + size'[w] = grab.loc
      BY <2>1, <2>5 DEF ResizeIsAnchored
    <3>1. resize[w] = [at |-> "Resizing", edge |-> "Left", right |-> grab.loc]
      BY <2>5 DEF ResizeIsAnchored
    <3>2. resize' = resize
      BY <1>6, <3>1 DEF Commit
    <3>3. loc'[w] = Anchored(w, s) + 0 /\ size'[w] = s
      BY <1>6, <2>5 DEF Commit, TypeOK
    <3>4. grab.loc \in Int /\ s \in Int
      BY ScreenFacts DEF TypeOK, Grab, NoGrab, Size
    <3> QED
      BY <3>1, <3>2, <3>3, <3>4 DEF Anchored
  <2> QED
    BY <2>3, <2>4, <2>5
<1> QED
  BY <1>1, <1>2, <1>3, <1>4, <1>5, <1>6

LEMMA TouchAnchored ==
  ASSUME TypeOK, GrabsHaveWindows, ResizeIsAnchored
  PROVE  /\ \A w \in Window, p \in Touched : TouchDown(w, p) => ResizeIsAnchored'
         /\ TouchUp => ResizeIsAnchored'
         /\ \A p \in 0 .. MaxPos : TouchMotion(p) => ResizeIsAnchored'
         /\ \A w \in Window : TouchMoveRequest(w) => ResizeIsAnchored'
         /\ \A w \in Window, e \in Edge : TouchResizeRequest(w, e) => ResizeIsAnchored'
<1> USE DEF vars, toplevelVars, x11Vars, windowVars
<1>1. ASSUME TouchUp \/ (\E w \in Window, p \in Touched : TouchDown(w, p))
             \/ (\E w \in Window : TouchMoveRequest(w))
      PROVE  ResizeIsAnchored'
  BY <1>1, AnchorKept DEF TouchUp, TouchDown, TouchMoveRequest
<1>2. ASSUME NEW p \in 0 .. MaxPos, TouchMotion(p) PROVE ResizeIsAnchored'
  <2>1. UNCHANGED <<xdg, grab, resize, size>> /\ touch.window \in Window
        /\ MapAt(touch.window, touch.loc + p - touch.start)
    BY <1>2 DEF TouchMotion, GrabsHaveWindows
  <2> QED
    BY <2>1, PlacingIsCounted, AnchorKept DEF TypeOK
<1>3. ASSUME NEW w \in Window, NEW e \in Edge, TouchResizeRequest(w, e) PROVE ResizeIsAnchored'
  <2>1. UNCHANGED <<xdg, grab, loc, size>> /\ press'.others = press.others \cup {w}
    BY <1>3 DEF TouchResizeRequest, TypeOK
  <2>2. \A v \in Window : v # w => resize'[v] = resize[v]
    BY <1>3 DEF TouchResizeRequest, StartResize, TypeOK
  <2> QED
    BY <2>1, <2>2, AnchorKept DEF TypeOK
<1> QED
  BY <1>1, <1>2, <1>3

\* An X11 window is no toplevel, so what happens to it leaves them alone.
LEMMA X11Anchored ==
  ASSUME TypeOK, GrabsHaveWindows, ResizeIsAnchored
  PROVE  /\ \A w \in Window : MoveRequestX11(w) => ResizeIsAnchored'
         /\ \A w \in Window, e \in Edge : ResizeRequestX11(w, e) => ResizeIsAnchored'
         /\ \A w \in Window, s \in Size : ConfigureRequest(w, s) \/ UnfullscreenRequestX11(w, s) => ResizeIsAnchored'
         /\ \A w \in Window : ConfigureNotify(w) => ResizeIsAnchored'
         /\ \A w \in Window : MaximizeRequestX11(w) => ResizeIsAnchored'
         /\ \A w \in Window : UnmaximizeRequestX11(w) => ResizeIsAnchored'
         /\ \A w \in Window : FullscreenRequestX11(w) => ResizeIsAnchored'
<1> USE DEF vars, toplevelVars, x11Vars, windowVars, seatVars
<1>1. ASSUME NEW w \in Window, MoveRequestX11(w) PROVE ResizeIsAnchored'
  <2>1. grab'.kind = "move"
    BY <1>1 DEF MoveRequestX11, Moving
  <2> QED
    BY <2>1, NothingAnchored
<1>2. ASSUME NEW w \in Window, NEW e \in Edge, ResizeRequestX11(w, e) PROVE ResizeIsAnchored'
  <2>1. CASE grab.kind = "none"
    BY <1>2, <2>1, AnchorKept DEF ResizeRequestX11
  <2>2. CASE grab.kind # "none"
    <3>1. grab'.window = w /\ w \notin xdg'
      BY <1>2, <2>2 DEF ResizeRequestX11, Resizing
    <3> QED
      BY <3>1, NothingAnchored
  <2> QED
    BY <2>1, <2>2
<1>3. ASSUME NEW w \in Window, NEW x, NEW s, NEW why, w \notin xdg, ConfigureX11(w, x, s, why)
      PROVE  \A v \in xdg : size'[v] = size[v]
  BY <1>3 DEF ConfigureX11, TypeOK
<1>4. ASSUME NEW w \in Window, NEW s \in Size, ConfigureRequest(w, s) \/ UnfullscreenRequestX11(w, s)
      PROVE  ResizeIsAnchored'
  <2>1. \A v \in xdg : size'[v] = size[v]
    BY <1>3, <1>4 DEF ConfigureRequest, UnfullscreenRequestX11, IsX11
  <2>2. CASE ConfigureRequest(w, s)
    BY <2>1, <2>2, AnchorKept DEF ConfigureRequest
  <2>3. CASE UnfullscreenRequestX11(w, s)
    BY <2>1, <2>3, PlacingIsCounted, AnchorKept DEF UnfullscreenRequestX11, TypeOK
  <2> QED
    BY <1>4, <2>2, <2>3
<1>5. ASSUME NEW w \in Window, ConfigureNotify(w) PROVE ResizeIsAnchored'
  <2>1. CASE Found(w)
    BY <1>5, <2>1, PlacingIsCounted, AnchorKept DEF ConfigureNotify, TypeOK
  <2>2. CASE ~Found(w)
    BY <1>5, <2>2, AnchorKept DEF ConfigureNotify
  <2> QED
    BY <2>1, <2>2
<1>6. ASSUME NEW w \in Window, MaximizeRequestX11(w) PROVE ResizeIsAnchored'
  <2>1. \A v \in xdg : size'[v] = size[v]
    BY <1>3, <1>6 DEF MaximizeRequestX11, IsX11
  <2> QED
    BY <1>6, <2>1, PlacingIsCounted, AnchorKept DEF MaximizeRequestX11, TypeOK
<1>7. ASSUME NEW w \in Window, UnmaximizeRequestX11(w) PROVE ResizeIsAnchored'
  <2>1. CASE oldGeo[w] # NoGeometry
    <3>1. \A v \in xdg : size'[v] = size[v]
      BY <1>3, <1>7, <2>1 DEF UnmaximizeRequestX11, IsX11
    <3> QED
      BY <1>7, <2>1, <3>1, PlacingIsCounted, AnchorKept DEF UnmaximizeRequestX11, TypeOK
  <2>2. CASE oldGeo[w] = NoGeometry
    BY <1>7, <2>2, AnchorKept DEF UnmaximizeRequestX11
  <2> QED
    BY <2>1, <2>2
<1>8. ASSUME NEW w \in Window, FullscreenRequestX11(w) PROVE ResizeIsAnchored'
  <2>1. \A v \in xdg : size'[v] = size[v]
    BY <1>3, <1>8 DEF FullscreenRequestX11, IsX11
  <2> QED
    BY <1>8, <2>1, AnchorKept DEF FullscreenRequestX11
<1> QED
  BY <1>1, <1>2, <1>4, <1>5, <1>6, <1>7, <1>8

LEMMA NextAnchored == TypeOK /\ GrabsHaveWindows /\ ResizeIsAnchored /\ [Next]_vars => ResizeIsAnchored'
<1> SUFFICES ASSUME TypeOK, GrabsHaveWindows, ResizeIsAnchored, [Next]_vars PROVE ResizeIsAnchored'
  OBVIOUS
<1>1. CASE User
  BY <1>1, PointerAnchored, TouchAnchored DEF User
<1>2. CASE Toplevel
  BY <1>2, ToplevelAnchored, TouchAnchored DEF Toplevel
<1>3. CASE X11
  BY <1>3, X11Anchored DEF X11
<1>4. CASE Refresh \/ UNCHANGED vars
  BY <1>4, AnchorKept DEF Refresh, vars, toplevelVars, x11Vars, windowVars, seatVars
<1> QED
  BY <1>1, <1>2, <1>3, <1>4 DEF Next

-----------------------------------------------------------------------------
(* The geometry of a maximized X11 window                                    *)

LEMMA NextUndone == TypeOK /\ MaximizeIsUndone /\ [Next]_vars => MaximizeIsUndone'
<1> SUFFICES ASSUME TypeOK, MaximizeIsUndone, [Next]_vars PROVE MaximizeIsUndone'
  OBVIOUS
<1> USE DEF vars, toplevelVars, x11Vars, windowVars, seatVars
<1>1. ASSUME UNCHANGED <<xmax, oldGeo, undo>> PROVE MaximizeIsUndone'
  BY <1>1 DEF MaximizeIsUndone
<1>2. ASSUME NEW w \in Window, NoLongerMaximized(w),
             IF w \in xmax /\ oldGeo[w] # NoGeometry THEN TakeOld(w) ELSE UNCHANGED oldGeo
      PROVE  MaximizeIsUndone'
  <2>1. oldGeo'[w] = NoGeometry /\ undo'[w] = NoGeometry
    BY <1>2 DEF NoLongerMaximized, TakeOld, TypeOK, MaximizeIsUndone
  <2>2. \A v \in Window : v # w => oldGeo'[v] = oldGeo[v] /\ undo'[v] = undo[v] /\ (v \in xmax' <=> v \in xmax)
    BY <1>2 DEF NoLongerMaximized, TakeOld, TypeOK
  <2> QED
    BY <2>1, <2>2 DEF MaximizeIsUndone
<1>3. ASSUME NEW w \in Window, MoveRequestX11(w) PROVE MaximizeIsUndone'
  <2>1. NoLongerMaximized(w) /\ IF w \in xmax /\ oldGeo[w] # NoGeometry THEN TakeOld(w) ELSE UNCHANGED oldGeo
    BY <1>3 DEF MoveRequestX11
  <2> QED
    BY <1>2, <2>1
<1>4. ASSUME NEW w \in Window, UnmaximizeRequestX11(w) PROVE MaximizeIsUndone'
  <2>1. oldGeo[w] # NoGeometry => w \in xmax
    BY DEF MaximizeIsUndone
  <2>2. NoLongerMaximized(w) /\ IF w \in xmax /\ oldGeo[w] # NoGeometry THEN TakeOld(w) ELSE UNCHANGED oldGeo
    BY <1>4, <2>1 DEF UnmaximizeRequestX11
  <2> QED
    BY <1>2, <2>2
<1>5. ASSUME NEW w \in Window, MaximizeRequestX11(w) PROVE MaximizeIsUndone'
  <2>1. w \in xmax' /\ (undo'[w] # NoGeometry => oldGeo'[w] = undo'[w])
    BY <1>5 DEF MaximizeRequestX11, TypeOK
  <2>2. \A v \in Window : v # w => oldGeo'[v] = oldGeo[v] /\ undo'[v] = undo[v] /\ (v \in xmax' <=> v \in xmax)
    BY <1>5 DEF MaximizeRequestX11, TypeOK
  <2> QED
    BY <2>1, <2>2 DEF MaximizeIsUndone
<1>6. ASSUME User \/ Refresh \/ UNCHANGED vars PROVE UNCHANGED <<xmax, oldGeo, undo>>
  <2>1. ASSUME NEW w \in Window \cup {NoWindow}, Press(w) PROVE UNCHANGED <<xmax, oldGeo, undo>>
    BY <2>1 DEF Press
  <2>2. ASSUME NEW p \in 0 .. MaxPos, Motion(p) PROVE UNCHANGED <<xmax, oldGeo, undo>>
    BY <2>2 DEF Motion, MotionMove, MotionResize
  <2>3. ASSUME Release \/ TouchUp \/ Refresh \/ UNCHANGED vars PROVE UNCHANGED <<xmax, oldGeo, undo>>
    BY <2>3 DEF Release, TouchUp, Refresh
  <2>4. ASSUME NEW w \in Window, NEW p \in Touched, TouchDown(w, p) PROVE UNCHANGED <<xmax, oldGeo, undo>>
    BY <2>4 DEF TouchDown
  <2>5. ASSUME NEW p \in 0 .. MaxPos, TouchMotion(p) PROVE UNCHANGED <<xmax, oldGeo, undo>>
    BY <2>5 DEF TouchMotion
  <2> QED
    BY <1>6, <2>1, <2>2, <2>3, <2>4, <2>5 DEF User
<1>7. ASSUME Toplevel PROVE UNCHANGED <<xmax, oldGeo, undo>>
  <2>1. PICK w \in Window :
          \/ MoveRequest(w) \/ TouchMoveRequest(w) \/ MaximizeRequest(w) \/ UnmaximizeRequest(w)
          \/ AckConfigure(w) \/ Destroy(w)
          \/ \E e \in Edge : ResizeRequest(w, e) \/ TouchResizeRequest(w, e)
          \/ \E s \in Size, d \in {0, 1} : Commit(w, s, d)
    BY <1>7 DEF Toplevel
  <2>2. CASE MoveRequest(w) \/ TouchMoveRequest(w) \/ MaximizeRequest(w) \/ UnmaximizeRequest(w)
             \/ AckConfigure(w) \/ Destroy(w)
    BY <2>2 DEF MoveRequest, TouchMoveRequest, MaximizeRequest, UnmaximizeRequest, AckConfigure, Destroy
  <2>3. CASE \E e \in Edge : ResizeRequest(w, e) \/ TouchResizeRequest(w, e)
    BY <2>3 DEF ResizeRequest, TouchResizeRequest
  <2>4. CASE \E s \in Size, d \in {0, 1} : Commit(w, s, d)
    BY <2>4 DEF Commit
  <2> QED
    BY <2>1, <2>2, <2>3, <2>4
<1>8. CASE X11
  <2>1. PICK w \in Window :
          \/ MoveRequestX11(w) \/ UnmaximizeRequestX11(w) \/ MaximizeRequestX11(w)
          \/ ConfigureNotify(w) \/ FullscreenRequestX11(w)
          \/ \E e \in Edge : ResizeRequestX11(w, e)
          \/ \E s \in Size : ConfigureRequest(w, s) \/ UnfullscreenRequestX11(w, s)
    BY <1>8 DEF X11
  <2>2. CASE ConfigureNotify(w) \/ FullscreenRequestX11(w)
             \/ (\E e \in Edge : ResizeRequestX11(w, e))
             \/ (\E s \in Size : ConfigureRequest(w, s) \/ UnfullscreenRequestX11(w, s))
    <3>1. UNCHANGED <<xmax, oldGeo, undo>>
      BY <2>2 DEF ConfigureNotify, FullscreenRequestX11, ResizeRequestX11, ConfigureRequest, UnfullscreenRequestX11
    <3> QED
      BY <1>1, <3>1
  <2> QED
    BY <1>3, <1>4, <1>5, <2>1, <2>2
<1> QED
  BY <1>1, <1>6, <1>7, <1>8 DEF Next

-----------------------------------------------------------------------------
(* Where a window is held                                                    *)

\* A step between requests keeps what it does not count as placed.
LEMMA HoldGoesOn ==
  ASSUME HoldIsKept, UNCHANGED <<grab, press.asks, press.hold>>, press.others \subseteq press'.others,
         grab.kind = "click" /\ press.asks = 0 => \A v \in Window \ press'.others : loc'[v] = loc[v]
  PROVE  HoldIsKept'
BY DEF HoldIsKept

LEMMA PlacingKeepsHold ==
  ASSUME TypeOK, HoldIsKept, NEW w \in Window, NEW x, MapAt(w, x), UNCHANGED grab
  PROVE  HoldIsKept'
<1>1. UNCHANGED <<press.asks, press.hold>>
  BY DEF MapAt, TypeOK
<1> QED
  BY <1>1, PlacingIsCounted, HoldGoesOn

\* A request that moves starts from where the window is, or counts it as placed.
LEMMA MovingKeepsHold ==
  ASSUME TypeOK, HoldIsKept, NEW f, NEW w \in Window, NEW x, NEW placed \in SUBSET Window,
         grab.kind # "none", grab' = Moving(grab, f, w, x), CountAsk(placed), x = loc[w] \/ w \in placed
  PROVE  HoldIsKept'
<1>1. press.asks \in Nat /\ press'.asks = press.asks + 1 /\ press'.others = press.others \cup placed
  BY DEF CountAsk, TypeOK
<1>2. grab'.kind = "move" /\ grab'.window = w /\ grab'.loc = x /\ grab'.start = grab.start
  BY DEF Moving
<1>3. CASE press.asks = 0
  <2>1. press'.hold = press.hold
    BY <1>2, <1>3 DEF CountAsk
  <2>2. grab.kind = "click"
    BY <1>3 DEF HoldIsKept
  <2> QED
    BY <1>1, <1>2, <1>3, <2>1, <2>2 DEF HoldIsKept
<1>4. CASE press.asks # 0
  BY <1>1, <1>2, <1>4 DEF HoldIsKept
<1> QED
  BY <1>3, <1>4

LEMMA ResizingKeepsHold ==
  ASSUME TypeOK, HoldIsKept, NEW f, NEW w, NEW e, NEW x, NEW s,
         grab' = Resizing(grab, f, w, e, x, s), CountAsk({})
  PROVE  HoldIsKept'
<1>1. press'.asks # 0
  BY DEF CountAsk, TypeOK
<1>2. grab'.kind = "resize"
  BY DEF Resizing
<1> QED
  BY <1>1, <1>2 DEF HoldIsKept

LEMMA UserHolds == ASSUME TypeOK, GrabsHaveWindows, HoldIsKept, User PROVE HoldIsKept'
<1> USE DEF vars, toplevelVars, x11Vars, windowVars
<1>1. ASSUME NEW w \in Window \cup {NoWindow}, Press(w) PROVE HoldIsKept'
  <2>1. CASE grab.kind = "none"
    <3>1. grab'.kind = "click" /\ grab'.start = pointer /\ loc' = loc
      BY <1>1, <2>1 DEF Press, Click
    <3>2. press' = [hold |-> [v \in Window |-> loc[v] - pointer], asks |-> 0, others |-> {}]
      BY <1>1, <2>1 DEF Press
    <3> QED
      BY <3>1, <3>2 DEF HoldIsKept
  <2>2. CASE grab.kind # "none"
    BY <1>1, <2>2, HoldGoesOn DEF Press
  <2> QED
    BY <2>1, <2>2
<1>2. ASSUME Release PROVE HoldIsKept'
  <2>1. CASE pressed = 1
    BY <1>2, <2>1 DEF Release, NoGrab, HoldIsKept
  <2>2. CASE pressed # 1
    BY <1>2, <2>2, HoldGoesOn DEF Release
  <2> QED
    BY <2>1, <2>2
<1>3. ASSUME NEW p \in 0 .. MaxPos, Motion(p) PROVE HoldIsKept'
  <2>1. press' = press /\ (grab.kind = "click" => loc' = loc)
    BY <1>3 DEF Motion, MotionMove, MotionResize
  <2>2. CASE grab' = grab
    BY <2>1, <2>2, HoldGoesOn
  <2>3. CASE grab' # grab
    <3>1. grab' = NoGrab
      BY <1>3, <2>3 DEF Motion, MotionMove, MotionResize
    <3> QED
      BY <3>1 DEF HoldIsKept, NoGrab
  <2> QED
    BY <2>2, <2>3
<1>4. ASSUME TouchUp \/ (\E w \in Window, p \in Touched : TouchDown(w, p)) PROVE HoldIsKept'
  BY <1>4, HoldGoesOn DEF TouchUp, TouchDown
<1>5. ASSUME NEW p \in 0 .. MaxPos, TouchMotion(p) PROVE HoldIsKept'
  BY <1>5, PlacingKeepsHold DEF TouchMotion, GrabsHaveWindows
<1> QED
  BY <1>1, <1>2, <1>3, <1>4, <1>5 DEF User

LEMMA ToplevelHolds ==
  ASSUME TypeOK, HoldIsKept
  PROVE  /\ \A w \in Window : MoveRequest(w) => HoldIsKept'
         /\ \A w \in Window, e \in Edge : ResizeRequest(w, e) => HoldIsKept'
         /\ \A w \in Window, e \in Edge : TouchResizeRequest(w, e) => HoldIsKept'
         /\ \A w \in Window : MaximizeRequest(w) => HoldIsKept'
         /\ \A w \in Window : TouchMoveRequest(w) \/ UnmaximizeRequest(w) \/ AckConfigure(w) \/ Destroy(w)
                              => HoldIsKept'
         /\ \A w \in Window, s \in Size, d \in {0, 1} : Commit(w, s, d) => HoldIsKept'
<1> USE DEF vars, toplevelVars, x11Vars, windowVars, seatVars
<1>1. ASSUME NEW w \in Window, MoveRequest(w) PROVE HoldIsKept'
  <2>1. Unmaximizing(w) \in SUBSET Window /\ (w \in current => w \in Unmaximizing(w))
    BY DEF Unmaximizing
  <2>2. /\ grab.kind # "none" /\ CountAsk(Unmaximizing(w))
        /\ grab' = Moving(grab, grab.focus, w, IF w \in current THEN pointer ELSE loc[w])
    BY <1>1 DEF MoveRequest, Granted
  <2> QED
    BY <2>1, <2>2, MovingKeepsHold
<1>2. ASSUME NEW w \in Window, NEW e \in Edge, ResizeRequest(w, e) PROVE HoldIsKept'
  BY <1>2, ResizingKeepsHold DEF ResizeRequest
<1>3. ASSUME NEW w \in Window, NEW e \in Edge, TouchResizeRequest(w, e) PROVE HoldIsKept'
  <2>1. UNCHANGED <<grab, loc, press.asks, press.hold>> /\ press.others \subseteq press'.others
    BY <1>3 DEF TouchResizeRequest, TypeOK
  <2> QED
    BY <2>1, HoldGoesOn
<1>4. ASSUME NEW w \in Window, MaximizeRequest(w) PROVE HoldIsKept'
  BY <1>4, PlacingKeepsHold DEF MaximizeRequest
<1>5. ASSUME NEW w \in Window, TouchMoveRequest(w) \/ UnmaximizeRequest(w) \/ AckConfigure(w) \/ Destroy(w)
      PROVE  HoldIsKept'
  BY <1>5, HoldGoesOn DEF TouchMoveRequest, UnmaximizeRequest, AckConfigure, Destroy
<1>6. ASSUME NEW w \in Window, NEW s \in Size, NEW d \in {0, 1}, Commit(w, s, d) PROVE HoldIsKept'
  <2>1. UNCHANGED <<grab, press.asks, press.hold>> /\ press.others \subseteq press'.others
    BY <1>6 DEF Commit, TypeOK
  <2>2. \A v \in Window : v # w => loc'[v] = loc[v]
    BY <1>6 DEF Commit, TypeOK
  <2>3. grab.kind = "click" => loc' = loc \/ w \in press'.others
    BY <1>6 DEF Commit, TypeOK
  <2> QED
    BY <2>1, <2>2, <2>3, HoldGoesOn
<1> QED
  BY <1>1, <1>2, <1>3, <1>4, <1>5, <1>6

LEMMA X11Holds ==
  ASSUME TypeOK, HoldIsKept
  PROVE  /\ \A w \in Window : MoveRequestX11(w) => HoldIsKept'
         /\ \A w \in Window, e \in Edge : ResizeRequestX11(w, e) => HoldIsKept'
         /\ \A w \in Window, s \in Size : ConfigureRequest(w, s) \/ UnfullscreenRequestX11(w, s) => HoldIsKept'
         /\ \A w \in Window : ConfigureNotify(w) \/ UnmaximizeRequestX11(w) => HoldIsKept'
         /\ \A w \in Window : MaximizeRequestX11(w) => HoldIsKept'
         /\ \A w \in Window : FullscreenRequestX11(w) => HoldIsKept'
<1> USE DEF vars, toplevelVars, x11Vars, windowVars, seatVars
<1>1. ASSUME NEW w \in Window, MoveRequestX11(w) PROVE HoldIsKept'
  <2>1. xmax \cap {w} \in SUBSET Window /\ (w \in xmax => w \in xmax \cap {w})
    OBVIOUS
  <2>2. /\ grab.kind # "none" /\ CountAsk(xmax \cap {w})
        /\ grab' = Moving(grab, NoWindow, w, IF w \in xmax THEN pointer ELSE loc[w])
    BY <1>1 DEF MoveRequestX11
  <2> QED
    BY <2>1, <2>2, MovingKeepsHold
<1>2. ASSUME NEW w \in Window, NEW e \in Edge, ResizeRequestX11(w, e) PROVE HoldIsKept'
  <2>1. CASE grab.kind = "none"
    BY <1>2, <2>1, HoldGoesOn DEF ResizeRequestX11
  <2>2. CASE grab.kind # "none"
    BY <1>2, <2>2, ResizingKeepsHold DEF ResizeRequestX11
  <2> QED
    BY <2>1, <2>2
<1>3. ASSUME NEW w \in Window, NEW s \in Size, ConfigureRequest(w, s) \/ UnfullscreenRequestX11(w, s)
      PROVE  HoldIsKept'
  <2>1. CASE ConfigureRequest(w, s)
    BY <2>1, HoldGoesOn DEF ConfigureRequest
  <2>2. CASE UnfullscreenRequestX11(w, s)
    BY <2>2, PlacingKeepsHold DEF UnfullscreenRequestX11
  <2> QED
    BY <1>3, <2>1, <2>2
<1>4. ASSUME NEW w \in Window, ConfigureNotify(w) \/ UnmaximizeRequestX11(w) PROVE HoldIsKept'
  <2>1. UNCHANGED grab /\ ((\E x : MapAt(w, x)) \/ UNCHANGED <<loc, press>>)
    BY <1>4 DEF ConfigureNotify, UnmaximizeRequestX11
  <2> QED
    BY <2>1, PlacingKeepsHold, HoldGoesOn
<1>5. ASSUME NEW w \in Window, MaximizeRequestX11(w) PROVE HoldIsKept'
  BY <1>5, PlacingKeepsHold DEF MaximizeRequestX11
<1>6. ASSUME NEW w \in Window, FullscreenRequestX11(w) PROVE HoldIsKept'
  BY <1>6, HoldGoesOn DEF FullscreenRequestX11
<1> QED
  BY <1>1, <1>2, <1>3, <1>4, <1>5, <1>6

LEMMA NextHolds == TypeOK /\ GrabsHaveWindows /\ HoldIsKept /\ [Next]_vars => HoldIsKept'
<1> SUFFICES ASSUME TypeOK, GrabsHaveWindows, HoldIsKept, [Next]_vars PROVE HoldIsKept'
  OBVIOUS
<1>1. CASE User
  BY <1>1, UserHolds
<1>2. CASE Toplevel
  BY <1>2, ToplevelHolds DEF Toplevel
<1>3. CASE X11
  BY <1>3, X11Holds DEF X11
<1>4. CASE Refresh \/ UNCHANGED vars
  BY <1>4, HoldGoesOn DEF Refresh, vars, toplevelVars, x11Vars, windowVars, seatVars
<1> QED
  BY <1>1, <1>2, <1>3, <1>4 DEF Next

-----------------------------------------------------------------------------
(* The invariant and what follows from it                                    *)

\* The inductive invariant holds: the grabs, the anchors of the resizes and the
\* geometries of maximized windows stay consistent whatever clients, the X
\* server and the user do, in any order.
THEOREM Invariance == Spec => []IInv
<1>1. Init => IInv
  <2> SUFFICES ASSUME Init PROVE IInv
    OBVIOUS
  <2>1. GrabNeedsButtons /\ GrabsHaveWindows /\ ResizeIsAnchored
    BY DEF Init, NoGrab, GrabNeedsButtons, GrabsHaveWindows, ResizeIsAnchored
  <2>2. MaximizeIsUndone
    BY DEF Init, MaximizeIsUndone
  <2>3. HoldIsKept
    BY DEF Init, NoGrab, HoldIsKept
  <2> QED
    BY <2>1, <2>2, <2>3, InitTypeOK DEF IInv
<1>2. IInv /\ [Next]_vars => IInv'
  BY NextTypeOK, NextGrabs, NextAnchored, NextUndone, NextHolds DEF IInv
<1> QED
  BY <1>1, <1>2, PTL DEF Spec

\* The types hold, and no grab is left once the last button is up, however late
\* a client asks to move or to resize (the guards of move_request_xdg and
\* resize_request, button of the grabs in grabs.rs).
THEOREM GrabsSound == Spec => []GrabsAreSound
<1>1. IInv => GrabsAreSound
  BY DEF IInv, GrabsAreSound
<1> QED
  BY <1>1, Invariance, PTL

\* A toplevel that is resized by its left edge keeps its right edge, for every
\* size that its client commits and at any time (handle_toplevel_commit).
THEOREM RightEdgeIsKept == Spec => []RightEdgeStays
<1>1. IInv => RightEdgeStays
  BY DEF IInv, ResizeIsAnchored, RightEdgeStays
<1> QED
  BY <1>1, Invariance, PTL

\* An X11 window returns to the geometry that it had before it was maximized,
\* once (OldGeometry of xwayland_shell.rs).
THEOREM MaximizingIsUndone == Spec => []MaximizeIsUndone
<1>1. IInv => MaximizeIsUndone
  BY DEF IInv
<1> QED
  BY <1>1, Invariance, PTL

\* A window that is moved stays under the pointer where it was at the press, also
\* when the client asks late: the grabs count from start_data, not from where the
\* pointer is when the request comes (PointerMoveSurfaceGrab::motion).
THEOREM MovesFollowPointer == Spec => FollowsPointer
<1>1. ASSUME IInv, [Next]_vars, grab.kind = "move", pointer' # pointer, press.asks = 1,
             grab.window \notin press.others
      PROVE  loc'[grab.window] - pointer' = press.hold[grab.window]
  <2>1. PICK p \in 0 .. MaxPos : Motion(p)
    <3>1. CASE User
      BY <1>1, <3>1 DEF User, Press, Release, TouchDown, TouchUp, TouchMotion
    <3>2. CASE Toplevel
      <4>1. pointer' = pointer
        BY <3>2 DEF Toplevel, MoveRequest, TouchMoveRequest, ResizeRequest, TouchResizeRequest,
                    MaximizeRequest, UnmaximizeRequest, AckConfigure, Commit, Destroy, seatVars
      <4> QED
        BY <1>1, <4>1
    <3>3. CASE X11
      <4>1. pointer' = pointer
        BY <3>3 DEF X11, MoveRequestX11, ResizeRequestX11, ConfigureRequest, UnfullscreenRequestX11,
                    ConfigureNotify, MaximizeRequestX11, UnmaximizeRequestX11, FullscreenRequestX11, seatVars
      <4> QED
        BY <1>1, <4>1
    <3>4. CASE Refresh \/ UNCHANGED vars
      BY <1>1, <3>4 DEF Refresh, vars, seatVars
    <3> QED
      BY <1>1, <3>1, <3>2, <3>3, <3>4 DEF Next
  <2>2. pointer' = p /\ MotionMove(p)
    BY <1>1, <2>1 DEF Motion, MotionResize
  <2>3. grab.window \in Window /\ loc \in [Window -> Place] /\ grab.loc \in Int /\ grab.start \in Int
    BY <1>1, ScreenFacts DEF IInv, TypeOK, GrabsHaveWindows, Grab, NoGrab
  <2>4. loc'[grab.window] = grab.loc + p - grab.start
    BY <2>2, <2>3 DEF MotionMove
  <2>5. grab.loc - grab.start = press.hold[grab.window]
    BY <1>1 DEF IInv, HoldIsKept
  <2> QED
    BY <2>2, <2>3, <2>4, <2>5
<1>2. IInv /\ [Next]_vars =>
        [grab.kind = "move" /\ pointer' # pointer /\ press.asks = 1 /\ grab.window \notin press.others
         => loc'[grab.window] - pointer' = press.hold[grab.window]]_vars
  BY <1>1
<1> QED
  BY <1>2, Invariance, PTL DEF Spec, FollowsPointer
=============================================================================
