------------------------------- MODULE Grabs --------------------------------
(***************************************************************************)
(* Moving and resizing windows with the pointer and by touch               *)
(* (scape-display/src): the grabs of grabs.rs, the requests that start     *)
(* them in xdg_shell.rs and xwayland_shell.rs, maximizing, and the resize  *)
(* state that a grab leaves for the commits of the client (shell.rs).      *)
(*                                                                         *)
(* The two axes are alike and independent, so there is one: a window has a *)
(* left edge, loc, and a width, size.  A client answers a configure when   *)
(* it likes, with the size it likes.                                       *)
(***************************************************************************)
EXTENDS Integers

CONSTANTS
  Window,
  NoWindow,    \* a press on no window
  Edge,        \* the edges that a resize may ask for, of "Left", "Right", "None"
  Screen,      \* width of the output, whose left edge is at 0
  MaxPos,      \* bound: places of the pointer and of the finger
  Touched,     \* bound: where the finger goes down
  MaxLoc,      \* bound: how far a window gets from 0
  MaxSize,     \* the max_size that clients set, the size they commit at most
  MaxButtons,  \* bound: buttons held at a time
  MaxAsks      \* bound: requests to move or resize during one press

ASSUME GrabsAssumption ==
  /\ NoWindow \notin Window
  /\ Edge \subseteq {"Left", "Right", "None"}
  /\ {Screen, MaxPos, MaxLoc, MaxSize, MaxButtons, MaxAsks} \subseteq Nat
  /\ Touched \subseteq 0 .. MaxPos
  /\ Screen \in 1 .. MaxSize

Place == -MaxLoc .. MaxLoc
Size == 1 .. MaxSize

VARIABLES
  xdg,       \* the windows that are xdg toplevels; the others are X11 windows
  alive,     \* windows whose surface exists
  mapped,    \* windows the space has
  loc,       \* their left edge in it
  size,      \* the width of their geometry
  sent,      \* toplevels whose last configure says Maximized
  acked,     \* those that acknowledged such a configure last
  current,   \* those that have committed it
  resize,    \* SurfaceData::resize_state
  xloc,      \* the left edge of an X11 window as the X server has it
  xmax,      \* X11 windows that are maximized
  oldGeo,    \* their OldGeometry
  notify,    \* why a ConfigureNotify of the X server is under way
  pointer,   \* where the pointer is
  pressed,   \* how many of its buttons are down
  grab,      \* the grab of the pointer
  touch,     \* the grab of the finger
  panicked,  \* an unwrap failed and ended the display thread
  press,     \* history: where the windows were at the press as seen from the
             \* pointer, requests since then, and windows that something else
             \* than the grab has placed since
  undo       \* history: the geometry a maximized X11 window had before, unless
             \* it was maximized again

toplevelVars == <<sent, acked, current>>
x11Vars == <<xloc, xmax, oldGeo, notify, undo>>
seatVars == <<pointer, pressed, grab, touch, press>>
windowVars == <<alive, mapped, loc, size>>
vars == <<xdg, windowVars, toplevelVars, resize, x11Vars, seatVars, panicked>>

NoGeometry == [loc |-> 0, size |-> 0]
NotResizing == [at |-> "NotResizing", edge |-> "None", right |-> 0]
NoGrab == [kind |-> "none", focus |-> NoWindow, start |-> 0, window |-> NoWindow, edge |-> "None", loc |-> 0, size |-> 0]

NoPress == [hold |-> [w \in Window |-> 0], asks |-> 0, others |-> {}]

Geometry == [loc : Place, size : Size] \cup {NoGeometry}
ResizeState ==
  {NotResizing} \cup
  [at : {"Resizing", "WaitingForFinalAck", "WaitingForCommit"}, edge : Edge, right : Int]
Grab ==
  {NoGrab} \cup
  [kind : {"click", "move", "resize"}, focus : Window \cup {NoWindow}, start : 0 .. MaxPos,
   window : Window \cup {NoWindow}, edge : Edge \cup {"None"},
   loc : Int, size : Size \cup {0}]

TypeOK ==
  /\ xdg \subseteq Window
  /\ alive \subseteq Window
  /\ mapped \subseteq Window
  /\ loc \in [Window -> Place]
  /\ size \in [Window -> Size]
  /\ sent \subseteq Window
  /\ acked \subseteq Window
  /\ current \subseteq Window
  /\ resize \in [Window -> ResizeState]
  /\ xloc \in [Window -> Int]
  /\ xmax \subseteq Window
  /\ oldGeo \in [Window -> Geometry]
  /\ notify \in [Window -> {"none", "place", "size"}]
  /\ pointer \in 0 .. MaxPos
  /\ pressed \in 0 .. MaxButtons
  /\ grab \in Grab
  /\ touch \in Grab
  /\ panicked \in BOOLEAN
  /\ press \in [hold : [Window -> Int], asks : 0 .. MaxAsks, others : SUBSET Window]
  /\ undo \in [Window -> Geometry]

Init ==
  /\ xdg \in SUBSET Window
  /\ alive = Window
  /\ mapped = Window
  /\ loc = [w \in Window |-> 0]
  /\ size = [w \in Window |-> 1]
  /\ sent = {}
  /\ acked = {}
  /\ current = {}
  /\ resize = [w \in Window |-> NotResizing]
  /\ xloc = loc
  /\ xmax = {}
  /\ oldGeo = [w \in Window |-> NoGeometry]
  /\ notify = [w \in Window |-> "none"]
  /\ pointer = 0
  /\ pressed = 0
  /\ grab = NoGrab
  /\ touch = NoGrab
  /\ panicked = FALSE
  /\ press = NoPress
  /\ undo = oldGeo

Min2(a, b) == IF a < b THEN a ELSE b
Max2(a, b) == IF a < b THEN b ELSE a

-----------------------------------------------------------------------------
(* Placing a window *)

\* Space::map_element by a client or by the finger.
MapAt(w, x) ==
  /\ x \in Place
  /\ loc' = [loc EXCEPT ![w] = x]
  /\ mapped' = mapped \cup {w}
  /\ press' = [press EXCEPT !.others = @ \cup {w}]

\* X11Surface::configure: the X server will report the geometry.
ConfigureX11(w, x, s, why) ==
  /\ xloc' = [xloc EXCEPT ![w] = x]
  /\ size' = [size EXCEPT ![w] = s]
  /\ notify' = [notify EXCEPT ![w] = why]

\* window_and_space_for_surface
Found(w) == w \in alive /\ w \in mapped

-----------------------------------------------------------------------------
(* Grabs: smithay's click grab, and those of grabs.rs that take its place, with *)
(* the data of its start; e, x and s are the fields that are read from then on. *)

Click(w, p) ==
  [kind |-> "click", focus |-> w, start |-> p, window |-> NoWindow, edge |-> "None", loc |-> 0, size |-> 0]

Moving(g, focus, w, x) ==
  [kind |-> "move", focus |-> focus, start |-> g.start, window |-> w, edge |-> "None", loc |-> x, size |-> 0]

Resizing(g, focus, w, e, x, s) ==
  [kind |-> "resize", focus |-> focus, start |-> g.start, window |-> w, edge |-> e, loc |-> x, size |-> s]

-----------------------------------------------------------------------------
(* The pointer *)

\* A button goes down over w.  The first one starts smithay's click grab, whose
\* serial the client gets to know.
Press(w) ==
  /\ w \in mapped \cup {NoWindow}
  /\ pressed < MaxButtons
  /\ pressed' = pressed + 1
  /\ IF grab.kind = "none"
       THEN /\ grab' = Click(w, pointer)
            /\ press' = [hold |-> [v \in Window |-> loc[v] - pointer], asks |-> 0, others |-> {}]
       ELSE UNCHANGED <<grab, press>>
  /\ UNCHANGED <<xdg, windowVars, toplevelVars, resize, x11Vars, pointer, touch, panicked>>

\* button of the grabs: the last release ends them all.
Release ==
  /\ pressed > 0
  /\ pressed' = pressed - 1
  /\ IF pressed = 1
       THEN grab' = NoGrab /\ press' = NoPress
       ELSE UNCHANGED <<grab, press>>
  /\ UNCHANGED <<xdg, windowVars, toplevelVars, resize, x11Vars, pointer, touch, panicked>>

\* PointerMoveSurfaceGrab::motion
MotionMove(p) ==
  LET x == grab.loc + p - grab.start IN
  /\ grab.kind = "move"
  /\ x \in Place
  /\ loc' = [loc EXCEPT ![grab.window] = x]
  /\ mapped' = mapped \cup {grab.window}
  /\ UNCHANGED <<alive, size, toplevelVars, x11Vars, grab>>

\* The size that PointerResizeSurfaceGrab::motion asks for.
AskedSize(p) ==
  LET d == p - grab.start
      grown == CASE grab.edge = "Left" -> grab.size - d
                 [] grab.edge = "Right" -> grab.size + d
                 [] OTHER -> grab.size
  IN  Min2(Max2(grown, 1), MaxSize)

\* PointerResizeSurfaceGrab::motion with ApplicationWindow::resize.  A toplevel
\* is sent the size, and may commit any.
MotionResize(p) ==
  /\ grab.kind = "resize"
  /\ IF grab.window \notin alive
       THEN grab' = NoGrab /\ UNCHANGED <<x11Vars, size>>
       ELSE /\ UNCHANGED grab
            /\ IF grab.window \in mapped \ xdg
                 THEN /\ ConfigureX11(grab.window, loc[grab.window], AskedSize(p), "place")
                      /\ UNCHANGED <<xmax, oldGeo, undo>>
                 ELSE UNCHANGED <<x11Vars, size>>
  /\ UNCHANGED <<alive, mapped, loc, toplevelVars>>

Motion(p) ==
  /\ p # pointer
  /\ pointer' = p
  /\ \/ MotionMove(p)
     \/ MotionResize(p)
     \/ /\ grab.kind \in {"none", "click"}
        /\ UNCHANGED <<windowVars, toplevelVars, x11Vars, grab>>
  /\ UNCHANGED <<xdg, resize, pressed, touch, press, panicked>>

-----------------------------------------------------------------------------
(* The finger: one slot that takes part in grabs, once it is on a window *)

TouchDown(w, p) ==
  /\ touch.kind = "none"
  /\ w \in mapped
  /\ touch' = Click(w, p)
  /\ UNCHANGED <<xdg, windowVars, toplevelVars, resize, x11Vars, pointer, pressed, grab, press, panicked>>

\* up and cancel of the slot that started the grab
TouchUp ==
  /\ touch.kind # "none"
  /\ touch' = NoGrab
  /\ UNCHANGED <<xdg, windowVars, toplevelVars, resize, x11Vars, pointer, pressed, grab, press, panicked>>

\* TouchMoveSurfaceGrab::motion; that of TouchResizeSurfaceGrab does nothing.
TouchMotion(p) ==
  /\ touch.kind = "move"
  /\ MapAt(touch.window, touch.loc + p - touch.start)
  /\ UNCHANGED <<xdg, alive, size, toplevelVars, resize, x11Vars, pointer, pressed, grab, touch, panicked>>

-----------------------------------------------------------------------------
(* Requests of xdg toplevels *)

\* What both branches of a request ask for: a grab with that serial, by touch
\* or by the pointer, that began on a surface of the same client.
Granted(g, w) ==
  /\ w \in xdg
  /\ Found(w)
  /\ g.kind # "none"
  /\ g.focus # NoWindow
  /\ press.asks < MaxAsks

\* A maximized window is no longer so when it is moved, and is put to p.
Unmaximizing(w) == current \cap {w}

CountAsk(placed) ==
  press' = [hold |-> IF press.asks = 0 /\ grab'.kind = "move" THEN press.hold ELSE NoPress.hold,
            asks |-> press.asks + 1,
            others |-> press.others \cup placed]

\* Mutant: the pointer is taken from where it is when the request comes.
MoveRequestLate(w) ==
  /\ Granted(grab, w)
  /\ grab' = [Moving(grab, grab.focus, w, loc[w]) EXCEPT !.start = pointer]
  /\ sent' = sent \ Unmaximizing(w)
  /\ CountAsk(Unmaximizing(w))
  /\ UNCHANGED <<xdg, windowVars, acked, current, resize, x11Vars, pointer, pressed, touch, panicked>>

\* move_request_xdg by the pointer
MoveRequest(w) ==
  /\ Granted(grab, w)
  /\ grab' = Moving(grab, grab.focus, w, IF w \in current THEN pointer ELSE loc[w])
  /\ sent' = sent \ Unmaximizing(w)
  /\ CountAsk(Unmaximizing(w))
  /\ UNCHANGED <<xdg, windowVars, acked, current, resize, x11Vars, pointer, pressed, touch, panicked>>

\* move_request_xdg by touch: the window is put to where the finger went down.
TouchMoveRequest(w) ==
  /\ Granted(touch, w)
  /\ touch' = Moving(touch, touch.focus, w, IF w \in current THEN touch.start ELSE loc[w])
  /\ sent' = sent \ Unmaximizing(w)
  /\ UNCHANGED <<xdg, windowVars, acked, current, resize, x11Vars, pointer, pressed, grab, press, panicked>>

\* The initial location and size are only read as their sum, to keep the right
\* edge when the left one moves.
RightEdge(w, e) == IF e = "Left" THEN loc[w] + size[w] ELSE 0

\* The resize state that every request to resize leaves.
StartResize(w, e) ==
  resize' = [resize EXCEPT ![w] = [at |-> "Resizing", edge |-> e, right |-> RightEdge(w, e)]]

\* resize_request by the pointer.  What is asked of a toplevel is not kept, so
\* neither is the size that it starts from.
ResizeRequest(w, e) ==
  /\ Granted(grab, w)
  /\ StartResize(w, e)
  /\ grab' = Resizing(grab, grab.focus, w, e, RightEdge(w, e), 0)
  /\ CountAsk({})
  /\ UNCHANGED <<xdg, windowVars, toplevelVars, x11Vars, pointer, pressed, touch, panicked>>

\* resize_request by touch
TouchResizeRequest(w, e) ==
  /\ Granted(touch, w)
  /\ StartResize(w, e)
  /\ touch' = Resizing(touch, touch.focus, w, "None", 0, 0)
  /\ press' = [press EXCEPT !.others = @ \cup {w}]
  /\ UNCHANGED <<xdg, windowVars, toplevelVars, x11Vars, pointer, pressed, grab, panicked>>

\* maximize_request of xdg_shell.rs
MaximizeRequest(w) ==
  /\ w \in xdg
  /\ Found(w)
  /\ sent' = sent \cup {w}
  /\ MapAt(w, 0)
  /\ UNCHANGED <<xdg, alive, size, acked, current, resize, x11Vars, pointer, pressed, grab, touch, panicked>>

\* unmaximize_request of xdg_shell.rs: the window stays where it is.
UnmaximizeRequest(w) ==
  /\ w \in xdg \cap alive \cap current
  /\ sent' = sent \ {w}
  /\ UNCHANGED <<xdg, windowVars, acked, current, resize, x11Vars, seatVars, panicked>>

-----------------------------------------------------------------------------
(* Configures, acknowledgements and commits of xdg toplevels *)

\* What of one set of windows w has in another: the state it takes over.
TakenOver(w, to, from) == (to \ {w}) \cup (from \cap {w})

\* ack_configure; whether the client had committed a Resizing state is open.
AckConfigure(w) ==
  /\ w \in xdg \cap alive
  /\ acked' = TakenOver(w, acked, sent)
  /\ IF resize[w].at = "WaitingForFinalAck"
       THEN resize' \in {resize, [resize EXCEPT ![w].at = "WaitingForCommit"]}
       ELSE UNCHANGED resize
  /\ UNCHANGED <<xdg, windowVars, sent, current, x11Vars, seatVars, panicked>>

\* Mutant: the left edge goes the wrong way.
AnchoredOn(w, s) ==
  IF resize[w].at = "Resizing" /\ resize[w].edge = "Left"
    THEN loc[w] + s - size[w]
    ELSE loc[w]

\* handle_toplevel_commit: where a window of size s belongs.
Anchored(w, s) ==
  IF resize[w].at = "Resizing" /\ resize[w].edge = "Left"
    THEN resize[w].right - s
    ELSE loc[w]

\* commit with handle_toplevel_commit and ensure_initial_configure: the client
\* shows its surface with size s and moves it by d.
Commit(w, s, d) ==
  /\ w \in xdg
  /\ Found(w)
  /\ current' = TakenOver(w, current, acked)
  /\ size' = [size EXCEPT ![w] = s]
  /\ loc' = [loc EXCEPT ![w] = Anchored(w, s) + d]
  /\ loc'[w] \in Place
  /\ press' = IF d = 0 /\ (loc' = loc \/ (grab.kind = "resize" /\ grab.window = w))
                THEN press
                ELSE [press EXCEPT !.others = @ \cup {w}]
  /\ resize' = IF resize[w].at = "WaitingForCommit" THEN [resize EXCEPT ![w] = NotResizing] ELSE resize
  /\ UNCHANGED <<xdg, alive, mapped, sent, acked, x11Vars, pointer, pressed, grab, touch, panicked>>

\* toplevel_destroyed and unmapped_window
Destroy(w) ==
  /\ w \in alive
  /\ alive' = alive \ {w}
  /\ mapped' = mapped \ {w}
  /\ UNCHANGED <<xdg, loc, size, toplevelVars, resize, x11Vars, seatVars, panicked>>

\* The end of a dispatch: Space::refresh drops what is dead.
Refresh ==
  /\ mapped \ alive # {}
  /\ mapped' = mapped \cap alive
  /\ UNCHANGED <<xdg, alive, loc, size, toplevelVars, resize, x11Vars, seatVars, panicked>>

-----------------------------------------------------------------------------
(* Requests of X11 windows, and what the X server reports *)

IsX11(w) == w \notin xdg /\ Found(w)

\* Mutant: the old geometry stays for the next time.
TakeOldNever(w) == UNCHANGED oldGeo

\* OldGeometry::restore
TakeOld(w) == oldGeo' = [oldGeo EXCEPT ![w] = NoGeometry]

\* X11Surface::set_maximized(false)
NoLongerMaximized(w) ==
  /\ xmax' = xmax \ {w}
  /\ undo' = [undo EXCEPT ![w] = NoGeometry]

\* Mutant: a move starts also when the button is already up.
MoveRequestX11Always(w) ==
  /\ IsX11(w)
  /\ press.asks < MaxAsks
  /\ grab' = Moving(grab, NoWindow, w, loc[w])
  /\ CountAsk({})
  /\ UNCHANGED <<xdg, windowVars, toplevelVars, resize, x11Vars, pointer, pressed, touch, panicked>>

\* move_request_x11: any grab will do, whatever it began on, and the
\* one it sets has a serial that no client knows, as if it began on no window.
MoveRequestX11(w) ==
  /\ IsX11(w)
  /\ grab.kind # "none"
  /\ press.asks < MaxAsks
  /\ grab' = Moving(grab, NoWindow, w, IF w \in xmax THEN pointer ELSE loc[w])
  /\ NoLongerMaximized(w)
  /\ IF w \in xmax /\ oldGeo[w] # NoGeometry
       THEN /\ TakeOld(w)
            /\ ConfigureX11(w, pointer, oldGeo[w].size, "place")
       ELSE UNCHANGED <<oldGeo, xloc, size, notify>>
  /\ CountAsk(xmax \cap {w})
  /\ UNCHANGED <<xdg, alive, mapped, loc, toplevelVars, resize, pointer, pressed, touch, panicked>>

\* resize_request of xwayland_shell.rs: it unwraps the grab before it looks.
ResizeRequestX11(w, e) ==
  /\ w \in alive \ xdg
  /\ press.asks < MaxAsks
  /\ IF grab.kind = "none"
       THEN panicked' = TRUE /\ UNCHANGED <<resize, grab, press>>
       ELSE /\ Found(w)
            /\ StartResize(w, e)
            /\ grab' = Resizing(grab, NoWindow, w, e, RightEdge(w, e), size[w])
            /\ CountAsk({})
            /\ UNCHANGED panicked
  /\ UNCHANGED <<xdg, windowVars, toplevelVars, x11Vars, pointer, pressed, touch>>

\* configure_request: a window may have the size it asks for, not the place.
ConfigureRequest(w, s) ==
  /\ w \in alive \ xdg
  /\ ConfigureX11(w, xloc[w], s, IF notify[w] = "place" THEN "place" ELSE "size")
  /\ UNCHANGED <<xdg, alive, mapped, loc, toplevelVars, resize, xmax, oldGeo, undo, seatVars, panicked>>

\* configure_notify
ConfigureNotify(w) ==
  /\ notify[w] # "none"
  /\ notify' = [notify EXCEPT ![w] = "none"]
  /\ IF Found(w)
       THEN MapAt(w, xloc[w])
       ELSE UNCHANGED <<loc, mapped, press>>
  /\ UNCHANGED <<xdg, alive, size, toplevelVars, resize, xloc, xmax, oldGeo, undo,
                 pointer, pressed, grab, touch, panicked>>

\* maximize_request_x11
MaximizeRequestX11(w) ==
  /\ IsX11(w)
  /\ xmax' = xmax \cup {w}
  /\ ConfigureX11(w, 0, Screen, "place")
  /\ oldGeo' = [oldGeo EXCEPT ![w] = [loc |-> loc[w], size |-> size[w]]]
  /\ undo' = [undo EXCEPT ![w] = IF w \in xmax THEN NoGeometry ELSE [loc |-> loc[w], size |-> size[w]]]
  /\ MapAt(w, 0)
  /\ UNCHANGED <<xdg, alive, toplevelVars, resize, pointer, pressed, grab, touch, panicked>>

\* unmaximize_request of xwayland_shell.rs
UnmaximizeRequestX11(w) ==
  /\ IsX11(w)
  /\ NoLongerMaximized(w)
  /\ IF oldGeo[w] # NoGeometry
       THEN /\ TakeOld(w)
            /\ ConfigureX11(w, oldGeo[w].loc, oldGeo[w].size, "place")
            /\ MapAt(w, oldGeo[w].loc)
       ELSE UNCHANGED <<oldGeo, xloc, size, notify, loc, mapped, press>>
  /\ UNCHANGED <<xdg, alive, toplevelVars, resize, pointer, pressed, grab, touch, panicked>>

\* fullscreen_request of xwayland_shell.rs: the size and place of the output,
\* where the X server's report puts the window.
FullscreenRequestX11(w) ==
  /\ IsX11(w)
  /\ ConfigureX11(w, 0, Screen, "place")
  /\ UNCHANGED <<xdg, alive, mapped, loc, toplevelVars, resize, xmax, oldGeo, undo, seatVars, panicked>>

\* unfullscreen_request of xwayland_shell.rs: place_window puts the window into
\* its zone, which starts at 0 here, and asks for the size of the zone.
UnfullscreenRequestX11(w, s) ==
  /\ IsX11(w)
  /\ ConfigureX11(w, 0, s, "place")
  /\ MapAt(w, 0)
  /\ UNCHANGED <<xdg, alive, toplevelVars, resize, xmax, oldGeo, undo, pointer, pressed, grab, touch, panicked>>

-----------------------------------------------------------------------------
User ==
  \/ \E w \in Window \cup {NoWindow} : Press(w)
  \/ Release
  \/ \E p \in 0 .. MaxPos : Motion(p)
  \/ \E w \in Window, p \in Touched : TouchDown(w, p)
  \/ TouchUp
  \/ \E p \in 0 .. MaxPos : TouchMotion(p)

Toplevel ==
  \E w \in Window :
    \/ MoveRequest(w)
    \/ TouchMoveRequest(w)
    \/ \E e \in Edge : ResizeRequest(w, e) \/ TouchResizeRequest(w, e)
    \/ MaximizeRequest(w)
    \/ UnmaximizeRequest(w)
    \/ AckConfigure(w)
    \/ \E s \in Size, d \in {0, 1} : Commit(w, s, d)
    \/ Destroy(w)

X11 ==
  \E w \in Window :
    \/ MoveRequestX11(w)
    \/ \E e \in Edge : ResizeRequestX11(w, e)
    \/ \E s \in Size : ConfigureRequest(w, s) \/ UnfullscreenRequestX11(w, s)
    \/ ConfigureNotify(w)
    \/ MaximizeRequestX11(w)
    \/ UnmaximizeRequestX11(w)
    \/ FullscreenRequestX11(w)

Next == ~panicked /\ (User \/ Toplevel \/ X11 \/ Refresh)

Spec == Init /\ [][Next]_vars

-----------------------------------------------------------------------------
(* Properties *)

\* No grab outlives the buttons: whatever requests come, in whatever order and
\* however late, the pointer is free when no button is pressed.
GrabNeedsButtons == grab.kind # "none" => pressed > 0

\* What holds of every grab in every state: its type, and a button.
GrabsAreSound == TypeOK /\ GrabNeedsButtons

\* A window that is resized by its left edge keeps its right edge where it was
\* when the resize began, whatever sizes the client commits and whenever.
RightEdgeStays ==
  grab.kind = "resize" /\ grab.edge = "Left" /\ grab.window \in xdg \ press.others =>
    loc[grab.window] + size[grab.window] = grab.loc

\* A window that is moved stays under the pointer where it was at the press, also
\* when the client asks for the move late.
FollowsPointer ==
  [][grab.kind = "move" /\ pointer' # pointer /\ press.asks = 1 /\ grab.window \notin press.others
     => loc'[grab.window] - pointer' = press.hold[grab.window]]_vars

\* What an X11 window returns to is what it was before it was maximized, and
\* only a maximized window has something to return to.
MaximizeIsUndone ==
  \A w \in Window :
    /\ oldGeo[w] # NoGeometry => w \in xmax
    /\ w \in xmax /\ undo[w] # NoGeometry => oldGeo[w] = undo[w]
=============================================================================
