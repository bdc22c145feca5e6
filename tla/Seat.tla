-------------------------------- MODULE Seat ---------------------------------
(***************************************************************************)
(* The seat of the display (scape-display/src/input_handler.rs, focus.rs,  *)
(* protocols/pointer_constraints.rs, wlr_layer_shell.rs): which surface    *)
(* has the pointer and which one the keyboard, while the user moves,       *)
(* clicks, touches and draws, and clients come, go and lock or confine the *)
(* pointer.                                                                *)
(*                                                                         *)
(* A point is a pair of whole numbers.  The outputs stand side by side.  A *)
(* surface is a whole window or layer: popups and subsurfaces are left out *)
(* with the grabs that belong to them.                                     *)
(***************************************************************************)
EXTENDS Integers, Sequences, FiniteSets, SequencesExt

CONSTANTS
  Window,
  Override,      \* the windows that X11 clients manage themselves
  Layer,
  Nobody,        \* no surface
  Screen,        \* outputs of the first space, as [x, w, h] with the top at 0
  Extent,        \* where a window is: a set of points
  Hint,          \* the pointer positions its client may ask for
  Region,        \* the region of the constraints its client asks for
  On, Level, Area,  \* the output of a layer, its level, its place on the output
  Focusable,     \* layers that take the keyboard
  Exclusive,     \* those that take it whenever they are shown
  Raw,           \* bound: where relative motion would lead without limits
  Absolute,      \* bound: points that absolute devices report
  Tool, Tablet,
  MaxButtons, MaxFingers  \* bounds: buttons and fingers that are down

Levels == {"Overlay", "Top", "Bottom", "Background"}
Point == Int \X Int

ASSUME SeatAssumption ==
  /\ Override \subseteq Window
  /\ Nobody \notin Window \cup Layer
  /\ Window \cap Layer = {}
  /\ Screen \subseteq [x : Nat, w : Nat \ {0}, h : Nat \ {0}]
  /\ IsFiniteSet(Screen)
  /\ Screen # {}
  /\ Extent \in [Window -> SUBSET Point]
  /\ Hint \in [Window -> SUBSET Point]
  /\ Region \in [Window -> SUBSET Point]
  /\ On \in [Layer -> Screen]
  /\ Level \in [Layer -> Levels]
  /\ Area \in [Layer -> SUBSET Point]
  /\ \A k, l \in Layer : On[k] = On[l] /\ Level[k] = Level[l] => k = l
  /\ Exclusive \subseteq Focusable
  /\ Focusable \subseteq Layer
  /\ Raw \subseteq Point
  /\ Absolute \subseteq Point
  /\ MaxButtons \in Nat
  /\ MaxFingers \in Nat

VARIABLES
  stack,       \* the windows of the first space, the topmost last
  layers,      \* the layers that are mapped
  location,    \* of the pointer
  focus,       \* what has the pointer
  pending,     \* what gets it when the buttons are up again
  pressed,     \* buttons that are down: they grab the pointer
  keyboard,    \* what has the keyboard
  fingers,     \* fingers on the screen: they grab the touch
  constraint,  \* the pointer constraint of each window
  tablets, tools,  \* what the tablet seat knows
  rested,      \* history: the last motion ended on what it was reported to, and
               \* nothing else has changed since
  bound        \* history: windows whose constraint became active with the pointer
               \* inside, since when no other than relative motion has come

stageVars == <<stack, layers>>
pointerVars == <<location, focus, pending, pressed>>
tabletVars == <<tablets, tools>>
history == <<rested, bound>>
seatVars == <<stageVars, pointerVars, keyboard, fingers, constraint, tabletVars, history>>

Surface == Window \cup Layer
NoConstraint == [kind |-> "none", active |-> FALSE]

SeatTypeOK ==
  /\ stack \in Seq(Window)
  /\ layers \subseteq Layer
  /\ location \in Point
  /\ focus \in Surface \cup {Nobody}
  /\ pending \in Surface \cup {Nobody}
  /\ pressed \in 0 .. MaxButtons
  /\ keyboard \in Surface \cup {Nobody}
  /\ fingers \in 0 .. MaxFingers
  /\ constraint \in [Window -> [kind : {"none", "lock", "confine"}, active : BOOLEAN]]
  /\ tablets \subseteq Tablet
  /\ tools \subseteq Tool
  /\ rested \in BOOLEAN
  /\ bound \subseteq Window

SeatInit ==
  /\ stack = <<>>
  /\ layers = {}
  /\ location = <<0, 0>>
  /\ focus = Nobody
  /\ pending = Nobody
  /\ pressed = 0
  /\ keyboard = Nobody
  /\ fingers = 0
  /\ constraint = [w \in Window |-> NoConstraint]
  /\ tablets = {}
  /\ tools = {}
  /\ rested = FALSE
  /\ bound = {}

-----------------------------------------------------------------------------
(* What is where *)

\* Outputs that contain a point: one or none.
ScreensAt(p) == {s \in Screen : p[1] \in s.x .. s.x + s.w - 1 /\ p[2] \in 0 .. s.h - 1}

\* layer_under of one of two levels.  The area of a layer is meant from the
\* corner of its output, the point from that of the first one.
OnLevel(p, level) == {l \in layers : On[l] \in ScreensAt(p) /\ Level[l] = level /\ p \in Area[l]}

OneOf(S) == IF S = {} THEN Nobody ELSE CHOOSE x \in S : TRUE

LayerUnder(p, first, second) ==
  IF OnLevel(p, first) # {} THEN OneOf(OnLevel(p, first)) ELSE OneOf(OnLevel(p, second))

\* LayerSurface::surface_under, here with the point on the output.
Hit(l, p) == l # Nobody /\ <<p[1] - On[l].x, p[2]>> \in Area[l]

\* Space::element_under
WindowUnder(p) ==
  LET at == {i \in 1 .. Len(stack) : p \in Extent[stack[i]]} IN
  IF at = {} THEN Nobody ELSE stack[CHOOSE i \in at : \A j \in at : j <= i]

Upper(p) == LayerUnder(p, "Overlay", "Top")
Lower(p) == LayerUnder(p, "Bottom", "Background")

\* surface_under
SurfaceUnder(p) ==
  IF ScreensAt(p) = {} THEN Nobody
  ELSE IF Hit(Upper(p), p) THEN Upper(p)
  ELSE IF WindowUnder(p) # Nobody THEN WindowUnder(p)
  ELSE IF Hit(Lower(p), p) THEN Lower(p)
  ELSE Nobody

\* clamp_coords: below no output, only the horizontal place is limited.
Between(n, least, most) == IF n < least THEN least ELSE IF n > most THEN most ELSE n

Width ==
  LET width[S \in SUBSET Screen] == IF S = {} THEN 0 ELSE OneOf(S).w + width[S \ {OneOf(S)}]
  IN  width[Screen]

ClampCoords(p) ==
  LET x == Between(p[1], 0, Width)
      above == ScreensAt(<<x, 0>>)
  IN  IF above = {} THEN <<x, p[2]>> ELSE <<x, Between(p[2], 0, OneOf(above).h)>>

-----------------------------------------------------------------------------
(* The keyboard *)

\* Space::unmap_elem and raise_element, for a window that is in the stack.
Without(w) == RemoveAt(stack, CHOOSE i \in DOMAIN stack : stack[i] = w)

Raised(w) == Append(Without(w), w)

\* Mutant: layers that take no keyboard are focused as well.
FocusAnyLayer(p) ==
  IF pressed > 0 \/ fingers > 0
    THEN UNCHANGED <<keyboard, stack>>
    ELSE \/ Hit(Upper(p), p) /\ keyboard' = Upper(p) /\ UNCHANGED stack
         \/ ~Hit(Upper(p), p) /\ UNCHANGED <<keyboard, stack>>

\* update_keyboard_focus: neither pointer nor touch may be grabbed.  Layers that
\* take no keyboard are looked through, and what was found is raised.
UpdateKeyboardFocus(p) ==
  IF pressed > 0 \/ fingers > 0
    THEN UNCHANGED <<keyboard, stack>>
    ELSE \/ /\ Upper(p) \in Focusable /\ Hit(Upper(p), p)
            /\ keyboard' = Upper(p)
            /\ UNCHANGED stack
         \/ /\ ~(Upper(p) \in Focusable /\ Hit(Upper(p), p))
            /\ WindowUnder(p) # Nobody
            /\ IF WindowUnder(p) \in Override
                 THEN UNCHANGED <<keyboard, stack>>
                 ELSE keyboard' = WindowUnder(p) /\ stack' = Raised(WindowUnder(p))
         \/ /\ ~(Upper(p) \in Focusable /\ Hit(Upper(p), p))
            /\ WindowUnder(p) = Nobody
            /\ keyboard' = IF Lower(p) \in Focusable /\ Hit(Lower(p), p) THEN Lower(p) ELSE keyboard
            /\ UNCHANGED stack

\* keyboard_key_to_action: a key goes to an exclusive layer above the windows (the
\* newest one, when there are several).
KeyToExclusive(l) ==
  /\ l \in layers \cap Exclusive
  /\ Level[l] \in {"Overlay", "Top"}
  /\ keyboard' = l
  /\ UNCHANGED <<stageVars, pointerVars, fingers, constraint, tabletVars, history>>

-----------------------------------------------------------------------------
(* Constraints *)

\* A constraint binds the pointer where it is active and the pointer inside.
Binds(w, kind) ==
  /\ w \in Window
  /\ constraint[w].kind = kind
  /\ constraint[w].active
  /\ location \in Region[w]

\* What becomes of the constraints when the pointer leaves a surface: that of
\* this surface is inactive, and gone if it was for one time.
Left(s) ==
  IF s \notin Window \/ ~constraint[s].active
    THEN {constraint}
    ELSE {[constraint EXCEPT ![s].active = FALSE], [constraint EXCEPT ![s] = NoConstraint]}

\* Motion to p with what has been looked up for it: a grab keeps the focus.
\* The constraints afterwards are one of Moved(s).
Moved(s) == IF pressed = 0 /\ s # focus THEN Left(focus) ELSE {constraint}

StillBound(s) == IF pressed = 0 /\ s # focus THEN bound \ {focus} ELSE bound

\* Mutant: what is passed with a button down is not remembered.
MoveToForgets(p, s) ==
  /\ location' = p
  /\ pending' = IF pressed = 0 THEN s ELSE pending
  /\ focus' = IF pressed = 0 THEN s ELSE focus

MoveTo(p, s) ==
  /\ location' = p
  /\ pending' = s
  /\ focus' = IF pressed = 0 THEN s ELSE focus

\* new_constraint: it is active at once if the surface has the pointer,
\* wherever that is.
NewConstraint(w, kind) ==
  /\ w \in ToSet(stack)
  /\ constraint[w].kind = "none"
  /\ constraint' = [constraint EXCEPT ![w] = [kind |-> kind, active |-> focus = w]]
  /\ bound' = IF focus = w /\ location \in Region[w] /\ SurfaceUnder(location) = w
                THEN bound \cup {w}
                ELSE bound
  /\ UNCHANGED <<stageVars, pointerVars, keyboard, fingers, tabletVars, rested>>

\* The client destroys its constraint.
RemoveConstraint(w) ==
  /\ constraint[w].kind # "none"
  /\ constraint' = [constraint EXCEPT ![w] = NoConstraint]
  /\ bound' = bound \ {w}
  /\ UNCHANGED <<stageVars, pointerVars, keyboard, fingers, tabletVars, rested>>

\* cursor_position_hint: the place in the surface is taken from the corner of the
\* window's geometry, not of its place in the space.
CursorPositionHint(w, p) ==
  /\ w \in ToSet(stack)
  /\ constraint[w].kind = "lock"
  /\ constraint[w].active
  /\ location' = p
  /\ rested' = FALSE
  /\ bound' = {}
  /\ UNCHANGED <<stageVars, focus, pending, pressed, keyboard, fingers, constraint, tabletVars>>

-----------------------------------------------------------------------------
(* The pointer *)

\* The constraint of s becomes active if it can be.
Activated(c, s, p) ==
  IF s \in Window /\ c[s].kind # "none" /\ p \in Region[s]
    THEN [c EXCEPT ![s].active = TRUE]
    ELSE c

\* Mutant: a confined pointer may leave the region inside of its surface.
MayMoveInSurface(under, p) == Binds(under, "confine") => SurfaceUnder(p) = under

\* What is left of a motion when the pointer is confined.
MayMove(under, p) ==
  Binds(under, "confine") => SurfaceUnder(p) = under /\ p \in Region[under]

\* on_pointer_move: the focus is that of where the pointer comes from, the
\* constraint that becomes active that of where it goes.
OnPointerMove(raw) ==
  LET under == SurfaceUnder(location)
      p == ClampCoords(raw)
      newUnder == SurfaceUnder(p)
  IN  /\ ~Binds(under, "lock")
      /\ MayMove(under, p)
      /\ MoveTo(p, under)
      /\ \E c \in Moved(under) :
           /\ constraint' = Activated(c, newUnder, p)
           /\ bound' = (IF constraint' # c THEN {newUnder} ELSE {}) \cup StillBound(under)
      /\ rested' = (newUnder = under)
      /\ UNCHANGED <<stageVars, pressed, keyboard, fingers, tabletVars>>

\* on_pointer_move_absolute, and that of winit: constraints are not looked at.
OnPointerMoveAbsolute(p) ==
  /\ MoveTo(p, SurfaceUnder(p))
  /\ constraint' \in Moved(SurfaceUnder(p))
  /\ rested' = TRUE
  /\ bound' = {}
  /\ UNCHANGED <<stageVars, pressed, keyboard, fingers, tabletVars>>

\* on_pointer_button: the keyboard follows before the click grabs the pointer.
Press ==
  /\ pressed < MaxButtons
  /\ UpdateKeyboardFocus(location)
  /\ pressed' = pressed + 1
  /\ rested' = (rested /\ stack' = stack)
  /\ bound' = IF stack' = stack THEN bound ELSE {}
  /\ UNCHANGED <<layers, location, focus, pending, fingers, constraint, tabletVars>>

\* The last release gives the pointer back to what it was over.
Release ==
  /\ pressed > 0
  /\ pressed' = pressed - 1
  /\ IF pressed = 1
       THEN /\ focus' = pending
            /\ constraint' \in (IF pending # focus THEN Left(focus) ELSE {constraint})
            /\ bound' = IF pending # focus THEN bound \ {focus} ELSE bound
       ELSE UNCHANGED <<focus, constraint, bound>>
  /\ UNCHANGED <<stageVars, location, pending, keyboard, fingers, tabletVars, rested>>

-----------------------------------------------------------------------------
(* Touch *)

\* on_touch_down
TouchDown(p) ==
  /\ fingers < MaxFingers
  /\ UpdateKeyboardFocus(p)
  /\ fingers' = fingers + 1
  /\ rested' = (rested /\ stack' = stack)
  /\ bound' = IF stack' = stack THEN bound ELSE {}
  /\ UNCHANGED <<layers, pointerVars, constraint, tabletVars>>

\* on_touch_up, and on_touch_cancel
TouchUp(left) ==
  /\ fingers > 0
  /\ left \in {fingers - 1, 0}
  /\ fingers' = left
  /\ UNCHANGED <<stageVars, pointerVars, keyboard, constraint, tabletVars, history>>

-----------------------------------------------------------------------------
(* Tablets *)

\* process_input_event: DeviceAdded, DeviceRemoved
TabletAdded(t) ==
  /\ t \notin tablets
  /\ tablets' = tablets \cup {t}
  /\ UNCHANGED <<stageVars, pointerVars, keyboard, fingers, constraint, tools, history>>

TabletRemoved(t) ==
  /\ t \in tablets
  /\ tablets' = tablets \ {t}
  /\ tools' = IF tablets' = {} THEN {} ELSE tools
  /\ UNCHANGED <<stageVars, pointerVars, keyboard, fingers, constraint, history>>

\* on_tablet_tool_proximity, in or out: the tool is known from then on and moves
\* the pointer, as in on_tablet_tool_axis, where it is known already.
OnTabletTool(tool, p) ==
  /\ tablets # {}
  /\ tools' = tools \cup {tool}
  /\ MoveTo(p, SurfaceUnder(p))
  /\ constraint' \in Moved(SurfaceUnder(p))
  /\ rested' = TRUE
  /\ bound' = {}
  /\ UNCHANGED <<stageVars, pressed, keyboard, fingers, tablets>>

\* on_tablet_tool_tip: the keyboard follows the pointer, which need not be
\* where the tool is.
OnTabletToolTip ==
  /\ tools # {}
  /\ UpdateKeyboardFocus(location)
  /\ rested' = (rested /\ stack' = stack)
  /\ bound' = IF stack' = stack THEN bound ELSE {}
  /\ UNCHANGED <<layers, pointerVars, fingers, constraint, tabletVars>>

-----------------------------------------------------------------------------
(* Clients.  A name is used again when nothing refers to its old surface. *)

Unreferenced(s) == s \notin {focus, pending, keyboard}

StageChanges == rested' = FALSE /\ bound' = {}

\* new_toplevel and map_window_request; an override redirect window is only
\* put on top.
OpenWindow(w) ==
  /\ w \notin ToSet(stack)
  /\ Unreferenced(w)
  /\ stack' = Append(stack, w)
  /\ keyboard' = IF w \in Override THEN keyboard ELSE w
  /\ StageChanges
  /\ UNCHANGED <<layers, pointerVars, fingers, constraint, tabletVars>>

\* Mutant: the window that gets the keyboard is looked up before the other is unmapped.
CloseWindowLate(w) ==
  /\ w \in ToSet(stack)
  /\ stack' = Without(w)
  /\ keyboard' = Last(stack)
  /\ constraint' = [constraint EXCEPT ![w] = NoConstraint]
  /\ rested' = FALSE
  /\ bound' = {}
  /\ UNCHANGED <<layers, pointerVars, fingers, tabletVars>>

\* toplevel_destroyed and unmapped_window: the top window gets the keyboard.
CloseWindow(w) ==
  /\ w \in ToSet(stack)
  /\ stack' = Without(w)
  /\ keyboard' = IF stack' = <<>> THEN keyboard ELSE Last(stack')
  /\ constraint' = [constraint EXCEPT ![w] = NoConstraint]
  /\ StageChanges
  /\ UNCHANGED <<layers, pointerVars, fingers, tabletVars>>

\* new_layer_surface and layer_destroyed: nobody's focus changes.
NewLayer(l) ==
  /\ l \notin layers
  /\ Unreferenced(l)
  /\ layers' = layers \cup {l}
  /\ StageChanges
  /\ UNCHANGED <<stack, pointerVars, keyboard, fingers, constraint, tabletVars>>

LayerDestroyed(l) ==
  /\ l \in layers
  /\ layers' = layers \ {l}
  /\ StageChanges
  /\ UNCHANGED <<stack, pointerVars, keyboard, fingers, constraint, tabletVars>>

-----------------------------------------------------------------------------
User ==
  \/ \E p \in Raw : OnPointerMove(p)
  \/ \E p \in Absolute : OnPointerMoveAbsolute(p)
  \/ Press
  \/ Release
  \/ \E l \in Layer : KeyToExclusive(l)
  \/ \E p \in Absolute : TouchDown(p)
  \/ \E left \in 0 .. MaxFingers : TouchUp(left)
  \/ \E t \in Tablet : TabletAdded(t) \/ TabletRemoved(t)
  \/ \E tool \in Tool, p \in Absolute : OnTabletTool(tool, p)
  \/ OnTabletToolTip

Clients ==
  \/ \E w \in Window :
       \/ OpenWindow(w)
       \/ CloseWindow(w)
       \/ \E kind \in {"lock", "confine"} : NewConstraint(w, kind)
       \/ RemoveConstraint(w)
       \/ \E p \in Hint[w] : CursorPositionHint(w, p)
  \/ \E l \in Layer : NewLayer(l) \/ LayerDestroyed(l)

SeatNext == User \/ Clients

SeatSpec == SeatInit /\ [][SeatNext]_seatVars

-----------------------------------------------------------------------------
(* Properties *)

\* A client that was told its constraint is active finds the pointer in the
\* region and over its surface for as long as only relative motion comes,
\* whatever is clicked, released, touched or asked for by others meanwhile.
BoundStays ==
  \A w \in bound :
    /\ constraint[w].active
    /\ location \in Region[w]
    /\ SurfaceUnder(location) = w

\* Where the pointer has come to rest, the surface under it has the pointer when
\* no button is down, although relative motion reports to where it comes from.
RestedIsFocused == rested /\ pressed = 0 => focus = SurfaceUnder(location)

\* What a press gives the keyboard to is what the pointer is over, found a second
\* time in another way; only layers that take no keyboard are looked through.
PressFocusesUnder ==
  [][pressed' = pressed + 1 /\ pressed = 0 /\ fingers = 0 /\ ScreensAt(location) # {} =>
       \/ keyboard' = SurfaceUnder(location)
       \/ keyboard' = keyboard /\ SurfaceUnder(location) \in Override \cup {Nobody}
       \/ SurfaceUnder(location) \in Layer \ Focusable]_seatVars

\* While there is a window to type into, the keyboard is on no closed one, however
\* windows open and close and are clicked.  X11's menus are no such windows.
KeyboardIsOpen ==
  keyboard \in Window => keyboard \in ToSet(stack) \/ ToSet(stack) \subseteq Override

\* What holds of the seat in every state: types, and a keyboard that is not lost.
SeatIsSound == SeatTypeOK /\ KeyboardIsOpen
=============================================================================
