------------------------------ MODULE Windows -------------------------------
(***************************************************************************)
(* Windows in the spaces of the display (scape-display/src): where         *)
(* composition.rs places them, what xdg_shell.rs does when they come, are  *)
(* renamed and go, who has the keyboard, and the zones and rules that the  *)
(* configuration sets.                                                     *)
(*                                                                         *)
(* A space keeps its windows as a sequence, the last one on top.  Nearly   *)
(* all code takes "the first space", the one a HashMap yields first, which *)
(* may be another one once a space was added.                              *)
(***************************************************************************)
EXTENDS Naturals, SequencesExt

CONSTANTS
  Window,     \* xdg toplevels, each opened once
  App,        \* application ids
  NoApp,      \* the id of a window that has not set one
  Space,      \* names of spaces
  Main,       \* the space that always exists
  Zone,       \* names of zones
  NoZone,
  NoWindow    \* the keyboard has no window

ASSUME WindowsAssumption ==
  /\ Main \in Space
  /\ NoApp \notin App
  /\ NoZone \notin Zone
  /\ NoWindow \notin Window
  /\ IsFiniteSet(Window)

VARIABLES
  spaces,       \* the keys of State.spaces
  first,        \* the one that comes first
  stack,        \* the windows of each space from the bottom to the top
  life,         \* whether a window is new, open or closed
  appId,        \* its application id
  focus,        \* the window that has the keyboard
  zones,        \* State.zones, default_zone and window_rules
  defaultZone,
  rules,
  panicked      \* a lookup failed and ended the display thread

zoneVars == <<zones, defaultZone, rules>>
vars == <<spaces, first, stack, life, appId, focus, zoneVars, panicked>>

TypeOK ==
  /\ spaces \subseteq Space
  /\ first \in spaces
  /\ stack \in [Space -> Seq(Window)]
  /\ \A s \in Space : Len(stack[s]) <= Cardinality(Window)
  /\ life \in [Window -> {"new", "open", "closed"}]
  /\ appId \in [Window -> App \cup {NoApp}]
  /\ focus \in Window \cup {NoWindow}
  /\ zones \subseteq Zone
  /\ defaultZone \in Zone \cup {NoZone}
  /\ rules \in [App -> Zone \cup {NoZone}]
  /\ panicked \in BOOLEAN

Init ==
  /\ spaces = {Main}
  /\ first = Main
  /\ stack = [s \in Space |-> <<>>]
  /\ life = [w \in Window |-> "new"]
  /\ appId = [w \in Window |-> NoApp]
  /\ focus = NoWindow
  /\ zones = {}
  /\ defaultZone = NoZone
  /\ rules = [a \in App |-> NoZone]
  /\ panicked = FALSE

-----------------------------------------------------------------------------
(* A stack of windows *)

Windows(st) == {st[i] : i \in DOMAIN st}

Top(st) == st[Len(st)]

\* Space::unmap_elem: the element at its position goes.
Without(st, w) ==
  IF w \in Windows(st) THEN RemoveAt(st, Min({i \in DOMAIN st : st[i] = w})) ELSE st

\* Space::map_element and raise_element: both put the window on top.
Raised(st, w) == Append(Without(st, w), w)

-----------------------------------------------------------------------------
(* Placing *)

\* The zone that place_window looks up for a window with this application id:
\* the one asked for, that of its rule, or the default; none is needed without.
ZoneFor(a, asked) ==
  IF asked # NoZone THEN asked
  ELSE IF a \in App /\ rules[a] # NoZone THEN rules[a]
  ELSE defaultZone

\* place_window and then the focus: a zone that does not exist is a panic.
Place(s, w, a, asked, newFocus) ==
  IF ZoneFor(a, asked) \in zones \cup {NoZone}
    THEN /\ stack' = [stack EXCEPT ![s] = Raised(@, w)]
         /\ focus' = newFocus
         /\ UNCHANGED panicked
    ELSE panicked' = TRUE /\ UNCHANGED <<stack, focus>>

\* new_toplevel
NewToplevel(w) ==
  /\ life[w] = "new"
  /\ life' = [life EXCEPT ![w] = "open"]
  /\ Place(first, w, NoApp, NoZone, w)
  /\ UNCHANGED <<spaces, first, appId, zoneVars>>

\* app_id_changed: the window is placed again where the first space has it.
AppIdChanged(w, a) ==
  /\ life[w] = "open"
  /\ a # appId[w]
  /\ appId' = [appId EXCEPT ![w] = a]
  /\ IF w \in Windows(stack[first])
       THEN Place(first, w, a, NoZone, focus)
       ELSE UNCHANGED <<stack, focus, panicked>>
  /\ UNCHANGED <<spaces, first, life, zoneVars>>

\* MoveCurrentWindowToZone: the window with the keyboard, in whatever space.
MoveCurrentWindowToZone(z) ==
  /\ focus # NoWindow
  /\ Place(first, focus, appId[focus], z, focus)
  /\ UNCHANGED <<spaces, first, life, appId, zoneVars>>

\* A commit that moves the surface, a move by the pointer and maximize_request
\* map the window again, which puts it on top without the keyboard.
MapAgain(w) ==
  /\ w \in Windows(stack[first])
  /\ stack' = [stack EXCEPT ![first] = Raised(@, w)]
  /\ UNCHANGED <<spaces, first, life, appId, focus, zoneVars, panicked>>

-----------------------------------------------------------------------------
(* Closing *)

\* Mutant: the top window is unmapped, not the one that is gone.
DestroyTop(w) ==
  /\ life[w] = "open"
  /\ life' = [life EXCEPT ![w] = "closed"]
  /\ IF w \in Windows(stack[first])
       THEN stack' = [stack EXCEPT ![first] = Without(@, Top(@))]
       ELSE UNCHANGED stack
  /\ UNCHANGED <<spaces, first, appId, focus, zoneVars, panicked>>

\* toplevel_destroyed: when the first space has the window, the next one there
\* is raised and gets the keyboard.
ToplevelDestroyed(w) ==
  /\ life[w] = "open"
  /\ life' = [life EXCEPT ![w] = "closed"]
  /\ IF w \in Windows(stack[first])
       THEN LET rest == Without(stack[first], w) IN
            /\ stack' = [stack EXCEPT ![first] = rest]
            /\ focus' = IF rest = <<>> THEN focus ELSE Top(rest)
       ELSE UNCHANGED <<stack, focus>>
  /\ UNCHANGED <<spaces, first, appId, zoneVars, panicked>>

\* Space::refresh: the open windows stay, in their order.
Kept(st) ==
  {t \in SetToSeqs({w \in Windows(st) : life[w] = "open"}) :
     \A i, j \in DOMAIN t : i < j => \E k, l \in DOMAIN st : k < l /\ st[k] = t[i] /\ st[l] = t[j]}

\* The end of a dispatch refreshes each space.
Refresh ==
  /\ \E s \in spaces : \E w \in Windows(stack[s]) : life[w] # "open"
  /\ stack' \in {st \in [Space -> UNION {Kept(stack[s]) : s \in Space}] : \A s \in Space : st[s] \in Kept(stack[s])}
  /\ UNCHANGED <<spaces, first, life, appId, focus, zoneVars, panicked>>

-----------------------------------------------------------------------------
(* Focus *)

\* focus_window
FocusWindow(s, w) ==
  /\ w \in Windows(stack[s])
  /\ stack' = [stack EXCEPT ![s] = Raised(@, w)]
  /\ focus' = w
  /\ UNCHANGED <<spaces, first, life, appId, zoneVars, panicked>>

\* update_keyboard_focus, where a click finds a window of the first space.
UpdateKeyboardFocus(w) == FocusWindow(first, w)

\* request_activation: the space is the one that was first when the surface was
\* made, which need not be the one it is in; then nothing happens.
RequestActivation(s, w) == FocusWindow(s, w)

WindowsOf(st, a) == {i \in DOMAIN st : appId[st[i]] = a}

\* Mutant: always the topmost window of the application behind the top one.
NextBelow(st, a) ==
  LET mine == WindowsOf(st, a) IN
  IF mine \ {Len(st)} # {} THEN st[Max(mine \ {Len(st)})] ELSE st[Max(mine)]

\* The loop of focus_window_by_app_id from the top: the first window of the
\* application, but the last one when the first is already on top.
Chosen(st, a) ==
  LET mine == WindowsOf(st, a) IN
  IF Len(st) \in mine THEN st[Min(mine)] ELSE st[Max(mine)]

\* FocusOrSpawn, when there is something to focus.
FocusWindowByAppId(a) ==
  /\ WindowsOf(stack[first], a) # {}
  /\ FocusWindow(first, Chosen(stack[first], a))

-----------------------------------------------------------------------------
(* Configuration *)

\* set_layout adds spaces; which one comes first then is up to the HashMap.
AddSpaces(S) ==
  /\ S \ spaces # {}
  /\ spaces' = spaces \cup S
  /\ first' \in spaces'
  /\ UNCHANGED <<stack, life, appId, focus, zoneVars, panicked>>

\* set_zones: d is the last zone marked as default.
SetZones(Z, d) ==
  /\ zones' = Z
  /\ defaultZone' = IF d = NoZone THEN defaultZone ELSE d
  /\ UNCHANGED <<spaces, first, stack, life, appId, focus, rules, panicked>>

AddWindowRule(a, z) ==
  /\ rules' = [rules EXCEPT ![a] = z]
  /\ UNCHANGED <<spaces, first, stack, life, appId, focus, zones, defaultZone, panicked>>

-----------------------------------------------------------------------------
Client ==
  \E w \in Window :
    \/ NewToplevel(w)
    \/ \E a \in App : AppIdChanged(w, a)
    \/ MapAgain(w)
    \/ ToplevelDestroyed(w)

User ==
  \/ \E z \in Zone : MoveCurrentWindowToZone(z)
  \/ \E w \in Window : UpdateKeyboardFocus(w)
  \/ \E s \in spaces, w \in Window : RequestActivation(s, w)
  \/ \E a \in App : FocusWindowByAppId(a)

Config ==
  \/ \E S \in SUBSET Space : AddSpaces(S)
  \/ \E Z \in SUBSET Zone : \E d \in Z \cup {NoZone} : SetZones(Z, d)
  \/ \E a \in App, z \in Zone : AddWindowRule(a, z)

Next == ~panicked /\ (Client \/ User \/ Config \/ Refresh)

Spec == Init /\ [][Next]_vars

-----------------------------------------------------------------------------
(* Properties *)

\* No window is lost: an open window is in a space, whichever space was the
\* first when it came, was renamed, was moved or its neighbours went.
NoWindowIsLost ==
  \A w \in Window :
    life[w] = "open" /\ ~panicked => \E s \in spaces : w \in Windows(stack[s])

\* A space has a window once.
NoDuplicates ==
  \A s \in Space : \A i, j \in DOMAIN stack[s] : stack[s][i] = stack[s][j] => i = j

\* The stacks that follow when focus_window_by_app_id is called again and again.
Rounds(st, a) ==
  LET turn[n \in Nat] == IF n = 0 THEN st ELSE Raised(turn[n - 1], Chosen(turn[n - 1], a))
  IN  turn

\* Pressing the key for an application as often as it has windows goes through
\* all of them, whatever else is in the stack.
FocusGoesRound ==
  \A a \in App :
    LET st == stack[first]
        mine == {st[i] : i \in WindowsOf(st, a)}
        rounds == Rounds(st, a)
    IN  mine # {} => {Top(rounds[n]) : n \in 1 .. Cardinality(mine)} = mine
=============================================================================
