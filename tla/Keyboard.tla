------------------------------ MODULE Keyboard ------------------------------
(***************************************************************************)
(* The keyboard of the input thread (scape-input/src/keyboard.rs): which   *)
(* key events run a shortcut, which are swallowed and which are forwarded  *)
(* to the display thread, while modifiers change the symbol of a key       *)
(* between its press and its release and the configuration maps new keys.  *)
(*                                                                         *)
(* One keyboard, so a key is pressed only when it is up.  A modifier is    *)
(* in effect while its key is held; locks and latches are left out.        *)
(***************************************************************************)
CONSTANTS
  Key,       \* key codes
  ModKey,    \* the keys that are modifiers (ctrl, alt, shift, logo)
  Keysym,    \* key symbols
  Sym,       \* the xkb keymap: the symbol of a key under the held modifiers
  Slots      \* the (modifiers, symbol) pairs the configuration may map

ASSUME KeyboardAssumption ==
  /\ ModKey \subseteq Key
  /\ Sym \in [Key -> [SUBSET ModKey -> Keysym]]
  /\ Slots \subseteq (SUBSET ModKey) \X Keysym

VARIABLES
  pressed,      \* KeyboardState.pressed_keys
  keymaps,      \* the mapped pairs: where InputState.keymaps has a callback
  suppressed,   \* InputState.suppressed_keys
  down          \* the keys that are down for the display, as it was told

vars == <<pressed, keymaps, suppressed, down>>

TypeOK ==
  /\ pressed \subseteq Key
  /\ keymaps \subseteq Slots
  /\ suppressed \subseteq Keysym
  /\ down \subseteq Key

Init ==
  /\ pressed = {}
  /\ keymaps = {}
  /\ suppressed = {}
  /\ down = {}

\* The symbol of a key once the event has updated the modifiers.
SymOf(k, held) == Sym[k][held \cap ModKey]

\* keyboard_shortcut: does the table have a callback?
Shortcut(k, held) == <<held \cap ModKey, SymOf(k, held)>> \in keymaps

\* The callback is sent to the config thread, the symbol is suppressed.
RunShortcut(k, held) ==
  /\ Shortcut(k, held)
  /\ suppressed' = suppressed \cup {SymOf(k, held)}
  /\ UNCHANGED down

\* Mutant: any suppressed symbol swallows the release of any key.
SwallowAny(k, held) ==
  /\ ~Shortcut(k, held)
  /\ suppressed # {}
  /\ suppressed' = {}
  /\ UNCHANGED down

\* The release of a suppressed symbol.
Swallow(k, held) ==
  /\ ~Shortcut(k, held)
  /\ SymOf(k, held) \in suppressed
  /\ suppressed' = suppressed \ {SymOf(k, held)}
  /\ UNCHANGED down

\* DisplayMessage::KeyboardInput; the display then holds these keys down.
Forward(holding) ==
  /\ down' = holding
  /\ UNCHANGED suppressed

\* handle_keyboard_event for a press ...
Press(k) ==
  LET held == pressed \cup {k} IN
    /\ k \notin pressed
    /\ pressed' = held
    /\ \/ RunShortcut(k, held)
       \/ ~Shortcut(k, held) /\ Forward(down \cup {k})
    /\ UNCHANGED keymaps

\* ... and for a release.
Release(k) ==
  LET held == pressed \ {k} IN
    /\ k \in pressed
    /\ pressed' = held
    /\ \/ RunShortcut(k, held)
       \/ Swallow(k, held)
       \/ /\ ~Shortcut(k, held)
          /\ SymOf(k, held) \notin suppressed
          /\ Forward(down \ {k})
    /\ UNCHANGED keymaps

\* InputState::keymap: the configuration maps a pair, maybe again.
Keymap(slot) ==
  /\ keymaps' = keymaps \cup {slot}
  /\ UNCHANGED <<pressed, suppressed, down>>

Next ==
  \/ \E k \in Key : Press(k) \/ Release(k)
  \/ \E slot \in Slots : Keymap(slot)

Spec == Init /\ [][Next]_vars

-----------------------------------------------------------------------------
(* Properties *)

\* A key that can produce none of the mapped symbols is left alone, whatever
\* shortcuts are pressed around it: the display's idea of it is the truth.
Unmapped(k) == \A held \in SUBSET ModKey : \A slot \in keymaps : slot[2] # Sym[k][held]

PlainKeysAreFaithful == \A k \in Key : Unmapped(k) => (k \in down <=> k \in pressed)
=============================================================================
