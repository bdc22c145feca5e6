----------------------------- MODULE MCDesktop ------------------------------
(***************************************************************************)
(* Desktop with one window and one application: a configuration that sets  *)
(* zones, a rule and a key, its successor with another zone and a start of *)
(* a program, one that fails half-way, and a key that moves a window, asks *)
(* for the program and adds a space.                                       *)
(***************************************************************************)
EXTENDS Desktop, TLC

CONSTANTS term, left, mid, main, side, key

SetZonesCall(Z, d) == [call |-> "set_zones", zones |-> Z, default |-> d]
Rule(z) == [call |-> "add_window_rule", app |-> term, zone |-> z]
Map == [call |-> "map_key", callback |-> key]

First == <<SetZonesCall({left}, left), Rule(left), Map>>
Second == <<SetZonesCall({left, mid}, NoZone), [call |-> "spawn", app |-> term]>>

\* A file that is being written may be found empty.
MCChunks == {[calls |-> <<>>, fails |-> FALSE],
             [calls |-> First, fails |-> FALSE], [calls |-> Second, fails |-> FALSE],
             [calls |-> SubSeq(First, 1, 1), fails |-> TRUE]}

MCBody ==
  [c \in {key} |-> <<[call |-> "move_current_window_to_zone", zone |-> left],
                    [call |-> "focus_or_spawn", app |-> term],
                    [call |-> "set_layout", spaces |-> {side}]>>]
=============================================================================
