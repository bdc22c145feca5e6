------------------------------- MODULE Calls --------------------------------
(***************************************************************************)
(* What the functions of the Lua module promise to a configuration: the    *)
(* calls of a chunk or a callback take effect together and in their order, *)
(* the settings are those of the calls made last, and every request for a  *)
(* program is answered once, by a window that gets the keyboard or by a    *)
(* program that is started.                                                *)
(***************************************************************************)
EXTENDS CallEffects

CONSTANTS
  Starts,     \* the sequences of calls that the first run of the file makes
  Scripts     \* those that any later run makes

VARIABLES
  settings,   \* zones, default zone and window rules
  owed,       \* for each application the requests that were not answered yet
  turn        \* changes whenever Lua code runs

Init ==
  /\ \E calls \in Starts : settings = After(Nothing, calls) /\ owed = Requests(calls)
  /\ turn = FALSE

Run ==
  \E calls \in Scripts :
    /\ settings' = After(settings, calls)
    /\ owed' = [a \in App |-> owed[a] + Requests(calls)[a]]
    /\ turn' = ~turn

Answer ==
  \E a \in App :
    /\ owed[a] > 0
    /\ owed' = [owed EXCEPT ![a] = @ - 1]
    /\ UNCHANGED <<settings, turn>>

Spec == Init /\ [][Run \/ Answer]_<<settings, owed, turn>>
=============================================================================
