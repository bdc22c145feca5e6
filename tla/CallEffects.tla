---------------------------- MODULE CallEffects -----------------------------
(***************************************************************************)
(* What a sequence of calls of the Lua module comes to: the settings of    *)
(* the display after them, and the programs that they ask for.             *)
(***************************************************************************)
EXTENDS Naturals, Sequences, FiniteSets

CONSTANTS App, NoZone

\* Settings are the zones, the default zone and the zone of each rule.
Nothing == [zones |-> {}, default |-> NoZone, rules |-> [a \in App |-> NoZone]]

Effect(st, c) ==
  IF c.call = "set_zones"
    THEN [zones |-> c.zones, default |-> IF c.default = NoZone THEN st.default ELSE c.default, rules |-> st.rules]
  ELSE IF c.call = "add_window_rule"
    THEN [st EXCEPT !.rules = [@ EXCEPT ![c.app] = c.zone]]
  ELSE st

After(st, calls) ==
  LET after[i \in 0 .. Len(calls)] == IF i = 0 THEN st ELSE Effect(after[i - 1], calls[i])
  IN  after[Len(calls)]

\* The requests for each application.
Requests(calls) ==
  [a \in App |-> Cardinality({i \in 1 .. Len(calls) :
                               calls[i].call \in {"spawn", "focus_or_spawn"} /\ calls[i].app = a})]
=============================================================================
