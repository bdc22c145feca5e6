----------------------------- MODULE LockHolder -----------------------------
(***************************************************************************)
(* What a session lock promises: one client holds it, no other takes it    *)
(* while that one is alive, and it ends only because its holder asks.      *)
(* SessionLock.tla implements this specification.                          *)
(***************************************************************************)
CONSTANTS Client, NoClient

VARIABLES holder, alive

Init == holder = NoClient /\ alive = Client

Take(c) ==
  /\ c \in alive
  /\ holder \notin alive
  /\ holder' = c
  /\ UNCHANGED alive

Release ==
  /\ holder \in alive
  /\ holder' = NoClient
  /\ UNCHANGED alive

Die(c) ==
  /\ c \in alive
  /\ alive' = alive \ {c}
  /\ UNCHANGED holder

Next == Release \/ \E c \in Client : Take(c) \/ Die(c)

Spec == Init /\ [][Next]_<<holder, alive>>
=============================================================================
