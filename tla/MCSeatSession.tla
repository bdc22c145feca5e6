--------------------------- MODULE MCSeatSession ----------------------------
(***************************************************************************)
(* A modifier, a lock key and two keys, each with a symbol of its own but  *)
(* for one that the modifier changes, on two keyboards, and a GPU.         *)
(***************************************************************************)
EXTENDS SeatSession, TLC

CONSTANTS shift, caps, a, ShiftSym, CapsSym, lowerA, upperA

MCSym ==
  [k \in Key |-> [down_ \in SUBSET ModKey |->
    CASE k = shift -> ShiftSym
      [] k = caps -> CapsSym
      [] k = a -> IF shift \in down_ THEN upperA ELSE lowerA]]

MCSlots == {<<{shift}, upperA>>, <<{}, lowerA>>}

\* Keyboards differ in nothing but their names.
BoardSymmetry == Permutations(Board)
=============================================================================
