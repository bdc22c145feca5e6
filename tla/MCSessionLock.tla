--------------------------- MODULE MCSessionLock ----------------------------
(***************************************************************************)
(* Windows and the session lock with few windows, applications, spaces,    *)
(* zones, clients that lock, and one output.                               *)
(***************************************************************************)
EXTENDS SessionLock, TLC

CONSTANT main

\* Windows and clients differ in nothing but their names.
WindowSymmetry == Permutations(Window) \cup Permutations(Locker)
=============================================================================
