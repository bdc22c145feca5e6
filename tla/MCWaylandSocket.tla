--------------------------- MODULE MCWaylandSocket ---------------------------
(* Two clients of two servers that follow each other. *)
EXTENDS WaylandSocket, TLC
=============================================================================
