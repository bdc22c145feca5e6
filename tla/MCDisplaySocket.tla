--------------------------- MODULE MCDisplaySocket ---------------------------
(* Two clients at the socket of the display. *)
EXTENDS DisplaySocket
=============================================================================
