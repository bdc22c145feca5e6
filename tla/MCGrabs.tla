------------------------------ MODULE MCGrabs -------------------------------
(***************************************************************************)
(* Grabs with one window that is an xdg toplevel or an X11 window.         *)
(***************************************************************************)
EXTENDS Grabs

CONSTANTS win

Edges == {"Left", "Right"}
=============================================================================
