----------------------------- MODULE MCDevices -----------------------------
(***************************************************************************)
(* A card with two crtcs for two displays and a headset, and a second one  *)
(* with one display; each renders by itself.                               *)
(***************************************************************************)
EXTENDS Devices, TLC

CONSTANTS card0, card1, render0, render1, left, right, headset, other, crtc0, crtc1

MCHome == [c \in Connectors |-> IF c = other THEN card1 ELSE card0]
MCNonDesktop == {headset}
MCRenderNode == [d \in Devices |-> IF d = card0 THEN render0 ELSE render1]
Symmetric == Permutations({left, right}) \cup Permutations({crtc0, crtc1})
=============================================================================
