----------------------------- MODULE MCCaptures ------------------------------
(* Two outputs of devices with and without a render node, and one list of    *)
(* copies.                                                                   *)
EXTENDS Captures

CONSTANTS gpu, card, frame

MCCrtc == {gpu, card}
MCCardOnly == {card}
=============================================================================
