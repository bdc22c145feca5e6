------------------------------- MODULE MCSeat -------------------------------
(***************************************************************************)
(* Seat with two outputs, of which the right one is narrow and high, a     *)
(* window and the menu of an X11 client that overlap, a bar above them and *)
(* a background below, which takes no keyboard.                            *)
(***************************************************************************)
EXTENDS Seat

CONSTANTS a, menu, bar, ground, tool, tablet

Left2 == [x |-> 0, w |-> 2, h |-> 1]
Right2 == [x |-> 2, w |-> 1, h |-> 2]
Screens == {Left2, Right2}

Extents == [w \in Window |-> IF w = a THEN {<<0, 0>>, <<1, 0>>} ELSE {<<1, 0>>, <<2, 0>>}]
Regions == [w \in Window |-> IF w = a THEN {<<0, 0>>} ELSE Extents[w]]
Hints == [w \in Window |-> {<<0, 0>>}]

Outputs == [l \in Layer |-> Left2]
Heights == [l \in Layer |-> IF l = bar THEN "Top" ELSE "Background"]
Areas == [l \in Layer |-> IF l = bar THEN {<<0, 0>>} ELSE {<<0, 0>>, <<1, 0>>}]

RawPoints == {<<0, 0>>, <<1, 0>>, <<2, 3>>, <<3, 0>>}
AbsolutePoints == {<<0, 0>>, <<1, 0>>, <<2, 1>>}
=============================================================================
