----------------------------- MODULE MCOutputs ------------------------------
(***************************************************************************)
(* Outputs with two names and two spaces.                                  *)
(***************************************************************************)
EXTENDS Outputs, TLC

CONSTANTS left, right, main, side

\* A configuration that changes its mind: an output for each space, one of them moved
\* while the other is off, a part, and both in one space when the other is not told.
SwitchingLayouts == {
  (main :> {left}) @@ (side :> {right}),
  (main :> {}) @@ (side :> {left}),
  main :> {left},
  side :> {left, right}}
=============================================================================
