--------------------------- MODULE MCObjectStates ---------------------------
(***************************************************************************)
(* Objects of two bytes of three values, on a path with two inputs.        *)
(***************************************************************************)
EXTENDS ObjectStates, TLC

InputSymmetry == Permutations(Input)
=============================================================================
