------------------------------ MODULE MCMerging ------------------------------
(***************************************************************************)
(* A small instance of Merging for TLC.  All addresses, close points and   *)
(* inputs are interchangeable.                                             *)
(***************************************************************************)
EXTENDS Merging, FiniteSets, TLC

MergeSymmetry == Permutations(State \ {InitialState}) \cup Permutations(Handler)
                   \cup Permutations(Point) \cup Permutations(Input)

\* Bounds: with a memory cap three states are enough for the killed state
\* to be the current one, a waiting one or neither.
WithinBounds == memoryCap => Cardinality(Live) < 4

BoundedSpec == Init /\ [][Next /\ WithinBounds']_vars
=============================================================================
