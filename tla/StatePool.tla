------------------------------ MODULE StatePool ------------------------------
(***************************************************************************)
(* What the rest of KLEE may assume of the process tree: a pool of the     *)
(* execution states that are alive.  A fork adds a state that was not in   *)
(* the pool, a deletion takes one out, and a selection returns a member.   *)
(* PTree (the tree of PTree.cpp) implements this specification, and        *)
(* Executor (the main loop) only calls the tree in ways it allows.         *)
(***************************************************************************)
CONSTANTS State, InitialState

VARIABLES live,      \* the states that have been created and not deleted
          selected   \* the result of the last selection

Init == /\ live = {InitialState}
        /\ selected = InitialState

\* The states of S are created and those of D are deleted.  A fork creates
\* one, and may delete it in the same step (max-depth, only-replay-seeds);
\* updateStates deletes several.
Change(S, D) == /\ live # {}
                /\ S \subseteq State \ live
                /\ D \subseteq live \cup S
                /\ live' = (live \cup S) \ D
                /\ UNCHANGED selected

Select == /\ selected' \in live
          /\ UNCHANGED live

Next == (\E S, D \in SUBSET State : Change(S, D)) \/ Select

Spec == Init /\ [][Next]_<<live, selected>>
=============================================================================
