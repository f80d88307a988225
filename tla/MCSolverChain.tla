--------------------------- MODULE MCSolverChain ---------------------------
(***************************************************************************)
(* Two symbolic arrays: a of two bytes, b of one.  The expressions read    *)
(* a[0], a[1] and a[b[0]], so that two factors can share an array and a    *)
(* symbolic index can tie all cells together.                              *)
(***************************************************************************)
EXTENDS SolverChain

SizeOf(arr) == IF arr = "a" THEN 2 ELSE 1
\* An input is the number with the bits a[0], a[1], b[0].
ContentFor(i) == ("a" :> (0 :> i % 2 @@ 1 :> (i \div 2) % 2)) @@ ("b" :> (0 :> i \div 4))
At(i, arr, k) == ContentOf[i][arr][k]
A0 == [sat |-> {i \in Input : At(i, "a", 0) = 1}, elems |-> {<<"a", 0>>}, whole |-> {}]
A1 == [sat |-> {i \in Input : At(i, "a", 1) = 1}, elems |-> {<<"a", 1>>}, whole |-> {}]
AB == [sat |-> {i \in Input : At(i, "a", At(i, "b", 0)) = 1}, elems |-> {<<"b", 0>>}, whole |-> {"a"}]
B0 == [sat |-> {i \in Input : At(i, "b", 0) = 1}, elems |-> {<<"b", 0>>}, whole |-> {}]

\* Two bits, a[1] above a[0], and what getRange asks about them.
Word == [val |-> [i \in Input |-> 2 * At(i, "a", 1) + At(i, "a", 0)], width |-> 2,
         elems |-> {<<"a", 0>>, <<"a", 1>>}, whole |-> {}]
Bit == [val |-> [i \in Input |-> At(i, "b", 0)], width |-> 1, elems |-> {<<"b", 0>>}, whole |-> {}]
TermSet == {Word, Bit}

\* The last condition is one of the questions of getRange.
PathSet == {<<>>, <<A1>>, <<B0, AB>>, <<Neg(A0), AB>>}
ConditionSet == {A0, B0, Neg(Ule(Word, 1))}

Atoms == <<A0, A1, AB, B0, Ule(Word, 0), Ule(Word, 1), Ule(Word, 2)>>
OrderSeq == FlattenSeq([k \in DOMAIN Atoms |-> <<Atoms[k], Neg(Atoms[k])>>])

\* No solver but the core, which is STP in a process of its own that may
\* time out.
AllOff == [validate |-> FALSE, independent |-> FALSE, branch |-> FALSE, cex |-> FALSE,
           fast |-> FALSE, assignment |-> FALSE, superset |-> FALSE, tryAll |-> FALSE,
           checkBinding |-> FALSE, experimental |-> FALSE, simplify |-> FALSE,
           core |-> "stp", forked |-> TRUE, ignore |-> FALSE, timeout |-> TRUE,
           faults |-> FALSE, validateModels |-> FALSE,
           log |-> FALSE, threshold |-> FALSE, dumpEarly |-> FALSE, logTimedOut |-> TRUE,
           queries |-> 2, ranges |-> TRUE]
\* The chain that runs by default.
Default == [AllOff EXCEPT !.independent = TRUE, !.branch = TRUE, !.cex = TRUE, !.simplify = TRUE]
ChainSet ==
  {[AllOff EXCEPT !.faults = TRUE, !.ignore = TRUE, !.queries = 1],
   [AllOff EXCEPT !.core = "z3", !.faults = TRUE, !.log = TRUE, !.queries = 1],
   [AllOff EXCEPT !.core = "metasmt", !.faults = TRUE, !.log = TRUE, !.threshold = TRUE,
                  !.queries = 1],
   [AllOff EXCEPT !.core = "dummy", !.fast = TRUE, !.log = TRUE, !.queries = 1],
   [Default EXCEPT !.core = "z3", !.validateModels = TRUE, !.log = TRUE, !.dumpEarly = TRUE],
   [Default EXCEPT !.ranges = FALSE, !.superset = TRUE, !.checkBinding = TRUE, !.simplify = FALSE],
   [Default EXCEPT !.forked = FALSE, !.independent = FALSE, !.tryAll = TRUE,
                   !.simplify = FALSE],
   [AllOff EXCEPT !.core = "z3", !.cex = TRUE, !.tryAll = TRUE, !.superset = TRUE,
                  !.timeout = FALSE, !.ranges = FALSE],
   [AllOff EXCEPT !.core = "z3", !.branch = TRUE, !.fast = TRUE, !.independent = TRUE,
                  !.validate = TRUE],
   [Default EXCEPT !.fast = TRUE, !.assignment = TRUE, !.timeout = FALSE, !.forked = FALSE,
                   !.validate = TRUE],
   [AllOff EXCEPT !.cex = TRUE, !.assignment = TRUE, !.faults = TRUE, !.queries = 1],
   [AllOff EXCEPT !.core = "z3", !.cex = TRUE, !.experimental = TRUE, !.independent = TRUE,
                  !.timeout = FALSE]}
=============================================================================
