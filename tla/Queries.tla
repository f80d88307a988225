------------------------------ MODULE Queries ------------------------------
(***************************************************************************)
(* What the solvers of the chain talk about: expressions, queries,         *)
(* assignments, and the outcomes of a call.                                *)
(*                                                                         *)
(* An expression is its truth set over the contents of the symbolic        *)
(* arrays, with the cells it reads at a constant index and the arrays it   *)
(* reads at a symbolic one.  A Query asks whether expr follows from the    *)
(* constraints.                                                            *)
(***************************************************************************)
EXTENDS Naturals, Sequences, FiniteSets, SequencesExt, TLC

CONSTANTS Array,        \* the symbolic arrays
          Size(_),      \* Array::size
          Bytes,        \* the values of a byte, 0 among them
          Input,        \* everything the symbolic arrays may hold, by name:
          Content(_),   \* the bytes of every array for an input
          NoSolution,   \* the null Assignment
          None          \* no value

Contents(a) == [0..Size(a) - 1 -> Bytes]
ContentOf == [i \in Input |-> Content(i)]
ASSUME InputAssumption ==
  {ContentOf[i] : i \in Input} = {c \in [Array -> UNION {Contents(a) : a \in Array}] :
                                     \A a \in Array : c[a] \in Contents(a)}

ArraysOf(e) == e.whole \cup {c[1] : c \in e.elems}
True == [sat |-> Input, elems |-> {}, whole |-> {}]
False == [sat |-> {}, elems |-> {}, whole |-> {}]
IsConstant(e) == e.elems = {} /\ e.whole = {}
\* Expr::createIsZero
Neg(e) == [e EXCEPT !.sat = Input \ @]

Query(cs, e) == [cs |-> cs, e |-> e]
WithFalse(q) == [q EXCEPT !.e = False]
NegateExpr(q) == [q EXCEPT !.e = Neg(@)]
Constraint(q) == {i \in Input : \A k \in DOMAIN q.cs : i \in q.cs[k].sat}
\* The counterexamples of a query.
Solutions(q) == Constraint(q) \ q.e.sat

\* The exact answers.
Valid(q) == Solutions(q) = {}
ExactValidity(q) ==
  IF Valid(q) THEN "True" ELSE IF Valid(NegateExpr(q)) THEN "False" ELSE "Unknown"
-----------------------------------------------------------------------------
(***************************************************************************)
(* Assignments bind some of the arrays; a byte that is not bound reads 0.  *)
(***************************************************************************)
Extend(a) == [arr \in Array |-> IF arr \in DOMAIN a THEN a[arr]
                                ELSE [k \in 0..Size(arr) - 1 |-> 0]]
Evaluate(a, e) == \E i \in e.sat : ContentOf[i] = Extend(a)
Satisfies(a, key) == \A e \in key : Evaluate(a, e)
Bind(i, objects) == [arr \in objects |-> ContentOf[i][arr]]
\* The values of the objects under an assignment.
ValuesOf(a, objects) == [arr \in objects |-> Extend(a)[arr]]
-----------------------------------------------------------------------------
(***************************************************************************)
(* Outcomes of a call: its result and the world w of the solvers after it. *)
(* "failed" is a call that returns false, "crash" an assert that fires,    *)
(* "exit" a solver that ends the program because it cannot go on.          *)
(***************************************************************************)
Done(v, w) == [st |-> "ok", val |-> v, w |-> w]
Failed(w) == [st |-> "failed", val |-> None, w |-> w]
Crash(w) == [st |-> "crash", val |-> None, w |-> w]
Exit(w) == [st |-> "exit", val |-> None, w |-> w]
\* if (!solver->impl->compute...(...)) return false;
Then(outcomes, F(_)) == UNION {IF o.st = "ok" THEN F(o) ELSE {o} : o \in outcomes}
=============================================================================
