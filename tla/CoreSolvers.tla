---------------------------- MODULE CoreSolvers ----------------------------
(***************************************************************************)
(* The core solvers that createCoreSolver can put at the bottom of the     *)
(* chain: STPSolver and MetaSMTSolver, which call the decision procedure   *)
(* directly or in a forked process that answers through shared memory,     *)
(* Z3Solver, and DummySolver, which always fails.                          *)
(*                                                                         *)
(* opts is the command line: core, forked (-use-forked-solver), ignore     *)
(* (-ignore-solver-failures), timeout (-max-solver-time), validateModels   *)
(* (-debug-z3-validate-models), and faults (whether forks fail and         *)
(* processes are killed).  Of the world w of the chain they use            *)
(*   vc       what is asserted in the decision procedure, by push level;   *)
(*   status   runStatusCode;                                               *)
(*   failed   whether a core solver has failed during this query.          *)
(***************************************************************************)
EXTENDS Queries

CONSTANTS ShmSize,      \* shared_memory_size
          Stale         \* a byte of shared memory that an earlier query left
VARIABLE opts

Success == {"SUCCESS_SOLVABLE", "SUCCESS_UNSOLVABLE"}
Status == Success \cup {"FAILURE", "TIMEOUT", "FORK_FAILED", "INTERRUPTED",
                        "UNEXPECTED_EXIT_CODE", "WAITPID_FAILED"}

\* The constructors.  MetaSMTSolverImpl leaves _runStatusCode uninitialized.
InitialStatus == IF opts.core = "metasmt" THEN Status ELSE {"FAILURE"}
InitialVc == <<{}>>

\* The decision procedure: the inputs that satisfy what is asserted and
\* refute the query.
Counterexamples(vc, e) ==
  {i \in Input : \A l \in DOMAIN vc : \A f \in vc[l] : i \in f.sat} \ e.sat
VcPush(vc) == Append(vc, {})
VcPop(vc) == Front(vc)
VcAssert(vc, fs) == [vc EXCEPT ![Len(vc)] = @ \cup fs]

\* What one run of the decision procedure comes to.
Ran(status, sol) == [status |-> status, sol |-> sol]
-----------------------------------------------------------------------------
(***************************************************************************)
(* The forked process.  The values of the objects are laid out in shared   *)
(* memory one behind the other; the process may be killed or may time out  *)
(* after any number of bytes.                                              *)
(***************************************************************************)
ShmAtFork == [p \in 0..ShmSize - 1 |-> Stale]
\* The cells of the objects in the order of the loops over them.
Layout(objects) ==
  LET seq == SetToSeq(objects)
  IN FlattenSeq([n \in DOMAIN seq |-> [k \in 1..Size(seq[n]) |-> <<seq[n], k - 1>>]])
\* *pos++ = ...; the first n of them.
Written(i, cells, n) ==
  [p \in DOMAIN ShmAtFork |->
     IF p < n THEN ContentOf[i][cells[p + 1][1]][cells[p + 1][2]] ELSE ShmAtFork[p]]
\* values.emplace_back(pos, pos + object->size)
ReadBack(shm, cells, objects) ==
  [arr \in objects |-> [k \in 0..Size(arr) - 1 |->
     shm[(CHOOSE p \in DOMAIN cells : cells[p] = <<arr, k>>) - 1]]]

\* A child that runs to its _exit: 0 and the values, or 1.
Finished(cexs, cells) ==
  IF cexs = {} THEN {[code |-> 1, shm |-> ShmAtFork]}
  ELSE {[code |-> 0, shm |-> Written(i, cells, Len(cells))] : i \in cexs}
\* A child that does not get there.
Unfinished(code, cexs, cells) ==
  {[code |-> code, shm |-> ShmAtFork]} \cup
    {[code |-> code, shm |-> Written(i, cells, n)] : i \in cexs, n \in DOMAIN cells}
\* WIFSIGNALED: not an exit code.
Signaled == 256
\* The timeout handler exits with 52; 2 is what vc_query returns on an error.
Child(cexs, cells) ==
  Finished(cexs, cells)
    \cup (IF opts.timeout THEN Unfinished(52, cexs, cells) ELSE {})
    \cup (IF opts.faults THEN Unfinished(Signaled, cexs, cells) ELSE {})
    \cup (IF opts.faults /\ opts.core = "stp" THEN Unfinished(2, {}, cells) ELSE {})

\* The parent, after waitpid.
Waited(c, cells, objects) ==
  CASE c.code = Signaled -> Ran("INTERRUPTED", None)
    [] c.code = 0 -> Ran("SUCCESS_SOLVABLE", ReadBack(c.shm, cells, objects))
    [] c.code = 1 -> Ran("SUCCESS_UNSOLVABLE", NoSolution)
    [] c.code = 52 -> Ran("TIMEOUT", None)
    [] OTHER -> Ran("UNEXPECTED_EXIT_CODE", None)

\* fork and waitpid may fail too.
RunForked(cexs, cells, objects) ==
  {Waited(c, cells, objects) : c \in Child(cexs, cells)}
    \cup (IF opts.faults THEN {Ran("FORK_FAILED", None), Ran("WAITPID_FAILED", None)} ELSE {})

RunDirect(cexs, objects) ==
  IF cexs = {} THEN {Ran("SUCCESS_UNSOLVABLE", NoSolution)}
  ELSE {Ran("SUCCESS_SOLVABLE", Bind(i, objects)) : i \in cexs}
-----------------------------------------------------------------------------
(***************************************************************************)
(* The solvers.                                                            *)
(***************************************************************************)
\* What computeInitialValues makes of a run.
Reported(w, r) ==
  LET after == [w EXCEPT !.status = r.status, !.failed = @ \/ r.status \notin Success]
  IN IF r.status \in Success THEN Done(r.sol, after) ELSE Failed(after)

\* STP: push, assert the constraints, run, pop.  Without
\* -ignore-solver-failures everything but a timeout ends the program.
StpInitialValues(w, q, objects) ==
  LET vc == VcAssert(VcPush(w.vc), Range(q.cs))
      cexs == Counterexamples(vc, q.e)
      cells == Layout(objects)
      popped == [w EXCEPT !.vc = VcPop(vc)]
  IN CASE ~opts.forked -> {Reported(popped, r) : r \in RunDirect(cexs, objects)}
       [] opts.forked /\ Len(cells) >= ShmSize -> {Exit(w)}
       [] OTHER -> {IF r.status \in Success \cup {"TIMEOUT"} \/ opts.ignore
                      THEN Reported(popped, r) ELSE Exit([w EXCEPT !.failed = TRUE])
                    : r \in RunForked(cexs, cells, objects)}

\* metaSMT: the constraints are assumptions of one call of solve, or are
\* asserted in the child only.  Behind the values the child leaves a counter.
MetaSmtInitialValues(w, q, objects) ==
  LET vc == VcAssert(VcPush(w.vc), Range(q.cs) \cup {Neg(q.e)})
      cexs == Counterexamples(vc, False)
      cells == Layout(objects)
  IN CASE ~opts.forked -> {Reported(w, r) : r \in RunDirect(cexs, objects)}
       [] opts.forked /\ Len(cells) + 1 >= ShmSize -> {Crash(w)}
       [] OTHER -> {Reported(w, r) : r \in RunForked(cexs, cells, objects)}

\* Z3: a new solver for every query; it may answer "unknown", for lack of
\* time or for another reason, of which only some are expected.
\* handleSolverResponse
Z3Response(w, cexs, objects) ==
  RunDirect(cexs, objects)
    \cup (IF opts.timeout THEN {Ran("TIMEOUT", None)} ELSE {})
    \cup (IF opts.faults THEN {Ran("FAILURE", None), Ran("ABORT", None)} ELSE {})
\* validateZ3Model: every assertion is true in the model.
ModelValid(vc, sol) == \A l \in DOMAIN vc : Satisfies(sol, vc[l])
Z3InitialValues(w, q, objects) ==
  LET vc == VcAssert(InitialVc, Range(q.cs) \cup {Neg(q.e)})
      full == Z3Response(w, Counterexamples(vc, False), Array)
      Invalid(r) == opts.validateModels /\ r.sol \notin {None, NoSolution}
                      /\ ~ModelValid(vc, r.sol)
      Wanted(r) == IF r.sol \in {None, NoSolution} THEN r ELSE [r EXCEPT !.sol = ValuesOf(@, objects)]
  IN {IF r.status = "ABORT" \/ Invalid(r) THEN Exit([w EXCEPT !.failed = TRUE])
      ELSE Reported(w, Wanted(r)) : r \in full}

\* DummySolver answers nothing.
DummyInitialValues(w) == {Failed([w EXCEPT !.status = "FAILURE", !.failed = TRUE])}

CoreInitialValues(w, q, objects) ==
  CASE opts.core = "stp" -> StpInitialValues(w, q, objects)
    [] opts.core = "metasmt" -> MetaSmtInitialValues(w, q, objects)
    [] opts.core = "z3" -> Z3InitialValues(w, q, objects)
    [] opts.core = "dummy" -> DummyInitialValues(w)

CoreTruth(w, q) ==
  Then(CoreInitialValues(w, q, {}), LAMBDA o : {Done(o.val = NoSolution, o.w)})

\* SolverImpl::computeValidity
CoreValidity(w, q) ==
  Then(CoreTruth(w, q), LAMBDA o :
    IF o.val THEN {Done("True", o.w)}
    ELSE Then(CoreTruth(o.w, NegateExpr(q)), LAMBDA n :
           {Done(IF n.val THEN "False" ELSE "Unknown", n.w)}))

CoreValue(w, q) ==
  Then(CoreInitialValues(w, WithFalse(q), ArraysOf(q.e)), LAMBDA o :
    IF o.val = NoSolution THEN {Crash(o.w)}
    ELSE {Done(Evaluate(o.val, q.e), o.w)})
=============================================================================
