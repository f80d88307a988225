---------------------------- MODULE SolverChain ----------------------------
(***************************************************************************)
(* The chain of solvers that constructSolverChain puts between the         *)
(* executor and the core solver, from the top: TimingSolver, Solver,       *)
(* QueryLoggingSolver, ValidatingSolver, IndependentSolver, CachingSolver, *)
(* CexCachingSolver, the FastCexSolver in a StagedSolverImpl,              *)
(* AssignmentValidatingSolver, and a core solver (module CoreSolvers).     *)
(* Each is optional but the first two and the core.  A call of a solver is *)
(* the set of its outcomes: the core solver may fail, and picks any        *)
(* solution; FastCexSolver may give up.                                    *)
(***************************************************************************)
EXTENDS CoreSolvers, MapOfSets

CONSTANTS Order,        \* the expressions in the order of Expr::compare
          Paths,        \* the constraint sequences of states
          Conditions,   \* the expressions asked about
          Terms,        \* the terms whose range is asked for
          Chains        \* the option settings that are tried, each with
                        \* two bounds: queries, how many are asked, and
                        \* ranges, whether the last may be a getRange

VARIABLES
  br,       \* CachingSolver::cache
  cex,      \* CexCachingSolver::cache, a MapOfSets
  table,    \* CexCachingSolver::assignmentsTable
  core,     \* the core solver: vc and status of CoreSolvers
  buffer,   \* QueryLoggingSolver::logBuffer
  range,    \* the local variables of getRange while it runs
  asked,    \* how many queries were asked
  last      \* the last query and its outcome

vars == <<opts, br, cex, table, core, buffer, range, asked, last>>
-----------------------------------------------------------------------------
(***************************************************************************)
(* AssignmentValidatingSolver.  It looks at hasSolution before it looks    *)
(* at success: after a failure hasSolution is whatever the caller's        *)
(* variable held, and there are no values to bind.                         *)
(***************************************************************************)
\* Does the assignment bind every byte of the query and refute it?
Confirmed(a, q) ==
  /\ \A k \in DOMAIN q.cs : ArraysOf(q.cs[k]) \subseteq DOMAIN a /\ Evaluate(a, q.cs[k])
  /\ ArraysOf(q.e) \subseteq DOMAIN a /\ ~Evaluate(a, q.e)

AssignmentInitialValues(w, q, objects) ==
  IF ~opts.assignment THEN CoreInitialValues(w, q, objects)
  ELSE UNION {CASE o.st = "failed" -> {o, Crash(o.w)}
                [] o.st \in {"exit", "crash"} -> {o}
                [] o.val = NoSolution -> {o}
                [] OTHER -> IF Confirmed(o.val, q) THEN {o} ELSE {Crash(o.w)}
              : o \in CoreInitialValues(w, q, objects)}
-----------------------------------------------------------------------------
(***************************************************************************)
(* FastCexSolver in a StagedSolverImpl: it gives up or is right (module    *)
(* FastCex); what it leaves open goes to the secondary solver.             *)
(***************************************************************************)
PrimaryTruth(q) == {"None", IF Valid(q) THEN "MustBeTrue" ELSE "MayBeFalse"}

\* IncompleteSolver::computeValidity
PartialOf(t, f) ==
  CASE t = "MustBeTrue" -> "MustBeTrue"
    [] t # "MustBeTrue" /\ f = "MustBeTrue" -> "MustBeFalse"
    [] t = "MayBeFalse" /\ f = "MayBeFalse" -> "TrueOrFalse"
    [] t = "MayBeFalse" /\ f = "None" -> "MayBeFalse"
    [] t = "None" /\ f = "MayBeFalse" -> "MayBeTrue"
    [] OTHER -> "None"
PrimaryValidity(q) ==
  {PartialOf(t, f) : t \in PrimaryTruth(q), f \in PrimaryTruth(NegateExpr(q))}

\* What the primary solver says; nothing when it is not in the chain.
FirstTry(answers) == IF opts.fast THEN answers ELSE {"None"}

StagedTruth(w, q) ==
  UNION {IF t # "None" THEN {Done(t = "MustBeTrue", w)} ELSE CoreTruth(w, q)
         : t \in FirstTry(PrimaryTruth(q))}

\* A half-known validity is completed by one computeTruth.
StagedValidity(w, q) ==
  LET Completed(yes) ==
        Then(CoreTruth(w, IF yes = "True" THEN q ELSE NegateExpr(q)), LAMBDA o :
          {Done(IF o.val THEN yes ELSE "Unknown", o.w)})
  IN UNION {
    CASE p = "MustBeTrue" -> {Done("True", w)}
      [] p = "MustBeFalse" -> {Done("False", w)}
      [] p = "TrueOrFalse" -> {Done("Unknown", w)}
      [] p \in {"MayBeTrue", "MayBeFalse"} -> Completed(IF p = "MayBeTrue" THEN "True" ELSE "False")
      [] OTHER -> CoreValidity(w, q)
    : p \in FirstTry(PrimaryValidity(q))}

StagedValue(w, q) ==
  CoreValue(w, q) \cup
    IF opts.fast THEN {Done(i \in q.e.sat, w) : i \in Constraint(q)} ELSE {}

StagedInitialValues(w, q, objects) ==
  AssignmentInitialValues(w, q, objects) \cup
    CASE ~opts.fast -> {}
      [] opts.fast /\ Solutions(q) = {} -> {Done(NoSolution, w)}
      [] OTHER -> {Done(Bind(i, objects), w) : i \in Solutions(q)}
-----------------------------------------------------------------------------
(***************************************************************************)
(* CexCachingSolver.  The order of assignmentsTable is left open.          *)
(***************************************************************************)
Key(q) == {q.cs[k] : k \in DOMAIN q.cs} \cup (IF IsConstant(q.e) THEN {} ELSE {Neg(q.e)})

\* A set of expressions as a set of their places in the order.
Ranks(key) == {k \in DOMAIN Order : Order[k] \in key}
ExprsAt(ranks) == {Order[k] : k \in ranks}

\* searchForAssignment: the results it may find; none is a miss.
SearchForAssignment(w, key) ==
  LET ranks == Ranks(key)
      exact == Lookup(w.cex, ranks)
      super == IF opts.superset THEN FindSuperset(w.cex, ranks, w.table) ELSE {}
      satisfying == {a \in w.table : Satisfies(a, key)}
      sub == FindSubset(w.cex, ranks, {NoSolution} \cup (IF opts.tryAll THEN {} ELSE satisfying))
  IN CASE exact # {} -> exact
       [] exact = {} /\ super # {} -> super
       [] exact = {} /\ super = {} /\ sub # {} -> sub
       [] OTHER -> IF opts.tryAll THEN satisfying ELSE {}

LookupAssignment(w, q) ==
  IF IsConstant(q.e) /\ q.e.sat # {} THEN {NoSolution} ELSE SearchForAssignment(w, Key(q))

Memoize(w, key, a) ==
  [w EXCEPT !.cex = Insert(@, Ranks(key), a),
            !.table = IF a = NoSolution THEN @ ELSE @ \cup {a}]
GetAssignment(w, q) ==
  LET hits == LookupAssignment(w, q)
      key == Key(q)
  IN IF hits # {} THEN {Done(a, w) : a \in hits}
     ELSE Then(StagedInitialValues(w, q, UNION {ArraysOf(e) : e \in key}), LAMBDA o :
            IF opts.checkBinding /\ o.val # NoSolution /\ ~Satisfies(o.val, key)
              THEN {Crash(o.w)}
              ELSE {Done(o.val, Memoize(o.w, key, o.val))})

CexTruth(w, q) ==
  IF ~opts.cex THEN StagedTruth(w, q)
  ELSE IF opts.experimental /\ NoSolution \in LookupAssignment(w, NegateExpr(q))
    THEN {Failed(w)}
    ELSE Then(GetAssignment(w, q), LAMBDA o : {Done(o.val = NoSolution, o.w)})

CexValidity(w, q) ==
  IF ~opts.cex THEN StagedValidity(w, q)
  ELSE Then(GetAssignment(w, WithFalse(q)), LAMBDA o :
    IF o.val = NoSolution THEN {Crash(o.w)}
    ELSE IF Evaluate(o.val, q.e)
      THEN Then(GetAssignment(o.w, q), LAMBDA t :
             {Done(IF t.val = NoSolution THEN "True" ELSE "Unknown", t.w)})
      ELSE Then(GetAssignment(o.w, NegateExpr(q)), LAMBDA f :
             {Done(IF f.val = NoSolution THEN "False" ELSE "Unknown", f.w)}))

CexValue(w, q) ==
  IF ~opts.cex THEN StagedValue(w, q)
  ELSE Then(GetAssignment(w, WithFalse(q)), LAMBDA o :
         IF o.val = NoSolution THEN {Crash(o.w)} ELSE {Done(Evaluate(o.val, q.e), o.w)})

CexInitialValues(w, q, objects) ==
  IF ~opts.cex THEN StagedInitialValues(w, q, objects)
  ELSE Then(GetAssignment(w, q), LAMBDA o :
         {Done(IF o.val = NoSolution THEN NoSolution ELSE ValuesOf(o.val, objects), o.w)})
-----------------------------------------------------------------------------
(***************************************************************************)
(* CachingSolver.  A query and its negation share an entry, under          *)
(* whichever of the two is smaller.                                        *)
(***************************************************************************)
Canonical(e) == CHOOSE c \in {e, Neg(e)} : TRUE
NegatePartialValidity(p) ==
  CASE p = "MustBeTrue" -> "MustBeFalse" [] p = "MustBeFalse" -> "MustBeTrue"
    [] p = "MayBeTrue" -> "MayBeFalse"   [] p = "MayBeFalse" -> "MayBeTrue"
    [] OTHER -> p
\* Mutant: the entry is not negated for the negated query.
NeverNegated(q, p) == p
Oriented(q, p) == IF Canonical(q.e) = q.e THEN p ELSE NegatePartialValidity(p)
Entry(q) == <<q.cs, Canonical(q.e)>>
CacheLookup(w, q) ==
  IF Entry(q) \in DOMAIN w.br THEN Oriented(q, w.br[Entry(q)]) ELSE "None"
\* unordered_map::insert keeps an entry that is already there.
CacheInsert(w, q, p) == [w EXCEPT !.br = @ @@ (Entry(q) :> Oriented(q, p))]

\* The answer a cached entry gives, or the question it leaves.
CachedValidity(p) ==
  CASE p = "MustBeTrue" -> "True" [] p = "MustBeFalse" -> "False"
    [] p = "TrueOrFalse" -> "Unknown" [] OTHER -> "None"
PartialValidity(v) ==
  CASE v = "True" -> "MustBeTrue" [] v = "False" -> "MustBeFalse" [] OTHER -> "TrueOrFalse"
CachingValidity(w, q) ==
  LET cached == IF opts.branch THEN CacheLookup(w, q) ELSE "None"
      \* A half-known validity is completed by one computeTruth.
      half == cached \in {"MayBeTrue", "MayBeFalse"}
      yes == IF cached = "MayBeTrue" THEN "True" ELSE "False"
      below == IF half THEN Then(CexTruth(w, IF yes = "True" THEN q ELSE NegateExpr(q)), LAMBDA o :
                              {Done(IF o.val THEN yes ELSE "Unknown", o.w)})
               ELSE CexValidity(w, q)
  IN IF CachedValidity(cached) # "None" THEN {Done(CachedValidity(cached), w)}
     ELSE Then(below, LAMBDA o :
            {IF opts.branch THEN Done(o.val, CacheInsert(o.w, q, PartialValidity(o.val))) ELSE o})

CachingTruth(w, q) ==
  LET cached == IF opts.branch THEN CacheLookup(w, q) ELSE "None"
      Learnt(yes) == CASE yes -> "MustBeTrue"
                       [] ~yes /\ cached = "MayBeTrue" -> "TrueOrFalse"
                       [] OTHER -> "MayBeFalse"
  IN IF cached \notin {"None", "MayBeTrue"} THEN {Done(cached = "MustBeTrue", w)}
     ELSE Then(CexTruth(w, q), LAMBDA o :
            {IF opts.branch THEN Done(o.val, CacheInsert(o.w, q, Learnt(o.val))) ELSE o})
-----------------------------------------------------------------------------
(***************************************************************************)
(* IndependentSolver: the constraints that share no cell with a query are  *)
(* left out of it, and a solution is put together factor by factor.        *)
(***************************************************************************)
IndependentElementSet(e) ==
  [elems |-> {c \in e.elems : c[1] \notin e.whole}, whole |-> e.whole, exprs |-> <<e>>]

Intersects(a, b) ==
  \/ \E arr \in a.whole : arr \in b.whole \/ \E c \in b.elems : c[1] = arr
  \/ \E c \in a.elems : c \in b.elems \/ c[1] \in b.whole

Add(a, b) ==
  [elems |-> {c \in a.elems : c[1] \notin b.whole}
               \cup {c \in b.elems : c[1] \notin a.whole \cup b.whole},
   whole |-> a.whole \cup b.whole,
   exprs |-> a.exprs \o b.exprs]

\* getIndependentConstraints: passes over the worklist, until one adds no
\* cell; as many passes as there are constraints are enough.
\* Mutant: a single pass.
OnePass(q) ==
  SelectSeq(q.cs, LAMBDA c : Intersects(IndependentElementSet(c), IndependentElementSet(q.e)))
Required(q) ==
  LET Take(st, c) ==
        IF Intersects(IndependentElementSet(c), st.closure)
          THEN [st EXCEPT !.closure = Add(@, IndependentElementSet(c)), !.result = Append(@, c)]
          ELSE [st EXCEPT !.worklist = Append(@, c)]
      Pass(st, n) == FoldLeft(Take, [st EXCEPT !.worklist = <<>>], st.worklist)
      init == [closure |-> IndependentElementSet(q.e), result |-> <<>>, worklist |-> q.cs]
  IN FoldLeft(Pass, init, q.cs).result
Reduced(q) == [q EXCEPT !.cs = Required(q)]

\* getAllIndependentConstraintsSets: rounds in which each factor takes in
\* those behind it that it meets.
Factors(q) ==
  LET all == (IF IsConstant(q.e) THEN <<>> ELSE <<IndependentElementSet(Neg(q.e))>>)
               \o [k \in DOMAIN q.cs |-> IndependentElementSet(q.cs[k])]
      Absorb(st, f) == IF Intersects(st.current, f)
                         THEN [st EXCEPT !.current = Add(@, f)]
                         ELSE [st EXCEPT !.keep = Append(@, f)]
      TakeFront(st, n) ==
        IF st.factors = <<>> THEN st
        ELSE LET r == FoldLeft(Absorb, [current |-> Head(st.factors), keep |-> <<>>],
                               Tail(st.factors))
             IN [done |-> Append(st.done, r.current), factors |-> r.keep]
      Round(fs, n) == FoldLeft(TakeFront, [done |-> <<>>, factors |-> fs], fs).done
  IN FoldLeft(Round, all, all)

\* The answers of one factor put beside those of the factors before it: of
\* an array that already has a value only the factor's own cells are taken.
Combine(ret, f, a) ==
  [arr \in DOMAIN ret \cup DOMAIN a |->
     CASE arr \notin DOMAIN ret -> a[arr]
       [] arr \notin DOMAIN a -> ret[arr]
       [] OTHER -> [k \in 0..Size(arr) - 1 |->
                      IF <<arr, k>> \in f.elems THEN a[arr][k] ELSE ret[arr][k]]]

FactorArrays(f) == f.whole \cup {c[1] : c \in f.elems}
OneFactor(outcomes, f) ==
  Then(outcomes, LAMBDA o :
    IF o.val = NoSolution \/ FactorArrays(f) = {} THEN {o}
    ELSE Then(CexInitialValues(o.w, Query(f.exprs, False), FactorArrays(f)), LAMBDA r :
           {Done(IF r.val = NoSolution THEN NoSolution ELSE Combine(o.val, f, r.val), r.w)}))

IndependentTruth(w, q) == CachingTruth(w, IF opts.independent THEN Reduced(q) ELSE q)
IndependentValidity(w, q) == CachingValidity(w, IF opts.independent THEN Reduced(q) ELSE q)
IndependentValue(w, q) == CexValue(w, IF opts.independent THEN Reduced(q) ELSE q)
IndependentInitialValues(w, q, objects) ==
  IF ~opts.independent THEN CexInitialValues(w, q, objects)
  ELSE Then(FoldLeft(OneFactor, {Done(<<>>, w)}, Factors(q)), LAMBDA o :
         CASE o.val = NoSolution -> {o}
           \* assertCreatedPointEvaluatesToTrue
           [] o.val # NoSolution /\ ~Confirmed(ValuesOf(o.val, objects) @@ o.val, q) -> {Crash(o.w)}
           [] OTHER -> {Done(ValuesOf(o.val, objects), o.w)})
-----------------------------------------------------------------------------
(***************************************************************************)
(* ValidatingSolver: every answer is compared with the core solver's.      *)
(***************************************************************************)
Checked(w, outcomes, Oracle(_), Agrees(_, _)) ==
  IF ~opts.validate THEN outcomes
  ELSE Then(outcomes, LAMBDA o :
         Then(Oracle(o), LAMBDA a : IF Agrees(o, a) THEN {Done(o.val, a.w)} ELSE {Crash(a.w)}))

ValidatedTruth(w, q) ==
  Checked(w, IndependentTruth(w, q), LAMBDA o : CoreTruth(o.w, q), LAMBDA o, a : o.val = a.val)
ValidatedValidity(w, q) ==
  Checked(w, IndependentValidity(w, q), LAMBDA o : CoreValidity(o.w, q),
          LAMBDA o, a : o.val = a.val)
ValidatedValue(w, q) ==
  Checked(w, IndependentValue(w, q),
          LAMBDA o : CoreTruth(o.w, [q EXCEPT !.e.sat = IF o.val THEN Input \ @ ELSE @]),
          LAMBDA o, a : ~a.val)
\* The bindings are asserted; the constraints and the negated query follow.
Asserted(a, q) ==
  Query(<<[sat |-> {i \in Input : Bind(i, DOMAIN a) = a}, elems |-> {}, whole |-> DOMAIN a]>>,
        [sat |-> Solutions(q), elems |-> q.e.elems, whole |-> q.e.whole])
ValidatedInitialValues(w, q, objects) ==
  Checked(w, IndependentInitialValues(w, q, objects),
          LAMBDA o : CoreTruth(o.w, IF o.val = NoSolution THEN q ELSE Asserted(o.val, q)),
          LAMBDA o, a : a.val)
-----------------------------------------------------------------------------
(***************************************************************************)
(* QueryLoggingSolver, of which KQueryLoggingSolver and SMTLIBLoggingSolver *)
(* are the formats.  What of a query is buffered, and then written to the  *)
(* file or thrown away: its text and its result.  w.out is what this query *)
(* has written; opts.threshold says whether -min-query-time-to-log is set. *)
(***************************************************************************)
\* Mutant: the buffer is only emptied when it is written.
KeptForLater(w, writeToFile) ==
  IF writeToFile THEN [w EXCEPT !.out = @ \o w.buffer, !.buffer = <<>>] ELSE w
FlushBufferConditionally(w, writeToFile) ==
  [w EXCEPT !.out = IF writeToFile THEN @ \o w.buffer ELSE @, !.buffer = <<>>]
StartQuery(w) ==
  LET started == [w EXCEPT !.buffer = Append(@, "query")]
  IN CASE ~opts.log -> w
       [] opts.log /\ opts.dumpEarly -> FlushBufferConditionally(started, TRUE)
       [] OTHER -> started
FinishQuery(o) ==
  [o EXCEPT !.w.buffer = Append(@, IF o.st = "ok" THEN "OK" ELSE "FAIL")]
\* slow: the query took longer than the threshold.
FlushBuffer(w, slow) ==
  FlushBufferConditionally(w,
    ~opts.threshold \/ slow \/ (opts.logTimedOut /\ w.status = "TIMEOUT"))
\* What the four compute functions do after the call of the solver below.
LogOf(outcomes) ==
  IF ~opts.log THEN outcomes
  ELSE UNION {IF o.st \in {"crash", "exit"} THEN {o}
              ELSE {[FinishQuery(o) EXCEPT !.w = FlushBuffer(@, slow)] :
                      slow \in IF opts.threshold THEN BOOLEAN ELSE {FALSE}}
              : o \in outcomes}

ComputeTruth(w, q) == LogOf(ValidatedTruth(StartQuery(w), q))
ComputeValidity(w, q) == LogOf(ValidatedValidity(StartQuery(w), q))
ComputeValue(w, q) == LogOf(ValidatedValue(StartQuery(w), q))
ComputeInitialValues(w, q, objects) == LogOf(ValidatedInitialValues(StartQuery(w), q, objects))
-----------------------------------------------------------------------------
(***************************************************************************)
(* TimingSolver and Solver: constants are answered at once, and the query  *)
(* may be simplified by the constraints (ConstraintManager::simplifyExpr), *)
(* to a constant if a constraint or its negation says the same.            *)
(***************************************************************************)
Simplified(cs, e) ==
  IF \E k \in DOMAIN cs : cs[k] = e THEN True
  ELSE IF \E k \in DOMAIN cs : cs[k] = Neg(e) THEN False ELSE e

Evaluated(w, q) ==
  IF IsConstant(q.e) THEN {Done(IF q.e = True THEN "True" ELSE "False", w)}
  ELSE ComputeValidity(w, q)
MustBeTrue(w, q) == IF IsConstant(q.e) THEN {Done(q.e = True, w)} ELSE ComputeTruth(w, q)
GetValue(w, q) == IF IsConstant(q.e) THEN {Done(q.e = True, w)} ELSE ComputeValue(w, q)
\* Solver::getInitialValues reports a query without a solution as a failure.
GetInitialValues(w, q) ==
  {IF o.st = "ok" /\ o.val = NoSolution THEN Failed(o.w) ELSE o :
     o \in ComputeInitialValues(w, WithFalse(q), Array)}

\* if (!mustBeFalse(query, res)) return false; result = !res;
MayBeTrue(w, q) == Then(MustBeTrue(w, NegateExpr(q)), LAMBDA o : {Done(~o.val, o.w)})
-----------------------------------------------------------------------------
(***************************************************************************)
(* Solver::getRange.  A term has a value for every input.  The smallest    *)
(* and the largest are found by bisection; a failure of the solver is met  *)
(* by an assert.                                                           *)
(***************************************************************************)
\* The expression that holds when the value of t satisfies a comparison.
Comparison(t, sat) == [sat |-> sat, elems |-> t.elems, whole |-> t.whole]
\* Eq (LShr t k) 0
ShiftedOut(t, k) == Comparison(t, {i \in Input : t.val[i] \div 2^k = 0})
IsZero(t) == Comparison(t, {i \in Input : t.val[i] = 0})
IsOne(t) == Comparison(t, {i \in Input : t.val[i] = 1})
Ule(t, c) == Comparison(t, {i \in Input : t.val[i] <= c})
MaxValueOfNBits(n) == 2^n - 1
Middle(lo, hi) == lo + (hi - lo) \div 2

\* The queries of getRange: how many bits are useful, whether the value may
\* be zero, the smallest value, the largest value.  Each is put to
\* mustBeTrue; mayBeTrue asks for the negation.
Question(t, r) ==
  CASE r.phase = "bits" -> ShiftedOut(t, Middle(r.lo, r.hi))
    [] r.phase = "zero" -> Neg(IsZero(t))
    [] r.phase = "min" -> Neg(Ule(t, Middle(r.lo, r.hi)))
    [] r.phase = "max" -> Ule(t, Middle(r.lo, r.hi))
\* What the answer of mustBeTrue makes of the search.
AfterAnswer(r, yes) ==
  CASE r.phase = "zero" -> IF yes THEN [r EXCEPT !.phase = "min"]
                           ELSE [r EXCEPT !.phase = "max", !.min = 0]
    [] r.phase \in {"bits", "max"} -> IF yes THEN [r EXCEPT !.hi = Middle(r.lo, r.hi)]
                                     ELSE [r EXCEPT !.lo = Middle(r.lo, r.hi) + 1]
    [] r.phase = "min" -> IF yes THEN [r EXCEPT !.lo = Middle(r.lo, r.hi) + 1]
                          ELSE [r EXCEPT !.hi = Middle(r.lo, r.hi)]
\* A bisection that has closed hands over to the next.
Closed(r) == r.phase # "zero" /\ r.lo >= r.hi
NextPhase(r) ==
  CASE r.phase = "bits" -> [phase |-> "zero", lo |-> 0, hi |-> MaxValueOfNBits(r.lo), min |-> 0,
                            top |-> MaxValueOfNBits(r.lo)]
    [] r.phase = "min" -> [r EXCEPT !.phase = "max", !.min = r.lo, !.hi = r.top]
    [] OTHER -> r
-----------------------------------------------------------------------------
NoRange == [q |-> Query(<<>>, True), r |-> [phase |-> "none"]]
NoQuery == [op |-> "none", q |-> Query(<<>>, True), st |-> "ok", val |-> None, failed |-> FALSE,
            out |-> <<>>]
World == [br |-> br, cex |-> cex, table |-> table,
          vc |-> core.vc, status |-> core.status, buffer |-> buffer, out |-> <<>>, failed |-> FALSE]

Answer(op, q) ==
  CASE op = "evaluate" -> Evaluated(World, q)
    [] op = "mustBeTrue" -> MustBeTrue(World, q)
    [] op = "mayBeTrue" -> MayBeTrue(World, q)
    [] op = "getValue" -> GetValue(World, q)
    [] op = "getInitialValues" -> GetInitialValues(World, q)

Outcome(op, q, o) ==
  [op |-> op, q |-> q, st |-> o.st, val |-> o.val, failed |-> o.w.failed, out |-> o.w.out]
\* The solvers keep what they have learnt.
Learn(w) ==
  /\ br' = w.br /\ cex' = w.cex /\ table' = w.table
  /\ core' = [vc |-> w.vc, status |-> w.status]
  /\ buffer' = w.buffer
  /\ UNCHANGED opts

Ask(op, cs, e) ==
  LET q == Query(cs, IF opts.simplify /\ op # "getInitialValues" THEN Simplified(cs, e) ELSE e)
  IN /\ asked < opts.queries
     /\ \E o \in Answer(op, q) : Learn(o.w) /\ last' = Outcome(op, Query(cs, e), o)
     /\ asked' = asked + 1
     /\ UNCHANGED range

\* getRange, one query of it at a time.
StartRange(cs, t) ==
  /\ opts.ranges /\ asked + 1 = opts.queries
  /\ range' = [q |-> Query(cs, t), r |-> [phase |-> IF t.width = 1 THEN "bool" ELSE "bits",
                                          lo |-> 0, hi |-> t.width, min |-> 0, top |-> 0]]
  /\ asked' = asked + 1 /\ last' = NoQuery
  /\ UNCHANGED <<opts, br, cex, table, core, buffer>>
EndRange(o) == range' = NoRange /\ last' = Outcome("getRange", range.q, o)
\* A query of a bisection; a failure meets an assert.
RangeQuery ==
  /\ range.r.phase # "bool" /\ ~Closed(range.r)
  /\ \E o \in MustBeTrue(World, Query(range.q.cs, Question(range.q.e, range.r))) :
       /\ Learn(o.w)
       /\ IF o.st = "ok"
            THEN /\ range' = [range EXCEPT !.r = AfterAnswer(@, o.val)]
                 /\ UNCHANGED last
            ELSE EndRange(IF o.st = "failed" THEN Crash(o.w) ELSE o)
  /\ UNCHANGED asked
\* The end of a loop.
RangeLoopEnds ==
  /\ range.r.phase # "bool" /\ Closed(range.r)
  /\ IF range.r.phase = "max"
       THEN EndRange(Done(<<range.r.min, range.r.lo>>, World))
       ELSE range' = [range EXCEPT !.r = NextPhase(@)] /\ UNCHANGED last
  /\ UNCHANGED <<opts, br, cex, table, core, buffer, asked>>
\* The range of a condition.
RangeOfBool ==
  /\ range.r.phase = "bool"
  /\ \E o \in Evaluated(World, Query(range.q.cs, IsOne(range.q.e))) :
       /\ Learn(o.w)
       /\ EndRange(CASE o.st = "ok" ->
                          Done(CASE o.val = "True" -> <<1, 1>> [] o.val = "False" -> <<0, 0>>
                                 [] OTHER -> <<0, 1>>, o.w)
                     [] o.st = "failed" -> Crash(o.w)
                     [] OTHER -> o)
  /\ UNCHANGED asked

Ops == {"evaluate", "mustBeTrue", "mayBeTrue", "getValue", "getInitialValues"}

Init ==
  /\ opts \in Chains
  /\ br = <<>> /\ cex = NewNode /\ table = {}
  /\ \E s \in InitialStatus : core = [vc |-> InitialVc, status |-> s]
  /\ buffer = <<>>
  /\ asked = 0 /\ last = NoQuery /\ range = NoRange
Next ==
  /\ last.st \notin {"crash", "exit"}
  /\ IF range = NoRange
       THEN \/ \E op \in Ops, cs \in Paths, e \in Conditions :
                 /\ op = "getInitialValues" => e = CHOOSE c \in Conditions : TRUE
                 /\ Ask(op, cs, e)
            \/ \E cs \in Paths, t \in Terms : StartRange(cs, t)
       ELSE RangeQuery \/ RangeLoopEnds \/ RangeOfBool
Spec == Init /\ [][Next]_vars
-----------------------------------------------------------------------------
(***************************************************************************)
(* Properties.                                                             *)
(***************************************************************************)
PartiallyRight(q, p) ==
  CASE p = "MustBeTrue" -> Valid(q)
    [] p = "MustBeFalse" -> Valid(NegateExpr(q))
    [] p = "MayBeTrue" -> ~Valid(NegateExpr(q))
    [] p = "MayBeFalse" -> ~Valid(q)
    [] p = "TrueOrFalse" -> ~Valid(q) /\ ~Valid(NegateExpr(q))
    [] OTHER -> FALSE

\* The caches hold the truth: what CachingSolver stores of a query holds of
\* it, a key without a solution in CexCachingSolver is unsatisfiable, and
\* the solution stored with a key satisfies it.
CachesTruthful ==
  /\ \A k \in DOMAIN br : PartiallyRight(Query(k[1], k[2]), br[k])
  /\ \A x \in Entries(cex) :
       IF x.value = NoSolution THEN ~\E i \in Input : \A e \in ExprsAt(x.set) : i \in e.sat
       ELSE x.value \in table /\ Satisfies(x.value, ExprsAt(x.set))

\* The tree of MapOfSets answers every lookup of CexCachingSolver as the map
\* of its entries would: no subset or superset with an acceptable value is
\* overlooked, none is invented, and subsets, supersets and the iterator
\* list each entry once.  (What getRange adds is looked at when it is done.)
Probes == {Ranks(Key(Query(cs, e))) : cs \in Paths, e \in Conditions \cup {True}}
IndexExact ==
  range = NoRange =>
    LET all == Entries(cex)
    IN /\ Lists(Visited(cex, Begin(cex)), all)
       /\ \A key \in Probes : LooksUpRight(cex, all, key, {{NoSolution}, table})

\* Whatever the chain, the caches and the queries before, an answer is the
\* one the constraints and the expression have: Solver::evaluate and
\* mustBeTrue and mayBeTrue are exact, a value is one the expression can
\* take, and initial values satisfy every constraint.
AnswersRight ==
  last.st = "ok" =>
    CASE last.op = "evaluate" -> last.val = ExactValidity(last.q)
      [] last.op = "mustBeTrue" -> last.val = Valid(last.q)
      [] last.op = "mayBeTrue" -> last.val = ~Valid(NegateExpr(last.q))
      [] last.op = "getValue" -> \E i \in Constraint(last.q) : (i \in last.q.e.sat) = last.val
      [] last.op = "getInitialValues" -> \E i \in Constraint(last.q) : ContentOf[i] = last.val
      [] last.op = "getRange" ->
           LET values == {last.q.e.val[i] : i \in Constraint(last.q)}
           IN last.val[1] \in values /\ last.val[2] \in values
                /\ \A v \in values : last.val[1] <= v /\ v <= last.val[2]
      [] OTHER -> TRUE

\* With -cex-cache-exp computeTruth gives up on a query whose negation is
\* known to have no solution, without asking the core solver.
GivesUp ==
  /\ opts.cex /\ opts.experimental
  /\ CASE last.op = "mustBeTrue" -> last.st = "failed" /\ Valid(NegateExpr(last.q))
       [] last.op = "mayBeTrue" -> last.st = "failed" /\ Valid(last.q)
       [] OTHER -> last.op = "getRange" /\ last.st = "crash"

\* A query fails only because the core solver did (timeout, failed fork):
\* nothing in the chain fails of itself, and no assertion of the chain
\* ("must have assignment", "should satisfy the equation", "invalid solver
\* result") fires.  Three exceptions: getRange does not handle a failure;
\* AssignmentValidatingSolver may take one for a solution, and aborts; and
\* with -cex-cache-exp CexCachingSolver gives up by itself.
FailsOnlyWithCore ==
  \/ last.st = "ok"
  \/ last.st \in {"failed", "exit"} /\ last.failed
  \/ last.st = "crash" /\ last.failed /\ (last.op = "getRange" \/ opts.assignment)
  \/ GivesUp

\* After a failure of the core solver getOperationStatusCode says why,
\* whichever solver of the chain is asked; nothing stays asserted in the core solver; and the query
\* log holds, of this query alone, each result behind its query, with a
\* query that timed out among them.
FailuresReported ==
  last.st \in {"ok", "failed"} =>
    /\ last.st = "failed" => core.status \notin Success \/ GivesUp
    /\ core.vc = InitialVc /\ buffer = <<>>
    /\ \A k \in DOMAIN last.out : last.out[k] # "query" => k > 1 /\ last.out[k - 1] = "query"
    /\ opts.log /\ opts.logTimedOut /\ last.st = "failed" /\ core.status = "TIMEOUT"
         => last.out # <<>> /\ Last(last.out) = "FAIL"

\* Type invariant.
TypeOK ==
  /\ opts \in Chains /\ asked \in 0..opts.queries
  /\ last.op \in Ops \cup {"getRange", "none"} /\ last.st \in {"ok", "failed", "crash", "exit"}
  /\ core.status \in Status
  /\ table \subseteq UNION {[A -> UNION {Contents(a) : a \in Array}] : A \in SUBSET Array}

\* The caches are sound however queries, hits, misses and timeouts follow each
\* other.
CachesSound == TypeOK /\ CachesTruthful

\* The chain is as good as an exact solver that may time out, but for the
\* exceptions that FailsOnlyWithCore names.
AnswersExact == AnswersRight /\ FailsOnlyWithCore /\ FailuresReported
=============================================================================
