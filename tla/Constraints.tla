---------------------------- MODULE Constraints ----------------------------
(* Visitors over expressions and what is built on them: partial evaluation *)
(* (ExprEvaluator), the constraint manager of a path (Constraints.cpp) and *)
(* the values a condition implies (ImpliedValue.cpp).                      *)
EXTENDS ExprCreate

CONSTANTS RewriteEqualities,  \* the option -rewrite-equalities
          Null                \* a null reference where a constant should be

-----------------------------------------------------------------------------
(* ExprVisitor: rebuild a node with visited children.  A read only has its *)
(* index as a child; its updates are left as they are.                     *)

Rebuild(e, kids) ==
    CASE e.k = "Read"         -> ReadCreate(e.a, e.ul, kids[1])
      [] e.k = "Select"       -> SelectCreate(kids[1], kids[2], kids[3])
      [] e.k = "Concat"       -> ConcatCreate(kids[1], kids[2])
      [] e.k = "Extract"      -> ExtractCreate(kids[1], e.v, e.w)
      [] e.k = "ZExt"         -> ZExtCreate(kids[1], e.w)
      [] e.k = "SExt"         -> SExtCreate(kids[1], e.w)
      [] e.k = "Not"          -> NotCreate(kids[1])
      [] e.k = "NotOptimized" -> Node("NotOptimized", e.w, kids)
      [] OTHER                -> Create(e.k, kids[1], kids[2])

Changed(e, kids) == IF kids = e.kids THEN e ELSE Rebuild(e, kids)

-----------------------------------------------------------------------------
(* ExprEvaluator.  known[a][i] is the value a subclass gives to cell i of  *)
(* array a, or Null where it answers with the read itself: the values of   *)
(* an Assignment, the possible or the exact values of the fast solver.     *)

RECURSIVE Evaluate(_, _)

\* Mutant: the array is read behind its updates.
UpdatesIgnored(a, ul, i, w, known) ==
    IF i < ArraySize(a) /\ known[a][i] # Null THEN Const(known[a][i], ByteWidth)
    ELSE ReadCreate(a, <<>>, Const(i, w))

EvalRead(a, ul, i, w, known) ==
    LET index(j) == Evaluate(ul[j][1], known)
        stop == SelectInSeq([j \in 1..Len(ul) |-> index(j)],
                            LAMBDA ui : ~IsConst(ui) \/ ui.v = i)
    IN  CASE stop # 0 /\ IsConst(index(stop)) -> Evaluate(ul[stop][2], known)
          [] stop = 0 /\ i < ArraySize(a) /\ IsConstantArray(a) ->
                Const(Contents(a)[i + 1], ByteWidth)
          [] stop = 0 /\ i < ArraySize(a) /\ ~IsConstantArray(a)
                /\ known[a][i] # Null -> Const(known[a][i], ByteWidth)
          [] OTHER -> ReadCreate(a, IF stop = 0 THEN <<>> ELSE SubSeq(ul, stop, Len(ul)),
                                 Const(i, w))

\* A divisor that evaluates to zero is left as it was written.
EvalKids(e, known) ==
    LET kid(i) == Evaluate(e.kids[i], known) IN
    [i \in 1..Len(e.kids) |->
        IF /\ e.k \in {"UDiv", "SDiv", "URem", "SRem"} /\ i = 2
           /\ IsConst(kid(2)) /\ kid(2).v = 0
        THEN Right(e) ELSE kid(i)]

\* A node whose operands are constants already is only rebuilt: of such a
\* node NotOptimized stays.
EvalNode(e, kids, known) ==
    CASE e.k = "Read" /\ IsConst(kids[1]) ->
            EvalRead(e.a, e.ul, kids[1].v, Left(e).w, known)
      [] e.k = "NotOptimized" /\ ~IsConst(Left(e)) -> kids[1]
      [] OTHER -> Changed(e, kids)

Evaluate(e, known) ==
    IF IsConst(e) THEN e ELSE EvalNode(e, EvalKids(e, known), known)

\* Assignment::evaluate: an array without a binding reads as zero, unless
\* free values are allowed.
AssignmentCells(bindings, allowFreeValues) ==
    [a \in Arrays |-> [i \in 0..ArraySize(a) - 1 |->
        IF a \in DOMAIN bindings THEN bindings[a][i]
        ELSE IF allowFreeValues THEN Null ELSE 0]]

Satisfies(bindings, constraints) ==
    \A i \in 1..Len(constraints) :
        IsTrue(Evaluate(constraints[i], AssignmentCells(bindings, FALSE)))

-----------------------------------------------------------------------------
(* Replacement of known subexpressions.                                    *)

\* ExprReplaceVisitor: src by dst, seen on the way down or on the way up.
Instead(e, src, dst) == IF e = src THEN dst ELSE e

RECURSIVE Replace(_, _, _)
Replace(e, src, dst) ==
    IF e = src THEN dst
    ELSE IF IsConst(e) THEN e
    ELSE Instead(Changed(e, [i \in 1..Len(e.kids) |-> Replace(e.kids[i], src, dst)]),
                 src, dst)

\* ExprReplaceVisitor2, a recursive visitor: what a node is rebuilt into is
\* visited again before it is looked up.
RECURSIVE Substitute(_, _)
Substitute(e, map) ==
    LET Lookup(f) == IF ~IsConst(f) /\ f \in DOMAIN map THEN map[f] ELSE f
        kids == [i \in 1..Len(e.kids) |-> Substitute(e.kids[i], map)]
    IN  CASE IsConst(e) -> e
          [] ~IsConst(e) /\ kids = e.kids -> Lookup(e)
          [] OTHER -> Lookup(Substitute(Rebuild(e, kids), map))

-----------------------------------------------------------------------------
(* ConstraintManager.  The constraints of a path are a sequence.           *)

\* What a constraint says of an expression, for simplifyExpr.
Equality(c) ==
    IF ConstLeft(c, "Eq") THEN <<Right(c), Left(c)>> ELSE <<c, Const(1, Bool)>>

\* map::insert keeps the entry of the first constraint on an expression.
Equalities(constraints) ==
    LET pairs == [i \in 1..Len(constraints) |-> Equality(constraints[i])]
        keys  == {pairs[i][1] : i \in 1..Len(pairs)}
    IN  [k \in keys |-> pairs[SelectInSeq(pairs, LAMBDA p : p[1] = k)][2]]

SimplifyExpr(constraints, e) ==
    IF IsConst(e) THEN e ELSE Substitute(e, Equalities(constraints))

\* cs holds the constraints, bad says a false one was added (the assert).
RECURSIVE AddConstraintInternal(_, _)
RECURSIVE RewriteFrom(_, _, _, _)

\* Mutant: a constraint that changes is not added again.
ChangedDropped(old, m, src, dst) ==
    IF old = <<>> THEN m
    ELSE RewriteFrom(Tail(old),
                     IF Replace(Head(old), src, dst) # Head(old) THEN m
                     ELSE [m EXCEPT !.cs = Append(@, Head(old))], src, dst)

\* rewriteConstraints: the old constraints are added again one by one, the
\* changed ones through addConstraintInternal, which may itself rewrite the
\* ones added so far.
RewriteFrom(old, m, src, dst) ==
    IF old = <<>> THEN m
    ELSE LET e == Replace(Head(old), src, dst) IN
         RewriteFrom(Tail(old),
                     IF e # Head(old) THEN AddConstraintInternal(m, e)
                     ELSE [m EXCEPT !.cs = Append(@, e)],
                     src, dst)

RewriteConstraints(m, src, dst) ==
    RewriteFrom(m.cs, [m EXCEPT !.cs = <<>>], src, dst)

AddConstraintInternal(m, e) ==
    CASE IsConst(e) -> [m EXCEPT !.bad = @ \/ ~IsTrue(e)]
      [] e.k = "And" ->
            AddConstraintInternal(AddConstraintInternal(m, Left(e)), Right(e))
      [] RewriteEqualities /\ ConstLeft(e, "Eq") ->
            LET n == RewriteConstraints(m, Right(e), Left(e))
            IN  [n EXCEPT !.cs = Append(@, e)]
      [] OTHER -> [m EXCEPT !.cs = Append(@, e)]

AddConstraint(m, e) == AddConstraintInternal(m, SimplifyExpr(m.cs, e))

-----------------------------------------------------------------------------
(* The constraints that the test case of a path is computed from.          *)

\* What klee_prefer_cex records for an object.
PreferCex(cond) ==
    IF cond.w = Bool THEN cond ELSE Create("Ne", cond, Const(0, cond.w))

\* getSymbolicSolution, for one preference: it is added unless the constraints,
\* the earlier preferences included, imply that it is false.  A query that
\* fails leaves out this preference and all the later ones.
Preferring(m, p) ==
    LET mustBeFalse == \A e \in {IsZero(p)}, in \in Inputs :
                          Satisfies(in, m.cs) => Val(e, in) = 1
    IN  IF mustBeFalse THEN m ELSE AddConstraint(m, p)

-----------------------------------------------------------------------------
(* ImpliedValue::getImpliedValues: the reads whose value is fixed by       *)
(* e = value, as a set of pairs.  ok turns false where an assert fails or  *)
(* a null value is used: the case of Or passes 0 where a constant of the   *)
(* operands' width is meant, which the compiler takes for a null reference.*)

NoValues == [ok |-> TRUE, bound |-> {}]

Both(r, s) == [ok |-> r.ok /\ s.ok, bound |-> r.bound \cup s.bound]

OrOperand(e, value) == Null

\* The bits of a value that belong to the left operand of a concatenation.
HighPart(value, l, r) == Const(value.v \div 2^r.w, l.w)

RECURSIVE GetImpliedValues(_, _)
GetImpliedValues(e, value) ==
    CASE e.k = "Read" -> [ok |-> TRUE, bound |-> {<<e, value>>}]
      [] e.k \in {"NotOptimized", "Extract", "Mul", "UDiv", "SDiv", "URem",
                  "SRem", "Ult", "Ule", "Slt", "Sle", "Shl", "LShr", "AShr",
                  "Not"} -> NoValues
      [] e.k \notin {"Read"} /\ value = Null -> [ok |-> FALSE, bound |-> {}]
      [] e.k = "Constant" -> [ok |-> value = e, bound |-> {}]
      [] e.k = "Select" ->
            LET t == Right(e)  f == e.kids[3] IN
            IF ~IsConst(t) \/ ~IsConst(f) \/ t = f THEN NoValues
            ELSE IF value = t THEN GetImpliedValues(Left(e), Const(1, Bool))
            ELSE Both([ok |-> value = f, bound |-> {}],
                      GetImpliedValues(Left(e), Const(0, Bool)))
      [] e.k = "Concat" ->
            Both(GetImpliedValues(Left(e), HighPart(value, Left(e), Right(e))),
                 GetImpliedValues(Right(e), Const(value.v, Right(e).w)))
      [] e.k \in {"ZExt", "SExt"} ->
            GetImpliedValues(Left(e), Const(value.v, Left(e).w))
      [] e.k = "Add" /\ IsConst(Left(e)) ->
            GetImpliedValues(Right(e), FoldConst("Sub", value, Left(e)))
      [] e.k = "Sub" /\ IsConst(Left(e)) ->
            GetImpliedValues(Right(e), FoldConst("Sub", Left(e), value))
      [] e.k = "And" /\ IsTrue(value) ->
            Both(GetImpliedValues(Left(e), value), GetImpliedValues(Right(e), value))
      [] e.k = "Or" /\ value.v = 0 ->
            Both(GetImpliedValues(Left(e), OrOperand(Left(e), value)),
                 GetImpliedValues(Right(e), OrOperand(Right(e), value)))
      [] e.k = "Xor" /\ IsConst(Left(e)) ->
            GetImpliedValues(Right(e), FoldConst("Xor", value, Left(e)))
      [] e.k = "Eq" /\ IsConst(Left(e)) /\ IsTrue(value) ->
            GetImpliedValues(Right(e), Left(e))
      [] e.k = "Eq" /\ IsConst(Left(e)) /\ ~IsTrue(value) /\ Left(e).w = Bool ->
            GetImpliedValues(Right(e), Const(1 - Left(e).v, Bool))
      [] OTHER -> NoValues

\* findReads: the reads of an expression, with or without those of updates.
RECURSIVE FindReads(_, _)
FindReads(e, visitUpdates) ==
    (IF e.k = "Read" THEN {e} ELSE {})
    \cup UNION {FindReads(e.kids[i], visitUpdates) : i \in 1..Len(e.kids)}
    \cup (IF ~visitUpdates THEN {}
          ELSE UNION {FindReads(e.ul[i][1], TRUE) \cup FindReads(e.ul[i][2], TRUE)
                      : i \in 1..Len(e.ul)})
=============================================================================
