---------------------------- MODULE ExprBuilders ----------------------------
(* lib/Expr/ExprBuilder.cpp: the builders kleaver parses queries with.     *)
(* They are stacked: the default one allocates the node it is asked for,   *)
(* constant folding sits on it and simplification on constant folding.     *)
(* Each of the two upper ones first folds calls with constant arguments,   *)
(* then applies its own rewritings, which call back to the top of the      *)
(* stack below which they stand (Builder) or to the one underneath (Base). *)
EXTENDS Expressions

Builders == {"default", "folding", "simplifying"}

Base(b) == IF b = "simplifying" THEN "folding" ELSE "default"

RECURSIVE Build(_, _, _, _)       \* the binary operations
RECURSIVE BuildNot(_, _)

Neg(c) == Const(-c.v, c.w)

-----------------------------------------------------------------------------
(* ConstantFoldingBuilder                                                  *)

\* c + r
FoldAddConst(c, r) ==
    LET A(x, y) == Build("folding", "Add", x, y)
        S(x, y) == Build("folding", "Sub", x, y)
    IN  CASE c.v = 0 -> r
          [] c.v # 0 /\ r.k = "Add" /\ IsConst(Left(r)) ->
                A(FoldConst("Add", c, Left(r)), Right(r))
          [] c.v # 0 /\ r.k = "Add" /\ ~IsConst(Left(r)) /\ IsConst(Right(r)) ->
                A(FoldConst("Add", c, Right(r)), Left(r))
          [] c.v # 0 /\ r.k = "Sub" /\ IsConst(Left(r)) ->
                S(FoldConst("Add", c, Left(r)), Right(r))
          [] c.v # 0 /\ r.k = "Sub" /\ ~IsConst(Left(r)) /\ IsConst(Right(r)) ->
                A(FoldConst("Sub", c, Right(r)), Left(r))
          [] OTHER -> Alloc("Add", c, r)

\* l + r, neither of them constant
FoldAdd(l, r) ==
    LET A(x, y) == Build("folding", "Add", x, y)
        S(x, y) == Build("folding", "Sub", x, y)
    IN  CASE l.k = "Add" -> A(Left(l), A(Right(l), r))
          [] l.k = "Sub" -> A(Left(l), S(r, Right(l)))
          [] l.k \notin {"Add", "Sub"} /\ r.k = "Add" /\ IsConst(Left(r)) ->
                A(Left(r), A(l, Right(r)))
          [] l.k \notin {"Add", "Sub"} /\ r.k = "Add" /\ ~IsConst(Left(r))
                /\ IsConst(Right(r)) -> A(Right(r), A(l, Left(r)))
          [] l.k \notin {"Add", "Sub"} /\ r.k = "Sub" /\ IsConst(Left(r)) ->
                A(Left(r), S(l, Right(r)))
          [] l.k \notin {"Add", "Sub"} /\ r.k = "Sub" /\ ~IsConst(Left(r))
                /\ IsConst(Right(r)) -> A(Neg(Right(r)), A(l, Left(r)))
          [] OTHER -> Alloc("Add", l, r)

\* c - r
FoldSubConst(c, r) ==
    LET A(x, y) == Build("folding", "Add", x, y)
        S(x, y) == Build("folding", "Sub", x, y)
    IN  CASE r.k = "Add" /\ IsConst(Left(r)) ->
                S(FoldConst("Sub", c, Left(r)), Right(r))
          [] r.k = "Add" /\ ~IsConst(Left(r)) /\ IsConst(Right(r)) ->
                S(FoldConst("Sub", c, Right(r)), Left(r))
          [] r.k = "Sub" /\ IsConst(Left(r)) ->
                A(FoldConst("Sub", c, Left(r)), Right(r))
          [] r.k = "Sub" /\ ~IsConst(Left(r)) /\ IsConst(Right(r)) ->
                S(FoldConst("Add", c, Right(r)), Left(r))
          [] OTHER -> Alloc("Sub", c, r)

\* l - r, neither of them constant
FoldSub(l, r) ==
    LET A(x, y) == Build("folding", "Add", x, y)
        S(x, y) == Build("folding", "Sub", x, y)
    IN  CASE l.k = "Add" -> A(Left(l), S(Right(l), r))
          [] l.k = "Sub" -> S(Left(l), A(Right(l), r))
          [] l.k \notin {"Add", "Sub"} /\ r.k = "Add" /\ IsConst(Left(r)) ->
                A(Neg(Left(r)), S(l, Right(r)))
          [] l.k \notin {"Add", "Sub"} /\ r.k = "Add" /\ ~IsConst(Left(r))
                /\ IsConst(Right(r)) -> A(Neg(Right(r)), S(l, Left(r)))
          [] l.k \notin {"Add", "Sub"} /\ r.k = "Sub" /\ IsConst(Left(r)) ->
                A(Neg(Left(r)), A(l, Right(r)))
          [] l.k \notin {"Add", "Sub"} /\ r.k = "Sub" /\ ~IsConst(Left(r))
                /\ IsConst(Right(r)) -> A(Right(r), S(l, Left(r)))
          [] OTHER -> Alloc("Sub", l, r)

\* c op r, for the operations whose constant may stand on either side
FoldCommutative(k, c, r) ==
    CASE k = "Add" -> FoldAddConst(c, r)
      [] k = "Mul" /\ c.v = 0 -> c
      [] k = "Mul" /\ c.v = 1 -> r
      [] k = "And" /\ c.v = 0 -> c
      [] k = "And" /\ c.v # 0 /\ AllOnes(c) -> r
      [] k = "Or" /\ c.v = 0 -> r
      [] k = "Or" /\ c.v # 0 /\ AllOnes(c) -> c
      [] k = "Xor" /\ c.v = 0 -> r
      [] OTHER -> Alloc(k, c, r)

Folding(k, l, r) ==
    LET commutes == k \in {"Add", "Mul", "And", "Or", "Xor"} IN
    CASE commutes /\ IsConst(l) -> FoldCommutative(k, l, r)
      [] commutes /\ IsConst(r) -> FoldCommutative(k, r, l)
      [] k = "Add" /\ ~IsConst(l) /\ ~IsConst(r) -> FoldAdd(l, r)
      [] k = "Sub" /\ IsConst(l) -> FoldSubConst(l, r)
      [] k = "Sub" /\ IsConst(r) -> FoldAddConst(Neg(r), l)
      [] k = "Sub" /\ ~IsConst(l) /\ ~IsConst(r) -> FoldSub(l, r)
      [] OTHER -> Alloc(k, l, r)

FoldEqConst(c, r) ==
    CASE c.w # Bool -> Alloc("Eq", c, r)
      [] c.w = Bool /\ IsTrue(c) -> r
      [] c.w = Bool /\ IsFalse(c) -> BuildNot("default", r)

\* Only equality has rules of its own.
FoldingComparison(k, l, r) ==
    CASE k = "Eq" /\ IsConst(l) -> FoldEqConst(l, r)
      [] k = "Eq" /\ IsConst(r) -> FoldEqConst(r, l)
      [] OTHER -> Alloc(k, l, r)

-----------------------------------------------------------------------------
(* SimplifyingBuilder: rules for comparisons only, the rest goes to Base.  *)

SwappedOrder == [Ugt |-> "Ult", Uge |-> "Ule", Sgt |-> "Slt", Sge |-> "Sle"]

SimplifyingComparison(k, l, r) ==
    CASE k = "Eq" /\ IsConst(l) /\ l.w = Bool ->
            IF IsTrue(l) THEN r ELSE BuildNot("folding", r)
      [] k = "Eq" /\ IsConst(r) /\ r.w = Bool ->
            IF IsTrue(r) THEN l ELSE BuildNot("folding", l)
      [] k = "Eq" /\ IsConst(r) /\ r.w # Bool -> Build("folding", "Eq", r, l)
      [] k = "Eq" /\ ~IsConst(l) /\ ~IsConst(r) /\ l = r -> Const(1, Bool)
      [] k = "Ne" -> BuildNot("simplifying", Build("simplifying", "Eq", l, r))
      [] k \in DOMAIN SwappedOrder -> Build("simplifying", SwappedOrder[k], r, l)
      [] OTHER -> Build("folding", k, l, r)

-----------------------------------------------------------------------------
(* ConstantSpecializedExprBuilder: the dispatch of the two.                *)

BuildComparison(b, k, l, r) ==
    IF IsConst(l) /\ IsConst(r) THEN FoldConst(k, l, r)
    ELSE IF b = "folding" THEN FoldingComparison(k, l, r)
    ELSE SimplifyingComparison(k, l, r)

Build(b, k, l, r) ==
    CASE b = "default" -> Alloc(k, l, r)
      [] b # "default" /\ k \in Comparisons -> BuildComparison(b, k, l, r)
      [] b # "default" /\ k \notin Comparisons /\ IsConst(l) /\ IsConst(r) ->
            FoldConst(k, l, r)
      [] OTHER -> Folding(k, l, r)

BuildNot(b, e) ==
    CASE b = "default" -> Node("Not", e.w, <<e>>)
      [] b # "default" /\ e.k = "Not" -> Left(e)
      [] b # "default" /\ IsConst(e) -> Const(2^e.w - 1 - e.v, e.w)
      [] b = "simplifying" /\ e.k = "Or" ->
            Build("simplifying", "And", BuildNot("simplifying", Left(e)),
                                        BuildNot("simplifying", Right(e)))
      [] OTHER -> BuildNot(Base(b), e)

\* Writes the index cannot be of are dropped.
BuildRead(b, a, ul, index) ==
    LET Missed(u) == IsFalse(Build(b, "Eq", index, u[1]))
        stop == SelectInSeq(ul, LAMBDA u : ~Missed(u))
        rest == IF stop = 0 THEN <<>> ELSE SubSeq(ul, stop, Len(ul))
    IN  IF b = "default" THEN ReadAlloc(a, ul, index)
        ELSE ReadAlloc(a, rest, index)

BuildSelect(b, c, t, f) ==
    IF b # "default" /\ IsConst(c) THEN (IF IsTrue(c) THEN t ELSE f)
    ELSE SelectAlloc(c, t, f)

BuildConcat(b, l, r) ==
    IF b # "default" /\ IsConst(l) /\ IsConst(r) THEN ConcatConst(l, r)
    ELSE ConcatAlloc(l, r)

BuildExtract(b, e, off, w) ==
    IF b # "default" /\ IsConst(e) THEN Const(ExtractBits(e.v, off, w), w)
    ELSE ExtractAlloc(e, off, w)

BuildExt(b, k, e, w) ==
    CASE b # "default" /\ IsConst(e) /\ k = "ZExt" -> Const(e.v, w)
      [] b # "default" /\ IsConst(e) /\ k = "SExt" ->
            Const(SignExtend(e.v, e.w, w), w)
      [] OTHER -> Node(k, w, <<e>>)
=============================================================================
