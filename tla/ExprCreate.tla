----------------------------- MODULE ExprCreate -----------------------------
(* The create functions of lib/Expr/Expr.cpp, which every expression of    *)
(* the interpreter goes through: constants are folded, reads roll back the *)
(* updates that cannot matter, constants are gathered on one side, and the *)
(* kinds nothing downstream understands (Ne, Ugt, Uge, Sgt, Sge) are       *)
(* rewritten.  One operator per function of the file, keeping its names.   *)
EXTENDS Expressions

CONSTANT ConstArrayOpt      \* the option -const-array-opt

RECURSIVE Create(_, _, _)   \* XExpr::create(l, r) for the binary kinds X
RECURSIVE EqCreatePartialR(_, _)
RECURSIVE ExtractCreate(_, _, _)

IsZero(e) == Create("Eq", e, Const(0, e.w))              \* createIsZero

Implies(hyp, conc) == Create("Or", IsZero(hyp), conc)    \* createImplies

-----------------------------------------------------------------------------
(* Reads, selects, concatenations and casts.                               *)

\* Updates known not to be read are skipped; the search stops at the first
\* one that may be, or answers when one must be.
ReadBehind(a, ul, index, conds) ==
    LET stop     == SelectInSeq(conds, LAMBDA c : ~IsFalse(c))
        found    == stop # 0 /\ IsTrue(conds[stop])
        rest     == IF stop = 0 THEN <<>> ELSE SubSeq(ul, stop, Len(ul))
        concrete == IsConst(index) /\ index.v < ArraySize(a)
    IN  CASE found -> ul[stop][2]
          [] ~found /\ concrete /\ IsConstantArray(a) /\ stop = 0 ->
                Const(Contents(a)[index.v + 1], ByteWidth)
          [] ~found /\ concrete /\ ~(IsConstantArray(a) /\ stop = 0) ->
                ReadAlloc(a, rest, index)
          [] OTHER -> ReadAlloc(a, ul, index)

ReadCreate(a, ul, index) ==
    ReadBehind(a, ul, index,
               [i \in 1..Len(ul) |-> Create("Eq", index, ul[i][1])])

SelectCreate(c, t, f) ==
    CASE IsConst(c) -> IF IsTrue(c) THEN t ELSE f
      [] ~IsConst(c) /\ t = f -> t
      [] ~IsConst(c) /\ t # f /\ t.w = Bool /\ (IsConst(t) \/ IsConst(f)) ->
            LET k == IF IsTrue(t) \/ (~IsConst(t) /\ IsTrue(f)) THEN "Or" ELSE "And"
                asIs == IsTrue(t) \/ (~IsConst(t) /\ IsFalse(f))
            IN  Create(k, IF asIs THEN c ELSE IsZero(c), IF IsConst(t) THEN f ELSE t)
      [] OTHER -> SelectAlloc(c, t, f)

ConcatCreate(l, r) ==
    CASE IsConst(l) /\ IsConst(r) -> ConcatConst(l, r)
      [] /\ l.k = "Extract" /\ r.k = "Extract"
         /\ Left(l) = Left(r) /\ r.v + r.w = l.v ->
            ExtractCreate(Left(l), r.v, l.w + r.w)
      [] OTHER -> ConcatAlloc(l, r)

\* createN, create4, create8: unbalanced to the right.
ConcatCreateN(kids) ==
    FoldRight(ConcatCreate, SubSeq(kids, 1, Len(kids) - 1), kids[Len(kids)])

ExtractCreate(e, off, w) ==
    CASE w = e.w -> e
      [] w # e.w /\ IsConst(e) -> Const(ExtractBits(e.v, off, w), w)
      [] w # e.w /\ e.k = "Concat" ->
            LET r == Right(e) IN
            IF off >= r.w THEN ExtractCreate(Left(e), off - r.w, w)
            ELSE IF off + w <= r.w THEN ExtractCreate(r, off, w)
            ELSE ConcatCreate(ExtractCreate(Left(e), 0, w - r.w + off),
                              ExtractCreate(r, off, r.w - off))
      [] OTHER -> ExtractAlloc(e, off, w)

NotCreate(e) ==
    IF IsConst(e) THEN Const(2^e.w - 1 - e.v, e.w) ELSE Node("Not", e.w, <<e>>)

ZExtCreate(e, w) ==
    CASE w = e.w -> e
      [] w < e.w -> ExtractCreate(e, 0, w)
      [] w > e.w -> IF IsConst(e) THEN Const(e.v, w) ELSE Node("ZExt", w, <<e>>)

SExtCreate(e, w) ==
    CASE w = e.w -> e
      [] w < e.w -> ExtractCreate(e, 0, w)
      [] w > e.w -> IF IsConst(e) THEN Const(SignExtend(e.v, e.w, w), w)
                    ELSE Node("SExt", w, <<e>>)

-----------------------------------------------------------------------------
(* Arithmetic.  createPartialR has a constant cl on the left, create none. *)

ConstLeft(e, k) == e.k = k /\ IsConst(Left(e))

AndCreatePartial(l, cr) ==
    CASE AllOnes(cr) -> l
      [] ~AllOnes(cr) /\ cr.v = 0 -> cr
      [] OTHER -> Alloc("And", l, cr)

OrCreatePartial(l, cr) ==
    CASE AllOnes(cr) -> cr
      [] ~AllOnes(cr) /\ cr.v = 0 -> l
      [] OTHER -> Alloc("Or", l, cr)

XorCreatePartialR(cl, r) ==
    CASE cl.v = 0 -> r
      [] cl.v # 0 /\ cl.w = Bool -> EqCreatePartialR(Const(0, Bool), r)
      [] OTHER -> Alloc("Xor", cl, r)

AddCreatePartialR(cl, r) ==
    CASE cl.w = Bool -> XorCreatePartialR(cl, r)
      [] cl.w # Bool /\ cl.v = 0 -> r
      [] cl.w # Bool /\ cl.v # 0 /\ ConstLeft(r, "Add") ->
            Create("Add", Create("Add", cl, Left(r)), Right(r))
      [] cl.w # Bool /\ cl.v # 0 /\ ConstLeft(r, "Sub") ->
            Create("Sub", Create("Add", cl, Left(r)), Right(r))
      [] OTHER -> Alloc("Add", cl, r)

AddCreate(l, r) ==
    IF l.w = Bool THEN Alloc("Xor", l, r)
    ELSE IF ConstLeft(l, "Add")
    THEN Create("Add", Left(l), Create("Add", Right(l), r))
    ELSE IF ConstLeft(l, "Sub")
    THEN Create("Add", Left(l), Create("Sub", r, Right(l)))
    ELSE IF ConstLeft(r, "Add")
    THEN Create("Add", Left(r), Create("Add", l, Right(r)))
    ELSE IF ConstLeft(r, "Sub")
    THEN Create("Add", Left(r), Create("Sub", l, Right(r)))
    ELSE Alloc("Add", l, r)

SubCreatePartialR(cl, r) ==
    CASE cl.w = Bool -> XorCreatePartialR(cl, r)
      [] cl.w # Bool /\ ConstLeft(r, "Add") ->
            Create("Sub", Create("Sub", cl, Left(r)), Right(r))
      [] cl.w # Bool /\ ConstLeft(r, "Sub") ->
            Create("Add", Create("Sub", cl, Left(r)), Right(r))
      [] OTHER -> Alloc("Sub", cl, r)

\* Mutant: the constant keeps its sign.
SignKept(l, cr) == AddCreatePartialR(cr, l)

\* l - c is l + (-c)
SubCreatePartial(l, cr) == AddCreatePartialR(Const(-cr.v, cr.w), l)

SubCreate(l, r) ==
    IF l.w = Bool THEN Alloc("Xor", l, r)
    ELSE IF l = r THEN Const(0, l.w)
    ELSE IF ConstLeft(l, "Add")
    THEN Create("Add", Left(l), Create("Sub", Right(l), r))
    ELSE IF ConstLeft(l, "Sub")
    THEN Create("Sub", Left(l), Create("Add", Right(l), r))
    ELSE IF ConstLeft(r, "Add")
    THEN Create("Sub", Create("Sub", l, Right(r)), Left(r))
    ELSE IF ConstLeft(r, "Sub")
    THEN Create("Sub", Create("Add", l, Right(r)), Left(r))
    ELSE Alloc("Sub", l, r)

MulCreatePartialR(cl, r) ==
    CASE cl.w = Bool -> AndCreatePartial(r, cl)
      [] cl.w # Bool /\ cl.v = 1 -> r
      [] cl.w # Bool /\ cl.v = 0 -> cl
      [] OTHER -> Alloc("Mul", cl, r)

MulCreate(l, r) == Alloc(IF l.w = Bool THEN "And" ELSE "Mul", l, r)

\* At width one the divisor can only be 1.
DivCreate(k, l, r) ==
    CASE l.w = Bool /\ k \in {"UDiv", "SDiv"} -> l
      [] l.w = Bool /\ k \in {"URem", "SRem"} -> Const(0, Bool)
      [] OTHER -> Alloc(k, l, r)

ShiftCreate(k, l, r) ==
    CASE l.w = Bool /\ k = "AShr" -> l
      [] l.w = Bool /\ k # "AShr" -> Create("And", l, IsZero(r))
      [] OTHER -> Alloc(k, l, r)

-----------------------------------------------------------------------------
(* Comparisons.                                                            *)

EqCreate(l, r) == IF l = r THEN Const(1, Bool) ELSE Alloc("Eq", l, r)

MaxMatches == 100        \* "Arbitrary maximum on the size of disjunction."

\* cl == rd for a read of an array of constants: which index can it be?
TryConstArrayOpt(cl, rd) ==
    LET cells   == Contents(rd.a)
        matches == SelectSeq([i \in 1..Len(cells) |-> i],
                             LAMBDA i : cells[i] = cl.v)
        MayBe(res, i) ==
            Create("Or", res, Create("Eq", Left(rd), Const(i - 1, Left(rd).w)))
    IN  IF ~IsConstantArray(rd.a) \/ rd.ul # <<>> \/ Len(matches) > MaxMatches
        THEN EqCreate(cl, rd)
        ELSE FoldLeft(MayBe, Const(0, Bool), matches)

\* cl == extension of a: cl must be one of the values the extension reaches.
EqExtension(cl, r, Extend(_, _)) ==
    LET src == Left(r)  trunc == Const(cl.v, src.w) IN
    IF cl = Extend(trunc, cl.w) THEN Create("Eq", src, trunc) ELSE Const(0, Bool)

EqCreatePartialR(cl, r) ==
    CASE cl.w = Bool /\ cl.v = 1 -> r
      [] cl.w = Bool /\ cl.v = 0 /\ ConstLeft(r, "Eq") /\ IsFalse(Left(r)) ->
            Right(r)
      [] cl.w = Bool /\ cl.v = 0 /\ r.k = "Or" ->
            Create("And", IsZero(Left(r)), IsZero(Right(r)))
      [] cl.w # Bool /\ r.k = "SExt" -> EqExtension(cl, r, SExtCreate)
      [] cl.w # Bool /\ r.k = "ZExt" -> EqExtension(cl, r, ZExtCreate)
      [] cl.w # Bool /\ ConstLeft(r, "Add") ->
            EqCreatePartialR(Create("Sub", cl, Left(r)), Right(r))
      [] cl.w # Bool /\ ConstLeft(r, "Sub") ->
            EqCreatePartialR(Create("Sub", Left(r), cl), Right(r))
      [] cl.w # Bool /\ r.k = "Read" /\ ConstArrayOpt -> TryConstArrayOpt(cl, r)
      [] OTHER -> EqCreate(cl, r)

OrderCreate(k, l, r) ==
    CASE l.w # Bool -> Alloc(k, l, r)
      [] l.w = Bool /\ k = "Ult" -> Create("And", IsZero(l), r)
      [] l.w = Bool /\ k = "Ule" -> Create("Or", IsZero(l), r)
      [] l.w = Bool /\ k = "Slt" -> Create("And", l, IsZero(r))
      [] l.w = Bool /\ k = "Sle" -> Create("Or", l, IsZero(r))

Mirrored == [Ugt |-> "Ult", Uge |-> "Ule", Sgt |-> "Slt", Sge |-> "Sle"]

-----------------------------------------------------------------------------
(* The dispatch of BCREATE_R, BCREATE, CMPCREATE and CMPCREATE_T.  The     *)
(* constant cl stands on the side named; only Sub asks which.              *)

PartialR(k, cl, r, side) ==
    CASE k = "Add" -> AddCreatePartialR(cl, r)
      [] k = "Sub" /\ side = "left"  -> SubCreatePartialR(cl, r)
      [] k = "Sub" /\ side = "right" -> SubCreatePartial(r, cl)
      [] k = "Mul" -> MulCreatePartialR(cl, r)
      [] k = "And" -> AndCreatePartial(r, cl)
      [] k = "Or"  -> OrCreatePartial(r, cl)
      [] k = "Xor" -> XorCreatePartialR(cl, r)
      [] k = "Eq"  -> EqCreatePartialR(cl, r)

Full(k, l, r) ==
    CASE k = "Add" -> AddCreate(l, r)
      [] k = "Sub" -> SubCreate(l, r)
      [] k = "Mul" -> MulCreate(l, r)
      [] k = "Eq"  -> EqCreate(l, r)
      [] k \in {"And", "Or", "Xor"} -> Alloc(k, l, r)
      [] k \in {"UDiv", "SDiv", "URem", "SRem"} -> DivCreate(k, l, r)
      [] k \in {"Shl", "LShr", "AShr"} -> ShiftCreate(k, l, r)
      [] k \in {"Ult", "Ule", "Slt", "Sle"} -> OrderCreate(k, l, r)

HasPartial == {"Add", "Sub", "Mul", "And", "Or", "Xor", "Eq"}

Create(k, l, r) ==
    CASE k = "Ne" -> Create("Eq", Const(0, Bool), Create("Eq", l, r))
      [] k \in DOMAIN Mirrored -> Create(Mirrored[k], r, l)
      [] OTHER ->
            CASE IsConst(l) /\ IsConst(r) -> FoldConst(k, l, r)
              [] IsConst(l) # IsConst(r) /\ k \in HasPartial ->
                    PartialR(k, IF IsConst(l) THEN l ELSE r,
                             IF IsConst(l) THEN r ELSE l,
                             IF IsConst(l) THEN "left" ELSE "right")
              [] OTHER -> Full(k, l, r)

-----------------------------------------------------------------------------
(* What the rest of the program takes for granted of a created expression. *)

\* No kind is left that the range evaluator, the printers and the solver
\* builders refuse; constants stand on the left of Eq, Add and Sub (where the
\* constraint manager and the implied value finder look for them) and on the
\* right of And and Or; booleans are never added, multiplied or ordered.
CanonicalNode(e) ==
    /\ e.k \notin {"Ne", "Ugt", "Uge", "Sgt", "Sge"}
    /\ e.k \in {"Eq", "Add", "Sub", "Mul", "Xor"} => ~IsConst(Right(e))
    /\ e.k \in {"And", "Or"} => ~IsConst(Left(e))
    /\ e.k \in {"Add", "Sub"} => ~(ConstLeft(e, e.k) /\ ConstLeft(Right(e), "Add"))
    /\ e.k \in {"Add", "Sub", "Mul", "UDiv", "SDiv", "URem", "SRem", "Shl",
                "LShr", "AShr", "Ult", "Ule", "Slt", "Sle"} => Left(e).w # Bool

Canonical(e) == \A n \in Nodes(e) : CanonicalNode(n)
=============================================================================
