---------------------------- MODULE SolverTerms ----------------------------
(* The terms the three solver backends are given for an expression:        *)
(* STPBuilder, Z3Builder and MetaSMTBuilder.  A term is modelled by its    *)
(* value in the solver, so Construct(b, e, in) is what backend b takes the *)
(* expression to be on the input in; the solver's own operators (concat,   *)
(* extract, ite, add, ...) have their usual meaning.  The builders do not  *)
(* use the solvers' shifts, constant multiplications or divisions: they    *)
(* expand them, which is what this module spells out.                      *)
EXTENDS Constraints, FiniteSetsExt

CONSTANT DivBits     \* the width divisions by constants are expanded for: 32

Backends == {"stp", "z3", "metasmt"}

HasBit(x, i) == (x \div 2^i) % 2 = 1

\* The bits of x, an n-bit word, that are set.
Ones(x, n) == {i \in 0..n - 1 : HasBit(x, i)}

IsPowerOfTwo(x) == x # 0 /\ x & (x - 1) = 0

Log2Ceil(x, n) == Cardinality({i \in 0..n - 1 : 2^i < x})

-----------------------------------------------------------------------------
(* Multiplication by a constant x: shifts that are added and subtracted,   *)
(* one of each per run of ones in x.                                       *)

RECURSIVE Runs(_, _, _, _)
Runs(x, add, sub, n) ==
    IF x = 0 THEN [add |-> add, sub |-> sub]
    ELSE LET low    == Min(Ones(x, n))
             lowbit == 2^low
             p      == (x + lowbit) % 2^n
             high   == IF p = 0 THEN n ELSE Min(Ones(p, n))
             rest   == IF p = 0 THEN 0 ELSE p ^^ (2^high)
             below  == low > 0 /\ HasBit(add, low - 1)
         IN  IF high = low + 1 THEN Runs(rest, add | lowbit, sub, n)
             ELSE Runs(rest,
                       (IF below THEN add ^^ (2^(low - 1)) ELSE add)
                          | (IF high = n THEN 0 ELSE 2^high),
                       IF below THEN sub ^^ (2^(low - 1)) ELSE sub | lowbit,
                       n)

ComputeMultConstants(x, n) == Runs(x, 0, 0, n)

LeftShiftBy(x, w, s)  == IF s >= w THEN 0 ELSE ExtractBits(x, 0, w - s) * 2^s
RightShiftBy(x, w, s) == IF s >= w THEN 0 ELSE ExtractBits(x, s, w - s)

MulByConstant(x, w, by) ==
    LET c == ComputeMultConstants(by, 2 * DivBits)
        Total(bits) == MapThenSumSet(LAMBDA j : LeftShiftBy(x, w, j),
                                     Ones(bits % 2^w, 2 * DivBits))
    IN  (Total(c.add) - Total(c.sub)) % 2^w

-----------------------------------------------------------------------------
(* Division by a constant d: a multiplication of twice the width and two   *)
(* shifts, on words of DivBits bits.                                       *)

\* Mutant: the multiplier is rounded down.
RoundedDown(d) ==
    LET l == Log2Ceil(d, DivBits)
    IN  [mprime |-> (2^DivBits * (2^l - d)) \div d,
         sh1 |-> Min({l, 1}), sh2 |-> Max({l - 1, 0})]

ComputeUDivConstants(d) ==
    LET l == Log2Ceil(d, DivBits)
    IN  [mprime |-> (2^DivBits * (2^l - d)) \div d + 1,
         sh1 |-> Min({l, 1}), sh2 |-> Max({l - 1, 0})]

ComputeSDivConstants(d) ==      \* of the signed number d
    LET l == IF Abs(d) = 2^(DivBits - 1) THEN DivBits - 1
             ELSE Max({1, Log2Ceil(Abs(d), DivBits)})
        m == (2^DivBits * 2^(l - 1)) \div Abs(d) + 1
    IN  [mprime |-> Signed((m - 2^DivBits) % 2^DivBits, DivBits),
         dsign |-> IF d < 0 THEN 2^DivBits - 1 ELSE 0, shpost |-> l - 1]

UDivByConstant(n, d) ==
    LET c  == ComputeUDivConstants(d)
        t1 == MulByConstant(n, 2 * DivBits, c.mprime) \div 2^DivBits
        s1 == RightShiftBy((n - t1) % 2^DivBits, DivBits, c.sh1)
    IN  RightShiftBy((s1 + t1) % 2^DivBits, DivBits, c.sh2)

SDivByConstant(n, d) ==
    LET c      == ComputeSDivConstants(Signed(d, DivBits))
        wide   == 2 * DivBits
        mulsh  == MulByConstant(SignExtend(n, DivBits, wide), wide,
                                c.mprime % 2^wide) \div 2^DivBits
        npm    == SignExtend((n + mulsh) % 2^DivBits, DivBits, wide)
        shift  == ExtractBits(RightShiftBy(npm, wide, c.shpost), 0, DivBits)
        xsign  == IF HasBit(n, DivBits - 1) THEN 2^DivBits - 1 ELSE 0
        q0     == (shift - xsign) % 2^DivBits
    IN  ((q0 ^^ c.dsign) - c.dsign) % 2^DivBits

-----------------------------------------------------------------------------
(* Shifts: one case per amount, and zero beyond the width.  STP compares   *)
(* only the low bits of the amount.                                        *)

AShrByConstant(x, w, s) ==
    CASE s = 0 -> x
      [] s >= w -> 0
      [] OTHER -> (IF HasBit(x, w - 1) THEN (2^s - 1) * 2^(w - s) ELSE 0)
                     + RightShiftBy(x, w, s)

ConstShift(k, x, by, w) ==
    CASE k = "Shl"  -> LeftShiftBy(x, w, by)
      [] k = "LShr" -> RightShiftBy(x, w, by)
      [] k = "AShr" -> AShrByConstant(x, w, by)

ShiftBits(w) == Cardinality({i \in 0..w : 2^i <= w})

\* The amount is compared with every i below the width, its low bits only,
\* after a test that it is not beyond the width.
StpVarShift(k, x, amount, w) ==
    LET low == ExtractBits(amount, 0, ShiftBits(w)) IN
    IF amount < w THEN ConstShift(k, x, low, w) ELSE 0

Z3VarShift(k, x, amount, w) ==
    IF amount \in 0..w - 1 THEN ConstShift(k, x, amount, w) ELSE 0

\* The shifts of metaSMT, within the width.
MetaSmtVarShift(k, x, amount, w) ==
    IF amount < w THEN Apply(k, w, x, amount) ELSE 0

\* The amount is the expression r, of value y.
StpShift(k, x, r, y, w) ==
    IF IsConst(r) THEN ConstShift(k, x, r.v, w) ELSE StpVarShift(k, x, y, w)

Z3Shift(k, x, r, y, w) ==
    IF IsConst(r) THEN ConstShift(k, x, r.v, w) ELSE Z3VarShift(k, x, y, w)

MetaSmtShift(k, x, r, y, w) ==
    IF IsConst(r) THEN ConstShift(k, x, r.v, w) ELSE MetaSmtVarShift(k, x, y, w)

-----------------------------------------------------------------------------
(* Divisions.  The divisor is the expression r, of value y.  Only STP and  *)
(* metaSMT expand them, with optimizeDivides; nobody expands SRem.         *)

ByPowerOfTwo(r) == IsConst(r) /\ IsPowerOfTwo(r.v)
Expands(r)      == IsConst(r) /\ r.w = DivBits

UDivByShift(x, r) == RightShiftBy(x, r.w, Min(Ones(r.v, r.w)))
URemByMask(x, r)  == ExtractBits(x, 0, Min(Ones(r.v, r.w)))

URemByConstant(x, r) ==
    (x - MulByConstant(UDivByConstant(x, r.v), r.w, r.v)) % 2^r.w

StpDivide(k, x, r, y) ==
    CASE k = "UDiv" /\ ByPowerOfTwo(r) -> UDivByShift(x, r)
      [] k = "UDiv" /\ ~ByPowerOfTwo(r) /\ Expands(r) -> UDivByConstant(x, r.v)
      [] k = "SDiv" /\ Expands(r) /\ r.v # 1 /\ ~AllOnes(r) -> SDivByConstant(x, r.v)
      [] k = "URem" /\ ByPowerOfTwo(r) -> URemByMask(x, r)
      [] k = "URem" /\ ~ByPowerOfTwo(r) /\ Expands(r) -> URemByConstant(x, r)
      [] OTHER -> Apply(k, r.w, x, y)

Z3Divide(k, x, r, y) ==
    CASE k = "UDiv" /\ ByPowerOfTwo(r) -> UDivByShift(x, r)
      [] k = "URem" /\ ByPowerOfTwo(r) -> URemByMask(x, r)
      [] OTHER -> Apply(k, r.w, x, y)

\* The expansion of URem replaces the mask that was just built.
MetaSmtDivide(k, x, r, y) ==
    IF k = "URem" /\ Expands(r) THEN URemByConstant(x, r)
    ELSE StpDivide(k, x, r, y)

-----------------------------------------------------------------------------
(* constructActual.  c is the sequence of the values of e's operands.      *)

CastTerm(e, c) ==
    LET w == Left(e).w IN
    CASE e.k = "Concat"  -> c[1] * 2^Right(e).w + c[2]
      [] e.k = "Extract" -> ExtractBits(c[1], e.v, e.w)
      [] e.k = "ZExt"    -> c[1]
      [] e.k = "SExt" /\ w = Bool -> IF c[1] = 1 THEN 2^e.w - 1 ELSE 0
      [] e.k = "SExt" /\ w # Bool -> SignExtend(c[1], w, e.w)

BitwiseKinds == {"Not", "And", "Or", "Xor"}

\* An exclusive or of booleans is an if-then-else, but for metaSMT.
BitwiseTerm(e, c) ==
    CASE e.k = "Not" -> 2^e.w - 1 - c[1]
      [] e.k = "Xor" /\ e.w = Bool -> IF c[1] = 1 THEN 1 - c[2] ELSE c[2]
      [] OTHER -> Apply(e.k, e.w, c[1], c[2])

MetaSmtBitwise(e, c) ==
    IF e.k = "Not" THEN 2^e.w - 1 - c[1] ELSE Apply(e.k, e.w, c[1], c[2])

CompareTerm(e, c) ==
    IF e.k = "Eq" /\ Left(e).w = Bool /\ IsConst(Left(e))
    THEN (IF IsTrue(Left(e)) THEN c[2] ELSE 1 - c[2])
    ELSE Apply(e.k, Left(e).w, c[1], c[2])

ArithmeticTerm(e, c) == Apply(e.k, e.w, c[1], c[2])

SharedTerm(e, c) ==
    CASE e.k = "Constant"     -> e.v
      [] e.k = "NotOptimized" -> c[1]
      [] e.k = "Select"       -> IF c[1] = 1 THEN c[2] ELSE c[3]
      [] e.k \in {"Concat", "Extract", "ZExt", "SExt"} -> CastTerm(e, c)
      [] e.k \in BitwiseKinds -> BitwiseTerm(e, c)
      [] e.k \in Comparisons -> CompareTerm(e, c)
      [] OTHER -> ArithmeticTerm(e, c)

Divisions == {"UDiv", "SDiv", "URem", "SRem"}
Shifts    == {"Shl", "LShr", "AShr"}

StpTerm(e, c) ==
    LET x == c[1]  y == c[2]  r == Right(e) IN
    CASE e.k = "Mul" /\ IsConst(Left(e)) -> MulByConstant(y, e.w, Left(e).v)
      [] e.k \in Divisions -> StpDivide(e.k, x, r, y)
      [] e.k \in Shifts -> StpShift(e.k, x, r, y, e.w)
      [] OTHER -> SharedTerm(e, c)

Z3Term(e, c) ==
    LET x == c[1]  y == c[2]  r == Right(e) IN
    CASE e.k \in Divisions -> Z3Divide(e.k, x, r, y)
      [] e.k \in Shifts -> Z3Shift(e.k, x, r, y, e.w)
      [] OTHER -> SharedTerm(e, c)

MetaSmtTerm(e, c) ==
    LET x == c[1]  y == c[2]  r == Right(e) IN
    CASE e.k = "Mul" /\ IsConst(Left(e)) -> MulByConstant(y, e.w, Left(e).v)
      [] e.k \in Divisions -> MetaSmtDivide(e.k, x, r, y)
      [] e.k \in Shifts -> MetaSmtShift(e.k, x, r, y, e.w)
      [] e.k \in BitwiseKinds -> MetaSmtBitwise(e, c)
      [] OTHER -> SharedTerm(e, c)

RECURSIVE Construct(_, _, _)

\* getArrayForUpdate: the array with the writes of the list applied, oldest
\* first, to the initial array; constant arrays have their values written (or,
\* for Z3, asserted).
ArrayForUpdate(b, a, ul, in) ==
    LET cells == [i \in 0..2^ByteWidth - 1 |-> InitialValue(a, i, in)]
        Write(u, arr) == [arr EXCEPT ![Construct(b, u[1], in)] = Construct(b, u[2], in)]
    IN  FoldRight(Write, ul, cells)

Construct(b, e, in) ==
    LET c == [i \in 1..Len(e.kids) |-> Construct(b, e.kids[i], in)] IN
    CASE e.k = "Read" -> ArrayForUpdate(b, e.a, e.ul, in)[c[1]]
      [] e.k # "Read" /\ b = "stp" -> StpTerm(e, c)
      [] e.k # "Read" /\ b = "z3" -> Z3Term(e, c)
      [] e.k # "Read" /\ b = "metasmt" -> MetaSmtTerm(e, c)

\* The assertions of constructActual: arithmetic on booleans and the reversed
\* comparisons never reach a solver.
Accepted(e) ==
    \A n \in Nodes(e) :
        /\ n.k \notin {"Ne", "Ugt", "Uge", "Sgt", "Sge"}
        /\ n.k \in {"Add", "Sub", "Mul", "UDiv", "SDiv", "URem", "SRem",
                    "Shl", "LShr", "AShr", "Ult", "Ule", "Slt", "Sle"} =>
              Left(n).w # Bool
        /\ n.k = "ZExt" => n.w > Left(n).w

\* No arithmetic right shift of e goes beyond its width on this input.
WithinAShr(e, in) ==
    \A n \in Nodes(e) : n.k = "AShr" => Val(Right(n), in) < Left(n).w
=============================================================================
