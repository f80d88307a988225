------------------------------ MODULE FastCex ------------------------------
(* The fast counterexample solver (lib/Solver/FastCexSolver.cpp) and the   *)
(* range evaluator it uses (ExprRangeEvaluator.h): an incomplete solver    *)
(* that narrows a range of values for every array cell and, from these,    *)
(* either guesses an assignment or decides the query.                      *)
(*                                                                         *)
(* Ranges are pairs of machine words of RangeBits bits (64 in the code),   *)
(* whatever the width of the expression they are about.                    *)
EXTENDS Constraints

CONSTANT RangeBits

Word(x)  == x % 2^RangeBits
MaxOf(n) == 2^n - 1                              \* bits64::maxValueOfNBits
Rng(min, max) == [min |-> min, max |-> max]
Fixed(v) == Rng(v, v)
NoValue  == Rng(1, 0)
ByteRange == Rng(0, MaxOf(ByteWidth))

-----------------------------------------------------------------------------
(* Bounds of bitwise operations over ranges (Hacker's Delight).  The loops *)
(* go from the top bit m down and stop at the first that can be used.      *)

Bit(x, m)  == (x \div m) % 2 = 1
Up(x, m)   == (x \div m) * m + m                 \* (x | m) & -m, bit m clear
Down(x, m) == ((x - m) \div m) * m + m - 1       \* (x - m) | (m - 1), bit m set

Masks == {2^i : i \in 0..RangeBits - 1}

TopMask(Test(_)) ==
    LET ms == {m \in Masks : Test(m)} IN IF ms = {} THEN 0 ELSE Max(ms)

MinOR(a, b, c, d) ==
    LET m == TopMask(LAMBDA t : \/ ~Bit(a, t) /\ Bit(c, t) /\ Up(a, t) <= b
                                \/ Bit(a, t) /\ ~Bit(c, t) /\ Up(c, t) <= d)
    IN  CASE m = 0 -> a | c
          [] m # 0 /\ Bit(c, m) -> Up(a, m) | c
          [] m # 0 /\ ~Bit(c, m) -> a | Up(c, m)

\* Mutant: the greatest of each side.
OrOfMaxima(a, b, c, d) == b | d

MaxOR(a, b, c, d) ==
    LET m == TopMask(LAMBDA t : /\ Bit(b, t) /\ Bit(d, t)
                                /\ Down(b, t) >= a \/ Down(d, t) >= c)
    IN  CASE m = 0 -> b | d
          [] m # 0 /\ Down(b, m) >= a -> Down(b, m) | d
          [] m # 0 /\ Down(b, m) < a -> b | Down(d, m)

MinAND(a, b, c, d) ==
    LET m == TopMask(LAMBDA t : /\ ~Bit(a, t) /\ ~Bit(c, t)
                                /\ Up(a, t) <= b \/ Up(c, t) <= d)
    IN  CASE m = 0 -> a & c
          [] m # 0 /\ Up(a, m) <= b -> Up(a, m) & c
          [] m # 0 /\ Up(a, m) > b -> a & Up(c, m)

MaxAND(a, b, c, d) ==
    LET m == TopMask(LAMBDA t : \/ Bit(b, t) /\ ~Bit(d, t) /\ Down(b, t) >= a
                                \/ ~Bit(b, t) /\ Bit(d, t) /\ Down(d, t) >= c)
    IN  CASE m = 0 -> b & d
          [] m # 0 /\ Bit(b, m) -> Down(b, m) & d
          [] m # 0 /\ ~Bit(b, m) -> b & Down(d, m)

-----------------------------------------------------------------------------
(* ValueRange                                                              *)

IsEmpty(r) == r.min > r.max
IsFixed(r) == r.min = r.max

Intersection(r, s) == Rng(Max({r.min, s.min}), Min({r.max, s.max}))
Hull(r, s)         == Rng(Min({r.min, s.min}), Max({r.max, s.max}))

\* set_difference keeps one range, the lower one when two are left.
Difference(r, s) ==
    CASE IsEmpty(s) \/ s.min > r.max \/ s.max < r.min -> r
      [] ~IsEmpty(s) /\ s.min <= r.min /\ s.max >= r.max -> NoValue
      [] ~IsEmpty(s) /\ s.min <= r.min /\ r.min <= s.max /\ s.max < r.max ->
            Rng(s.max + 1, r.max)
      [] OTHER -> Rng(r.min, s.min - 1)

AndRange(r, s) == Rng(MinAND(r.min, r.max, s.min, s.max),
                      MaxAND(r.min, r.max, s.min, s.max))

OrRange(r, s) == Rng(MinOR(r.min, r.max, s.min, s.max),
                     MaxOR(r.min, r.max, s.min, s.max))

\* Up to the next power of two above both.
XorRange(r, s) ==
    IF IsFixed(r) /\ IsFixed(s) THEN Fixed(r.min ^^ s.min)
    ELSE LET t == TopMask(LAMBDA m : Bit(r.max | s.max, m))
         IN  Rng(0, Word(2 * t - 1))

ShiftLeft(r, n)  == Rng(Word(r.min * 2^n), Word(r.max * 2^n))
ShiftRight(r, n) == Rng(r.min \div 2^n, r.max \div 2^n)

ExtractRange(r, low, high) ==
    AndRange(ShiftRight(r, low), Fixed(MaxOf(high - low)))

MustEqual(r, s) == IsFixed(r) /\ IsFixed(s) /\ r.min = s.min
MayEqual(r, s)  == ~IsEmpty(Intersection(r, s))

MinSigned(r, w) == IF r.max >= 2^(w - 1) THEN -2^(w - 1) ELSE r.min

MaxSigned(r, w) ==
    IF r.min < 2^(w - 1) /\ r.max >= 2^(w - 1) THEN 2^(w - 1) - 1
    ELSE Signed(r.max, w)

-----------------------------------------------------------------------------
(* ExprRangeEvaluator, with CexRangeEvaluator's initial values.            *)

RECURSIVE RangeOf(_)

InitialReadRange(a, index) ==
    IF IsConstantArray(a) /\ IsFixed(index) /\ index.min < ArraySize(a)
    THEN Fixed(Contents(a)[index.min + 1]) ELSE ByteRange

\* res joins the values of the writes that may be read; it stops at one that
\* must be, or once nothing is excluded any more.
RECURSIVE ReadRange(_, _, _, _)
ReadRange(a, ul, index, res) ==
    IF ul = <<>> THEN Hull(res, InitialReadRange(a, index))
    ELSE LET ui  == RangeOf(ul[1][1])
             new == Hull(res, RangeOf(ul[1][2]))
         IN  CASE MustEqual(ui, index) -> new
               [] ~MustEqual(ui, index) /\ MayEqual(ui, index) ->
                    IF new = ByteRange THEN new
                    ELSE ReadRange(a, Tail(ul), index, new)
               [] OTHER -> ReadRange(a, Tail(ul), index, res)

\* The verdict of a comparison that one bound decides, else unknown.
Decided(yes, no) ==
    IF yes THEN Fixed(1) ELSE IF no THEN Fixed(0) ELSE Rng(0, 1)

\* The shift is by a byte, however wide the second operand is.
ConcatRange(l, r) == OrRange(ShiftLeft(l, ByteWidth), r)

RangeOf(e) ==
    LET l == RangeOf(Left(e))  r == RangeOf(Right(e))  w == Left(e).w IN
    CASE IsConst(e)     -> Fixed(e.v)
      [] e.k = "Read"   -> ReadRange(e.a, e.ul, l, NoValue)
      [] e.k = "Select" ->
            CASE MustEqual(l, Fixed(1)) -> r
              [] MustEqual(l, Fixed(0)) -> RangeOf(e.kids[3])
              [] OTHER -> Hull(r, RangeOf(e.kids[3]))
      [] e.k = "Concat" -> ConcatRange(ConcatRange(Fixed(0), l), r)
      [] e.k = "And"    -> AndRange(l, r)
      [] e.k = "Or"     -> OrRange(l, r)
      [] e.k = "Xor"    -> XorRange(l, r)
      [] e.k = "Eq"     -> Decided(MustEqual(l, r), ~MayEqual(l, r))
      [] e.k = "Ult"    -> Decided(l.max < r.min, l.min >= r.max)
      [] e.k = "Ule"    -> Decided(l.max <= r.min, l.min > r.max)
      [] e.k = "Slt"    -> Decided(MaxSigned(l, w) < MinSigned(r, w),
                                   MinSigned(l, w) >= MaxSigned(r, w))
      [] e.k = "Sle"    -> Decided(MaxSigned(l, w) <= MinSigned(r, w),
                                   MinSigned(l, w) > MaxSigned(r, w))
      [] OTHER -> Rng(0, MaxOf(e.w))

-----------------------------------------------------------------------------
(* CexData: for every cell a range of possible values, a guess, and one of *)
(* exact values, which every solution lies in.  ok turns false when an     *)
(* assertion of the code fails.                                            *)

AllBytes == [a \in Arrays |-> [i \in 0..ArraySize(a) - 1 |-> ByteRange]]

InitialData == [possible |-> AllBytes, exact |-> AllBytes, ok |-> TRUE]

Aborted(cd) == [cd EXCEPT !.ok = FALSE]

SetPossible(cd, a, i, r) == [cd EXCEPT !.possible[a][i] = r]

\* A fixed range replaces the cell's, even if they conflict; another one
\* narrows it, unless nothing would be left.
PossibleRead(cd, e, r) ==
    LET i == Left(e).v
        both == Intersection(cd.possible[e.a][i], r)
    IN  CASE ~IsConst(Left(e)) -> cd
          [] IsConst(Left(e)) /\ i >= ArraySize(e.a) -> cd
          [] IsConst(Left(e)) /\ i < ArraySize(e.a) /\ IsFixed(r) ->
                SetPossible(cd, e.a, i, Fixed(r.min % 2^ByteWidth))
          [] OTHER -> IF IsEmpty(both) THEN cd ELSE SetPossible(cd, e.a, i, both)

\* The ranges of e's right operand that the order between e's operands asks
\* for: yes when the comparison is to hold, no when it is not.
OrderRange(k, side, v, holds, w) ==
    CASE k = "Ult" /\ side = "right" ->
            IF holds THEN Rng(Word(v + 1), MaxOf(w)) ELSE Rng(0, v)
      [] k = "Ult" /\ side = "left" ->
            IF holds THEN Rng(0, Word(v - 1)) ELSE Rng(v, MaxOf(w))
      [] k = "Ule" /\ side = "right" ->
            IF holds THEN Rng(v, MaxOf(w)) ELSE Rng(0, Word(v - 1))
      [] k = "Ule" /\ side = "left" ->
            IF holds THEN Rng(0, v) ELSE Rng(Word(v + 1), MaxOf(w))

RECURSIVE Possible(_, _, _)         \* propogatePossibleValues

PossibleIf(test, cd, e, v) == IF test THEN Possible(cd, e, Fixed(v)) ELSE cd

\* A boolean And (Or) forced to its strong value v forces both operands; one
\* forced to the other value tries the left one, then the right one.  Here
\* and below l and r are the ranges of the operands.
PossibleJunction(cd, e, v, strong, l, r) ==
    LET both == PossibleIf(~MustEqual(r, Fixed(v)),
                           PossibleIf(~MustEqual(l, Fixed(v)), cd, Left(e), v),
                           Right(e), v)
        some == PossibleIf(~MustEqual(l, Fixed(1)),
                           Possible(cd, Left(e), Fixed(v)), Right(e), v)
    IN  CASE v = strong -> both
          [] v # strong /\ (MustEqual(l, Fixed(v)) \/ MustEqual(r, Fixed(v))) -> cd
          [] OTHER -> some

PossibleOrder(cd, e, holds, l, r) ==
    LET w == Right(e).w IN
    CASE IsFixed(l) ->
            Possible(cd, Right(e), OrderRange(e.k, "right", l.min, holds, w))
      [] ~IsFixed(l) /\ IsFixed(r) ->
            Possible(cd, Left(e), OrderRange(e.k, "left", r.min, holds, w))
      [] OTHER -> cd

\* binaryAnd asserts that its operands are not empty.
PossibleConcat(cd, e, r) ==
    LET w == Right(e).w IN
    IF IsEmpty(ShiftRight(r, w)) \/ IsEmpty(r) THEN Aborted(cd)
    ELSE Possible(Possible(cd, Left(e), ExtractRange(r, w, w + w)),
                  Right(e), ExtractRange(r, 0, w))

PossibleSExt(cd, e, r) ==
    LET in  == Left(e).w
        out == Difference(r, Rng(2^(in - 1), MaxOf(e.w) - MaxOf(in - 1) - 1))
    IN  IF IsEmpty(out) THEN Aborted(cd)
        ELSE Possible(cd, Left(e), AndRange(out, Fixed(MaxOf(in))))

PossibleAdd(cd, e, r) ==
    LET n == Rng((r.min - Left(e).v) % 2^e.w, (r.max - Left(e).v) % 2^e.w) IN
    IF ~IsConst(Left(e)) \/ IsEmpty(r) \/ IsEmpty(n) THEN cd
    ELSE Possible(cd, Right(e), n)

PossibleEq(cd, e, holds) ==
    LET v == Left(e).v IN
    CASE ~IsConst(Left(e)) -> cd
      [] IsConst(Left(e)) /\ holds -> Possible(cd, Right(e), Fixed(v))
      [] IsConst(Left(e)) /\ ~holds ->
            Possible(cd, Right(e),
                     IF v = 0 THEN Rng(1, MaxOf(Left(e).w)) ELSE Rng(0, v - 1))

PossibleNode(cd, e, v, l, r) ==
    CASE e.k = "Read" -> PossibleRead(cd, e, v)
      [] e.k = "Select" ->
            IF ~IsFixed(l)
            THEN Possible(Possible(cd, Right(e), v), e.kids[3], v)
            ELSE Possible(cd, IF l.min # 0 THEN Right(e) ELSE e.kids[3], v)
      [] e.k = "Concat" -> PossibleConcat(cd, e, v)
      [] e.k = "ZExt" ->
            Possible(cd, Left(e), Intersection(v, Rng(0, MaxOf(Left(e).w))))
      [] e.k = "SExt" -> PossibleSExt(cd, e, v)
      [] e.k = "Add" -> PossibleAdd(cd, e, v)
      [] e.k \in {"And", "Or"} /\ e.w = Bool /\ IsFixed(v) ->
            PossibleJunction(cd, e, v.min, IF e.k = "And" THEN 1 ELSE 0, l, r)
      [] e.k = "Eq" /\ IsFixed(v) -> PossibleEq(cd, e, v.min # 0)
      [] e.k = "Not" /\ e.w = Bool /\ IsFixed(v) ->
            Possible(cd, Left(e), Fixed(1 - v.min))
      [] e.k \in {"Ult", "Ule"} /\ IsFixed(v) ->
            PossibleOrder(cd, e, v.min # 0, l, r)
      [] OTHER -> cd

Possible(cd, e, v) ==
    PossibleNode(cd, e, v, RangeOf(Left(e)), RangeOf(Right(e)))

-----------------------------------------------------------------------------
(* propogateExactValues: only what every solution must satisfy.            *)

RECURSIVE Exact(_, _, _)

\* The cell's exact range is narrowed; both sides assert that the new bound
\* is inside the old range.
NarrowExact(cd, a, i, r) ==
    LET c == cd.exact[a][i]
        low  == IF r.min > c.min THEN Rng(r.min, c.max) ELSE c
        high == IF r.max < low.max THEN Rng(low.min, r.max) ELSE low
    IN  IF IsEmpty(r) \/ (r.min > c.min /\ r.min > c.max)
           \/ (r.max < low.max /\ r.max < low.min)
        THEN Aborted(cd) ELSE [cd EXCEPT !.exact[a][i] = high]

\* Writes that cannot be read are passed over; one that must be takes the
\* range, one that may be ends the search.
ExactRead(cd, e, r, index, written) ==
    LET stop == SelectInSeq(written, LAMBDA ui : MayEqual(ui, index))
        u    == e.ul[stop]
    IN  CASE stop # 0 ->
                IF MustEqual(written[stop], index) \/ Left(e) = u[1]
                THEN Exact(cd, u[2], r) ELSE cd
          [] stop = 0 /\ IsFixed(index) /\ ~IsConstantArray(e.a) ->
                NarrowExact(cd, e.a, index.min, r)
          [] OTHER -> cd

ExactEq(cd, e, holds) ==
    CASE IsConst(Left(e)) /\ holds -> Exact(cd, Right(e), Fixed(Left(e).v))
      [] IsConst(Left(e)) /\ ~holds /\ Right(e).w = Bool ->
            Exact(cd, Right(e), Fixed(1 - Left(e).v))
      [] OTHER -> cd

Exact(cd, e, r) ==
    CASE e.k = "Read" ->
            ExactRead(cd, e, r, RangeOf(Left(e)),
                      [i \in 1..Len(e.ul) |-> RangeOf(e.ul[i][1])])
      [] e.k = "Eq" /\ IsFixed(r) -> ExactEq(cd, e, r.min # 0)
      [] e.k = "Not" /\ e.w = Bool /\ IsFixed(r) ->
            Exact(cd, Left(e), Fixed(1 - r.min))
      [] OTHER -> cd

-----------------------------------------------------------------------------
(* The solver.  A query is a sequence of constraints and an expression.    *)

Propogate(cd, e, v) == Exact(Possible(cd, e, Fixed(v)), e, Fixed(v))

\* The middle of the possible range; the exact value where there is one.
PossibleCells(cd) ==
    [a \in Arrays |-> [i \in 0..ArraySize(a) - 1 |->
        LET r == cd.possible[a][i] IN r.min + (r.max - r.min) \div 2]]

ExactCells(cd) ==
    [a \in Arrays |-> [i \in 0..ArraySize(a) - 1 |->
        LET r == cd.exact[a][i] IN IF IsFixed(r) THEN r.min ELSE Null]]

\* goals pairs expressions with the value they are to have.
RECURSIVE PropogateAll(_, _)
PropogateAll(cd, goals) ==
    IF goals = <<>> THEN cd
    ELSE PropogateAll(Propogate(cd, goals[1][1], goals[1][2]), Tail(goals))

DataOf(constraints, e, checkExpr) ==
    PropogateAll(InitialData, [i \in 1..Len(constraints) |-> <<constraints[i], 1>>]
                              \o (IF checkExpr THEN << <<e, 0>> >> ELSE <<>>))

\* propogateValues: "valid", "invalid" with a satisfying assignment, or
\* "unknown".  known and guess evaluate the goals under the exact cells and
\* under the possible ones; the last goal is the expression, to be false.
Judged(ok, n, known, guess) ==
    LET checkExpr == Len(known) > n IN
    CASE ~ok -> "aborted"
      [] ok /\ (\/ checkExpr /\ IsTrue(known[n + 1])
                \/ \E i \in 1..n : IsFalse(known[i])) -> "valid"
      [] OTHER -> IF /\ checkExpr => IsFalse(guess[n + 1])
                     /\ \A i \in 1..n : IsTrue(guess[i])
                  THEN "invalid" ELSE "unknown"

EvaluateAll(es, cells) == [i \in 1..Len(es) |-> Evaluate(es[i], cells)]

PropogateValues(constraints, e, checkExpr, cd) ==
    LET es == IF checkExpr THEN Append(constraints, e) ELSE constraints IN
    Judged(cd.ok, Len(constraints), EvaluateAll(es, ExactCells(cd)),
           EvaluateAll(es, PossibleCells(cd)))

FastTruth(constraints, e) ==
    PropogateValues(constraints, e, TRUE, DataOf(constraints, e, TRUE))

\* The value of e under the guess, if the constraints hold under it.
ConstOrNull(e) == IF IsConst(e) THEN e ELSE Null

ValueIn(constraints, e, cd) ==
    IF PropogateValues(constraints, e, FALSE, cd) = "invalid"
    THEN ConstOrNull(Evaluate(e, PossibleCells(cd))) ELSE Null

FastValue(constraints, e) == ValueIn(constraints, e, DataOf(constraints, e, FALSE))

\* The cells a counterexample assigns.
CellsIn(constraints, e, cd) ==
    IF PropogateValues(constraints, e, TRUE, cd) = "invalid"
    THEN PossibleCells(cd) ELSE Null

FastInitialValues(constraints, e) ==
    CellsIn(constraints, e, DataOf(constraints, e, TRUE))
=============================================================================
