--------------------------- MODULE MCExpressions ---------------------------
(* A workload for the expression library.  One of four things happens in  *)
(* a behaviour:                                                            *)
(*   "build"  an expression is grown by calls of the create functions;     *)
(*   "path"   conditions are added to the constraints of a path, each one  *)
(*            satisfiable together with the earlier ones;                  *)
(*   "bits"   two ranges of words are combined bitwise;                    *)
(*   "divide" a word is divided by a constant.                             *)
EXTENDS FastCex, ExprBuilders, SolverTerms

CONSTANTS MaxCalls, MaxConstraints

VARIABLES
    mode,     \* which of the four
    expr,     \* "build": the expression the last call returned
    meant,    \* "build": the node it was asked for, nothing simplified
    call,     \* "build": the last call
    calls,    \* "build": calls made
    m,        \* "path": the constraint manager
    path,     \* "path": the inputs that satisfy every condition added
    bits,     \* "bits": the bounds of the two ranges
    word      \* "divide": dividend and divisor

vars == <<mode, expr, meant, call, calls, m, path, bits, word>>

-----------------------------------------------------------------------------
X(i)  == ReadAlloc("x", <<>>, Const(i, ByteWidth))
Two   == ByteWidth                       \* the width of a byte
IsZ   == Alloc("Eq", Const(0, Two), X(0))
Less  == Alloc("Ult", X(0), X(1))

Seeds  == {Const(2, Two), X(0), Less}
Leaves(w) ==
    CASE w = Bool -> {Const(0, Bool), Const(1, Bool)} \cup
                     (IF calls = 0 THEN {Less} ELSE {})
      [] w = Two  -> IF calls = 0
                     THEN {Const(0, Two), Const(3, Two)} \cup
                          (IF IsConst(expr) THEN {} ELSE {X(0), X(1)})
                     ELSE {Const(2, Two), X(0)}
      [] OTHER    -> {Const(5, w)}

UpdateLists ==
    {<<>>, << <<Const(1, Two), X(0)>> >>, << <<X(1), Const(3, Two)>> >>,
     << <<Const(0, Two), Const(2, Two)>>, <<X(0), X(1)>> >>}

NoCall == [f |-> "none"]

Divides(k) == k \in {"UDiv", "SDiv", "URem", "SRem"}

\* The call returned e; asked is the node it stands for.
Returns(c, asked, e) ==
    /\ mode = "build" /\ calls < MaxCalls
    /\ call' = c /\ meant' = asked /\ expr' = e /\ calls' = calls + 1
    /\ UNCHANGED <<mode, m, path, bits, word>>

\* After the first call the kinds create mirrors are left out, and only Add
\* and Sub, which look into both operands, and comparisons with a constant
\* are tried both ways round.
Kinds == (Arithmetic \cup Comparisons) \
         (IF calls = 0 THEN {} ELSE {"Ne"} \cup DOMAIN Mirrored)

CallBinary ==
    \E k \in Kinds, leaf \in Leaves(expr.w),
       flip \in BOOLEAN :
        LET l == IF flip THEN leaf ELSE expr
            r == IF flip THEN expr ELSE leaf
        IN  /\ ~(Divides(k) /\ IsConst(r) /\ r.v = 0)
            /\ flip => \/ calls = 0 \/ k \in {"Add", "Sub"}
                       \/ IsConst(leaf) /\ k \in Comparisons
            /\ Returns([f |-> "binary", k |-> k, l |-> l, r |-> r],
                       Alloc(k, l, r), Create(k, l, r))

CallSelect ==
    \E leaf \in Leaves(expr.w), flip \in BOOLEAN :
        LET t == IF flip THEN leaf ELSE expr
            f == IF flip THEN expr ELSE leaf
            c == IF expr.w = Bool THEN IsZ ELSE Less
        IN  Returns([f |-> "select", c |-> c, l |-> t, r |-> f],
                    SelectAlloc(c, t, f), SelectCreate(c, t, f))

CallChoose ==        \* the expression as the condition of a select
    /\ expr.w = Bool
    /\ \E t \in Leaves(Two), f \in Leaves(Two) :
         Returns([f |-> "select", c |-> expr, l |-> t, r |-> f],
                 SelectAlloc(expr, t, f), SelectCreate(expr, t, f))

CallConcat ==
    \E leaf \in Leaves(Two), flip \in BOOLEAN :
        LET l == IF flip THEN leaf ELSE expr
            r == IF flip THEN expr ELSE leaf
        IN  /\ expr.w # Bool /\ l.w + r.w <= 6
            /\ Returns([f |-> "concat", l |-> l, r |-> r],
                       ConcatAlloc(l, r), ConcatCreate(l, r))

CallExtract ==
    \E off \in 0..expr.w - 1, w \in 1..expr.w :
        /\ off + w <= expr.w
        /\ Returns([f |-> "extract", off |-> off, w |-> w, e |-> expr],
                   ExtractAlloc(expr, off, w), ExtractCreate(expr, off, w))

CallExt ==
    \E k \in {"ZExt", "SExt"}, w \in {2 * Two} :
        /\ w > expr.w
        /\ Returns([f |-> "ext", k |-> k, w |-> w, e |-> expr],
                   Node(k, w, <<expr>>),
                   IF k = "ZExt" THEN ZExtCreate(expr, w) ELSE SExtCreate(expr, w))

CallNot ==
    Returns([f |-> "not", e |-> expr], Node("Not", expr.w, <<expr>>), NotCreate(expr))

CallRead ==
    /\ expr.w = Two
    /\ \E a \in Arrays, ul \in UpdateLists :
         /\ IsConst(expr) => expr.v < ArraySize(a)
         /\ Returns([f |-> "read", a |-> a, ul |-> ul, e |-> expr],
                    ReadAlloc(a, ul, expr), ReadCreate(a, ul, expr))

-----------------------------------------------------------------------------
(* Conditions of a path.                                                   *)

Conditions ==
    LET eq(e, v) == Create("Eq", e, Const(v, e.w))
        pair == ConcatCreateN(<<X(1), X(0)>>)
        inside(i, e) == Create("And", Create("Ult", i, Const(2, Two)), e)
    IN  {eq(X(0), 0), eq(X(0), 2),
         Create("Ne", X(0), X(1)), Create("Eq", X(0), X(1)), Less,
         Create("Ule", X(1), Const(2, Two)),
         eq(pair, 6), Create("Ult", pair, Const(9, 4)),
         eq(Create("Add", X(0), X(1)), 3),
         inside(X(1), Create("Eq", X(0), ReadCreate("t", <<>>, X(1)))),
         inside(X(1), eq(ReadCreate("x", << <<X(1), Const(3, Two)>> >>,
                                    Const(0, Two)), 3)),
         eq(ZExtCreate(X(1), 4), 1),
         Create("Slt", SExtCreate(X(0), 4), Const(1, 4)),
         Implies(eq(X(0), 1), eq(X(1), 1)),
         eq(Create("Or", X(0), Create("Add", X(1), Const(1, Two))), 0),
         eq(SelectCreate(Less, Const(1, Two), Const(2, Two)), 1)}

Satisfying(e) == {in \in Inputs : Defined(e, in) /\ Val(e, in) = 1}

AddCondition ==
    /\ mode = "path" /\ Len(m.cs) < MaxConstraints
    /\ \E e \in Conditions :
         /\ path \cap Satisfying(e) # {}
         /\ path' = path \cap Satisfying(e)
         /\ m' = AddConstraint(m, e)
    /\ UNCHANGED <<mode, expr, meant, call, calls, bits, word>>

-----------------------------------------------------------------------------
Pairs == {p \in (0..7) \X (0..7) : p[1] <= p[2]}

Init ==
    /\ mode \in {"build", "path", "bits", "divide"}
    /\ expr \in IF mode = "build" THEN Seeds ELSE {Const(0, Bool)}
    /\ meant = expr /\ call = NoCall /\ calls = 0
    /\ m = [cs |-> <<>>, bad |-> FALSE] /\ path = Inputs
    /\ bits \in IF mode = "bits" THEN Pairs \X {<<0, 0>>} ELSE {<< <<0, 0>>, <<0, 0>> >>}
    /\ word \in IF mode = "divide" THEN (0..2^DivBits - 1) \X {0} ELSE {<<0, 0>>}

CombineRanges ==
    /\ mode = "bits" /\ bits[2] = <<0, 0>>
    /\ \E p \in Pairs : bits' = <<bits[1], p>>
    /\ UNCHANGED <<mode, expr, meant, call, calls, m, path, word>>

DivideWord ==
    /\ mode = "divide" /\ word[2] = 0
    /\ \E d \in 1..2^DivBits - 1 : word' = <<word[1], d>>
    /\ UNCHANGED <<mode, expr, meant, call, calls, m, path, bits>>

Next ==
    \/ CallBinary \/ CallSelect \/ CallChoose \/ CallConcat \/ CallExtract
    \/ CallExt \/ CallNot \/ CallRead
    \/ AddCondition \/ CombineRanges \/ DivideWord

Spec == Init /\ [][Next]_vars

-----------------------------------------------------------------------------
\* Every create function returns an expression with the value of the node it
\* was asked for, on every input for which reads are in bounds and divisors
\* not zero, and of the same width: no rewriting of Expr.cpp is wrong for
\* some width or some overflow.
CreateSound == expr.w = meant.w /\ SameValue(meant, expr)

\* What create returns is in the form the visitors, the constraint manager,
\* the implied value finder and the solvers look for.
CreateCanonical == calls > 0 => Canonical(expr)

BuiltBy(b) ==
    CASE call.f = "binary"  -> Build(b, call.k, call.l, call.r)
      [] call.f = "select"  -> BuildSelect(b, call.c, call.l, call.r)
      [] call.f = "concat"  -> BuildConcat(b, call.l, call.r)
      [] call.f = "extract" -> BuildExtract(b, call.e, call.off, call.w)
      [] call.f = "ext"     -> BuildExt(b, call.k, call.e, call.w)
      [] call.f = "not"     -> BuildNot(b, call.e)
      [] call.f = "read"    -> BuildRead(b, call.a, call.ul, call.e)
      [] OTHER -> meant

\* The three stacked builders agree with the node they are asked for, so
\* kleaver answers the query that was written whichever builder is chosen.
BuildersSound ==
    \A e \in {BuiltBy(b) : b \in Builders} : SameValue(meant, e) /\ e.w = meant.w

\* Partial evaluation keeps the value for every input that agrees with the
\* known cells, and leaves a constant when all of them are known.
EvaluatorSound ==
    LET cells(in) == [a \in Arrays |-> IF a \in DOMAIN in THEN in[a]
                                       ELSE [i \in 0..ArraySize(a) - 1 |-> Null]]
        defined == {in \in Inputs : Defined(expr, in)}
    IN  /\ \A in \in defined :
              Evaluate(expr, cells(in)) = Const(Val(expr, in), expr.w)
        /\ \A some \in {[cells(in) EXCEPT !["x"][1] = Null] : in \in defined} :
              LET e == Evaluate(expr, some) IN
              \A in \in {j \in defined : j["x"][0] = some["x"][0]} :
                  Val(e, in) = Val(expr, in)

\* The cells findReads names, all of an array read at a symbolic index, are
\* all an expression depends on: what the independence of constraints is
\* computed from.
ReadsComplete ==
    LET cells == UNION {IF IsConst(Left(r)) THEN {<<r.a, Left(r).v>>}
                        ELSE {r.a} \X (0..ArraySize(r.a) - 1)
                        : r \in FindReads(expr, TRUE)}
    IN  \A i \in {j \in 0..ArraySize("x") - 1 : <<"x", j>> \notin cells} :
            \A in \in Inputs :
                LET other == [in EXCEPT !["x"][i] = 0] IN
                Defined(expr, in) /\ Defined(expr, other) =>
                    Val(expr, in) = Val(expr, other)

\* The range of an expression contains its values, as long as no
\* concatenation has a second operand wider than a byte.
RangeSound ==
    (\A n \in Nodes(expr) : n.k = "Concat" => Right(n).w = ByteWidth) =>
        LET r == RangeOf(expr) IN
        \A in \in Inputs : Defined(expr, in) => Val(expr, in) \in r.min..r.max

\* The assignments that satisfy the constraints kept for a path are exactly
\* those that satisfy every condition added to it, however
\* often the constraints were rewritten with later equalities; the assertion against
\* adding a false constraint holds.
ConstraintsExact ==
    /\ ~m.bad
    /\ path = {in \in Inputs : Satisfies(in, m.cs)}

\* simplifyExpr keeps the value of an expression on the inputs of the path.
SimplifySound ==
    mode = "path" =>
        \A e \in Conditions, in \in path :
            Defined(e, in) => Val(SimplifyExpr(m.cs, e), in) = Val(e, in)

Preferences == {PreferCex(e) : e \in {X(1), IsZ, Less}}

\* The test case of a path is one of its inputs whatever the program prefers,
\* and a preference holds in it if it can hold together with the constraints,
\* which may be those of earlier preferences.
TestCaseSound ==
    mode = "path" =>
        \A p \in Preferences : \A n \in {Preferring(m, p)} :
            LET preferred == path \cap Satisfying(p) IN
            /\ ~n.bad
            /\ {in \in Inputs : Satisfies(in, n.cs)}
                  = IF preferred = {} THEN path ELSE preferred

\* What a condition that holds implies for a read is its value on every input
\* that satisfies the condition.  The exception is a condition with an Or:
\* of an Or that is zero getImpliedValues concludes that both operands are
\* the null reference, and gives it to a read or dereferences it.
ImpliedSound ==
    mode = "path" =>
        \A i \in 1..Len(m.cs) :
            LET r == GetImpliedValues(m.cs[i], Const(1, Bool))
                hasOr == \E n \in Nodes(m.cs[i]) : n.k = "Or"
            IN
            /\ r.ok \/ hasOr
            /\ \A p \in r.bound : \A in \in Inputs :
                  Val(m.cs[i], in) = 1 =>
                      IF p[2] = Null THEN hasOr ELSE Val(p[1], in) = p[2].v

Agrees(e, truth, cells, value) ==
    LET as(c) == [a \in {"x"} |-> c[a]] IN
    /\ truth = "valid" => \A in \in path : Defined(e, in) => Val(e, in) = 1
    /\ truth = "invalid" => as(cells) \in path /\ Val(e, as(cells)) = 0
    /\ value # Null => \E in \in path : Val(e, in) = value.v

\* The fast solver is right whenever it decides: a query it calls valid holds
\* on the whole path, a counterexample satisfies the constraints and falsifies
\* the query, and a value is one the expression has on the path.
FastSound ==
    mode = "path" =>
        \A e \in Conditions : Agrees(e, FastTruth(m.cs, e), FastInitialValues(m.cs, e),
                                     FastValue(m.cs, e))

\* The bounds computed for And and Or of two ranges are the least and the
\* greatest value that really occur.
BitBoundsExact ==
    mode = "bits" =>
        LET a == bits[1][1]  b == bits[1][2]  c == bits[2][1]  d == bits[2][2]
            ors  == {x | y : x \in a..b, y \in c..d}
            ands == {x & y : x \in a..b, y \in c..d}
        IN  /\ MinOR(a, b, c, d) = Min(ors)   /\ MaxOR(a, b, c, d) = Max(ors)
            /\ MinAND(a, b, c, d) = Min(ands) /\ MaxAND(a, b, c, d) = Max(ands)

\* Whatever backend is compiled in, the solver is given a term with the value
\* the expression has in an assignment, so the models it returns satisfy the
\* expressions; beyond the width an arithmetic shift is the exception.  The
\* builders' assertions against uncanonicalized expressions hold.
TermSound ==
    /\ calls > 0 => Accepted(expr)
    /\ \A in \in Inputs :
          Defined(expr, in) /\ WithinAShr(expr, in) =>
              \A b \in Backends : Construct(b, expr, in) = Val(expr, in)

\* Multiplication, division and remainder by shifts and adds are exact for
\* every dividend and every divisor, and the constants satisfy the assertions
\* of ConstantDivision.cpp and constructMulByConstant.
DivisionExact ==
    mode = "divide" /\ word[2] # 0 =>
        LET n == word[1]  d == word[2]
            c == ComputeMultConstants(n * 2^DivBits + d, 2 * DivBits)
        IN  /\ UDivByConstant(n, d) = n \div d
            /\ d \notin {1, 2^DivBits - 1} =>
                  SDivByConstant(n, d) = Apply("SDiv", DivBits, n, d)
            /\ (c.add - c.sub) % 2^(2 * DivBits) = n * 2^DivBits + d
            /\ c.add & c.sub = 0

\* What is written at indices of an object of two cells, concrete or not.
Writes == {<<Const(0, Two), Const(2, Two)>>, <<Const(1, Two), Const(3, Two)>>,
           <<Const(0, Two), X(1)>>, <<X(0), Const(1, Two)>>, <<X(0), X(1)>>}

\* The constant array that getUpdates creates for an object, with the writes
\* it leaves in the list, has the contents that all the writes had.
UpdatesKept ==
    mode = "build" /\ calls = 0 =>
        \A ul \in UNION {[1..n -> Writes] : n \in 0..3}, in \in Inputs :
            LET Put(u, cells) == [cells EXCEPT ![Val(u[1], in)] = Val(u[2], in)]
                made == GetUpdates(ul, 2)
            IN  in["x"][0] < 2 =>
                    FoldRight(Put, made.ul, made.contents)
                        = FoldRight(Put, ul, [i \in 0..1 |-> 0])

\* Building terms: Expr.cpp and the three builders keep the meaning and the
\* canonical form.
RewritingSound == CreateSound /\ CreateCanonical /\ BuildersSound

\* Reading terms: evaluation, ranges, the cells an expression depends on and
\* the arrays objects are read through.
EvaluationSound == EvaluatorSound /\ RangeSound /\ ReadsComplete /\ UpdatesKept

\* The constraints of a path, what is concluded from them (with the exception
\* of ImpliedSound) and the test cases they lead to.
PathSound == ConstraintsExact /\ SimplifySound /\ ImpliedSound /\ TestCaseSound

\* The fast solver and the bounds it computes with.
FastSolverSound == FastSound /\ BitBoundsExact

\* What the core solvers are given, division by constants included.
BackendsSound == TermSound /\ DivisionExact

-----------------------------------------------------------------------------
SizeOf(a) == 2
ContentsOf(a) == IF a = "t" THEN <<3, 1>> ELSE <<>>
=============================================================================
