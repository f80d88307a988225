---------------------------- MODULE Expressions ----------------------------
(* Symbolic expressions: the trees of lib/Expr and what they mean.         *)
(*                                                                         *)
(* An expression is a record: its kind, its width in bits, a number (the   *)
(* value of a constant, the offset of an extract), the array a read goes   *)
(* to, its children and, for a read, the update list of the array, most    *)
(* recent write first.  A byte has ByteWidth bits, so that TLC can go over *)
(* every content of every array.                                           *)
(*                                                                         *)
(* Val is the meaning every other module is checked against: the value of  *)
(* an expression once each array has been given its contents, which is     *)
(* what ExprEvaluator computes.  Arithmetic is that of llvm::APInt, on     *)
(* integers modulo 2^w.                                                    *)
EXTENDS BitVectors, Sequences, SequencesExt, FiniteSets

CONSTANTS
    ByteWidth,       \* bits of one array cell (8 in the code)
    Arrays,          \* the arrays expressions read
    ArraySize(_),    \* cells of an array
    Contents(_),     \* the values of a constant array, <<>> for a symbolic one
    NoArray          \* the array field of an expression that is no read

-----------------------------------------------------------------------------
(* The nodes, as the alloc functions of Expr.h build them.                 *)

Node(k, w, kids) ==
    [k |-> k, w |-> w, v |-> 0, a |-> NoArray, kids |-> kids, ul |-> <<>>]

Const(v, w) == [Node("Constant", w, <<>>) EXCEPT !.v = v % 2^w]

ReadAlloc(a, ul, index) ==
    [Node("Read", ByteWidth, <<index>>) EXCEPT !.a = a, !.ul = ul]

ExtractAlloc(e, off, w) == [Node("Extract", w, <<e>>) EXCEPT !.v = off]

Comparisons ==
    {"Eq", "Ne", "Ult", "Ule", "Ugt", "Uge", "Slt", "Sle", "Sgt", "Sge"}

Arithmetic == {"Add", "Sub", "Mul", "UDiv", "SDiv", "URem", "SRem",
               "And", "Or", "Xor", "Shl", "LShr", "AShr"}

ResultWidth(k, w) == IF k \in Comparisons THEN Bool ELSE w

Alloc(k, l, r) == Node(k, ResultWidth(k, l.w), <<l, r>>)

SelectAlloc(c, t, f) == Node("Select", t.w, <<c, t, f>>)

ConcatAlloc(l, r) == Node("Concat", l.w + r.w, <<l, r>>)

IsConst(e) == e.k = "Constant"
IsTrue(e)  == IsConst(e) /\ e.w = Bool /\ e.v = 1
IsFalse(e) == IsConst(e) /\ e.w = Bool /\ e.v = 0
AllOnes(e) == e.v = 2^e.w - 1
Left(e)    == e.kids[1]
Right(e)   == e.kids[2]

IsConstantArray(a) == Contents(a) # <<>>

-----------------------------------------------------------------------------
(* ConstantExpr.                                                           *)

FoldConst(k, l, r) == Const(Apply(k, l.w, l.v, r.v), ResultWidth(k, l.w))

ConcatConst(l, r) == Const(l.v * 2^r.w + r.v, l.w + r.w)

-----------------------------------------------------------------------------
(* Evaluation.  in[a][i] is the content of cell i of array a; a constant   *)
(* array has its own.                                                      *)

InitialValue(a, i, in) ==
    CASE i >= ArraySize(a) -> 0      \* any value: see Defined
      [] i < ArraySize(a) /\ IsConstantArray(a) -> Contents(a)[i + 1]
      [] i < ArraySize(a) /\ ~IsConstantArray(a) -> in[a][i]

RECURSIVE Val(_, _)

\* The first write whose index has the value of the read's, or the array.
ReadVal(a, ul, i, in) ==
    LET hit == SelectInSeq(ul, LAMBDA u : Val(u[1], in) = i) IN
    IF hit # 0 THEN Val(ul[hit][2], in) ELSE InitialValue(a, i, in)

Val(e, in) ==
    CASE e.k = "Constant"     -> e.v
      [] e.k = "NotOptimized" -> Val(Left(e), in)
      [] e.k = "Read"         -> ReadVal(e.a, e.ul, Val(Left(e), in), in)
      [] e.k = "Select"       -> IF Val(Left(e), in) = 1 THEN Val(Right(e), in)
                                 ELSE Val(e.kids[3], in)
      [] e.k = "Concat"  -> Val(Left(e), in) * 2^Right(e).w + Val(Right(e), in)
      [] e.k = "Extract" -> ExtractBits(Val(Left(e), in), e.v, e.w)
      [] e.k = "ZExt"    -> Val(Left(e), in)
      [] e.k = "SExt"    -> SignExtend(Val(Left(e), in), Left(e).w, e.w)
      [] e.k = "Not"     -> 2^e.w - 1 - Val(Left(e), in)
      [] OTHER -> Apply(e.k, Left(e).w, Val(Left(e), in), Val(Right(e), in))

\* getUpdates: a list without a root, over zeros, gets a constant array as its
\* root, with the concrete writes that are older than every other one.
GetUpdates(ul, size) ==
    LET Concrete(u) == IsConst(u[1]) /\ IsConst(u[2])
        Push(u, contents) == [contents EXCEPT ![u[1].v] = u[2].v]
        kept == SelectLastInSeq(ul, LAMBDA u : ~Concrete(u))
    IN  [contents |-> FoldRight(Push, SubSeq(ul, kept + 1, Len(ul)),
                                [i \in 0..size - 1 |-> 0]),
         ul |-> SubSeq(ul, 1, kept)]

\* Every read stays inside its array and no divisor is zero: what the bounds
\* check of memory operations and the division check add to a path.
RECURSIVE Defined(_, _)
Defined(e, in) ==
    /\ \A i \in 1..Len(e.kids) : Defined(e.kids[i], in)
    /\ \A i \in 1..Len(e.ul) : Defined(e.ul[i][1], in) /\ Defined(e.ul[i][2], in)
    /\ e.k = "Read" => /\ Val(Left(e), in) < ArraySize(e.a)
                       /\ \A i \in 1..Len(e.ul) :
                             Val(e.ul[i][1], in) < ArraySize(e.a)
    /\ e.k \in {"UDiv", "SDiv", "URem", "SRem"} => Val(Right(e), in) # 0

\* The contents the symbolic arrays can have.
Inputs ==
    LET Symbolic == {a \in Arrays : ~IsConstantArray(a)}
        Cells    == UNION {{<<a, i>> : i \in 0..ArraySize(a) - 1} : a \in Symbolic}
    IN  {[a \in Symbolic |-> [i \in 0..ArraySize(a) - 1 |-> f[<<a, i>>]]] :
            f \in [Cells -> 0..2^ByteWidth - 1]}

\* The expressions f and e have the same value wherever e is defined.
SameValue(e, f) ==
    \A in \in Inputs : Defined(e, in) => Val(e, in) = Val(f, in)

\* Every node of an expression, itself included.
RECURSIVE Nodes(_)
Nodes(e) ==
    {e} \cup UNION {Nodes(e.kids[i]) : i \in 1..Len(e.kids)}
        \cup UNION {Nodes(e.ul[i][1]) \cup Nodes(e.ul[i][2]) : i \in 1..Len(e.ul)}
=============================================================================
