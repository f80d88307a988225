---------------------------- MODULE Interpreter ----------------------------
(* The interpreter of Executor.cpp: executeInstruction and what it calls,  *)
(* running the module Prepare builds on a set of symbolic states.          *)
(*                                                                         *)
(* An expression is what it denotes: its width, whether it is a            *)
(* ConstantExpr, and its value on every input; the path of a state is the  *)
(* set of inputs that satisfy its constraints, and a query quantifies over *)
(* it.  What the solver may choose (getValue) is any choice.  Executor.tla *)
(* has the limits on forking and the process tree, AddressSpace.tla the    *)
(* sharing of objects: here a state owns its memory.                       *)
(*                                                                         *)
(* A handler returns the set of its possible results; a result is the set  *)
(* of states it leaves, each with end = "" when it goes on.  Inputs of the *)
(* state that are in none of them have been dropped.                       *)
EXTENDS Prepare

CONSTANTS
    Programs,      \* the programs, by name
    Small,         \* a symbolic size is first tried at most this (128)
    Huge,          \* malloc is taken to fail for symbolic sizes above this (2^31)
    MaxFrames,     \* RuntimeMaxStackFrames
    Options        \* [lower, flaky, maxSym]: switches are lowered, pointer
                   \* queries may time out, MaxSymArraySize (0 for none)

\* The host has no block that KLEE would call huge.
ASSUME HugeAssumption == Available <= Huge

VARIABLES
    program,   \* the name of the program
    opt,       \* the options
    km,        \* the program as prepared: the KModule
    states,    \* the states that run
    current,   \* the state the searcher selected, or none
    done,      \* how states ended
    marked,    \* objects marked global: isGlobal, which all states share
    assumed,   \* inputs klee_assume excluded
    dropped    \* inputs lost to concretization

vars == <<program, opt, km, states, current, done, marked, assumed, dropped>>

\* What the programs mean.
Meanings == [p \in DOMAIN Programs |-> [x \in Input |-> Meaning(Programs[p], x)]]

-----------------------------------------------------------------------------
(* Expressions.                                                            *)

Const(n, w) == [w |-> w, c |-> TRUE, at |-> [x \in Input |-> n % 2^w]]
Pointer(n)  == Const(n, Word)
Unbound     == Const(0, 0)

Unary(w, e, Op(_)) == [w |-> w, c |-> e.c, at |-> [x \in Input |-> Op(e.at[x])]]

Lift(w, l, r, Op(_, _)) ==
    [w |-> w, c |-> l.c /\ r.c, at |-> [x \in Input |-> Op(l.at[x], r.at[x])]]

BinaryExpr(k, w, l, r) == Lift(w, l, r, LAMBDA a, b : Apply(k, l.w, a, b))
AddExpr(l, r)       == Lift(l.w, l, r, LAMBDA a, b : (a + b) % 2^l.w)
MulExpr(l, r)       == Lift(l.w, l, r, LAMBDA a, b : (a * b) % 2^l.w)
EqExpr(l, r)        == Lift(Bool, l, r, LAMBDA a, b : Truth(a = b))
ExtractExpr(e, off, w) == Unary(w, e, LAMBDA a : ExtractBits(a, off, w))
ZExtExpr(e, w)      == Unary(w, e, LAMBDA a : a % 2^w)
SExtExpr(e, w)      == Unary(w, e, LAMBDA a : SignExtend(a, e.w, w))
ConcatExpr(h, l)    == Lift(h.w + l.w, h, l, LAMBDA a, b : a * 2^l.w + b)
SelectExpr(c, t, f) ==
    [w |-> t.w, c |-> IF c.c THEN (IF c.at[0] = 1 THEN t.c ELSE f.c) ELSE FALSE,
     at |-> [x \in Input |-> IF c.at[x] = 1 THEN t.at[x] ELSE f.at[x]]]

\* Division by zero has no value on inputs outside the path; none on it
\* once the checks have run.
DivExpr(k, l, r) ==
    Lift(l.w, l, r, LAMBDA a, b : IF b = 0 THEN 0 ELSE Apply(k, l.w, a, b))

Coerced(e, to, sext) ==
    CASE e.w = to -> e
      [] e.w # to /\ sext -> SExtExpr(e, to)
      [] e.w # to /\ ~sext -> ZExtExpr(e, to)

-----------------------------------------------------------------------------
(* States and queries.                                                     *)

Where(s, e)      == {x \in s.path : e.at[x] = 1}
MayBeTrue(s, e)  == Where(s, e) # {}
MustBeTrue(s, e) == Where(s, e) = s.path
Values(s, e)     == {e.at[x] : x \in s.path}         \* getValue

AddConstraint(s, e) == [s EXCEPT !.path = Where(s, e)]

Go(s)       == {{s}}
End(s, why) == {{[s EXCEPT !.end = why]}}
Crash(s)    == End(s, "crash")      \* an assert or klee_error: all states go
Astray(s)   == [s EXCEPT !.astray = TRUE]
None        == {{}}

\* The results of two handlers that work on different states.
Both(R, S) == {a \cup b : a \in R, b \in S}

Feasible(s) == s.path # {}

\* Mutant: the state that goes the other way is not constrained.
Unconstrained(s, t) == [s EXCEPT !.self = FALSE]

\* The other half of s when t took its part.
OtherWay(s, t) == [s EXCEPT !.path = @ \ t.path, !.self = @ /\ ~Feasible(t)]

\* Executor::fork: H on the inputs where e holds, G on the others.  The
\* state given goes the first way if it can; self marks it.
Fork(s, e, H(_), G(_)) ==
    LET t == AddConstraint(s, e)
        f == OtherWay(s, t)
    IN  Both(IF Feasible(t) THEN H(t) ELSE None, IF Feasible(f) THEN G(f) ELSE None)

\* The elements of a sequence, each where it is first met.
ToSeqOnce(q) == FoldLeft(LAMBDA r, e : IF Contains(r, e) THEN r ELSE Append(r, e), <<>>, q)

\* Executor::branch: one state for each condition, H(k, t) what happens under
\* the k-th.  The conditions exclude each other and each may hold.
Branch(s, conds, H(_, _)) ==
    FoldLeft(LAMBDA R, k : Both(R, H(k, [AddConstraint(s, conds[k]) EXCEPT !.self = k = 1])),
             None, [k \in 1..Len(conds) |-> k])

Top(s)  == Last(s.stack)
Inst_(pc) == km.functions[pc[1]].instructions[pc[2]]

\* Executor::eval: operand k, from 0, of an instruction.
Eval(ki, k, s) ==
    LET v == ki.operands[k + 1] IN
    IF v < 0
    THEN LET o == km.constants[-v - 2 + 1] IN Const(ConstValue(km, o), ConstWidth(o))
    ELSE Top(s).locals[v]

BindLocal(ki, s, e) == [s EXCEPT !.stack[Len(s.stack)].locals[ki.dest] = e]

\* toUnique: the constant an expression equals on the path, if there is one.
ToUnique(s, e) ==
    IF ~e.c /\ Cardinality(Values(s, e)) = 1
    THEN Const(CHOOSE v \in Values(s, e) : TRUE, e.w) ELSE e

Number(e) == e.at[0]       \* of a ConstantExpr

\* toConstant: some value is chosen and the path keeps only its inputs.
ToConstant(s, e) ==
    IF e.c THEN {[s |-> s, e |-> e]}
    ELSE {[s |-> [s EXCEPT !.path = {x \in @ : e.at[x] = v}], e |-> Const(v, e.w)] :
             v \in Values(s, e)}

-----------------------------------------------------------------------------
(* Objects: ObjectState read and write, MemoryObject's bounds checks.      *)

Object(size, cells, ro, kind) ==
    [size |-> size, cells |-> cells, ro |-> ro, kind |-> kind, born |-> Input]

ReadObject(s, o, off, w) ==
    LET n == Size(w)
        At(x) == FoldLeft(LAMBDA v, k :
                    v + o.cells[off.at[x] + k].at[x] * 2^(Byte * k),
                    0, [k \in 1..n |-> k - 1])
    IN  [w |-> w,
         c |-> off.c /\ \A k \in 0..n - 1 : o.cells[Number(off) + k].c,
         at |-> [x \in Input |-> IF x \in s.path THEN At(x) % 2^w ELSE 0]]

\* Byte k of e, or what was there where the write goes elsewhere.
WriteObject(s, o, off, e) ==
    LET n == Size(e.w)
        Cell(j) ==
            [w |-> Byte, c |-> IF off.c THEN (IF j - Number(off) \in 0..n - 1 THEN e.c
                                              ELSE o.cells[j].c)
                               ELSE FALSE,
             at |-> [x \in Input |->
                       IF x \in s.path /\ j - off.at[x] \in 0..n - 1
                       THEN ExtractBits(e.at[x], Byte * (j - off.at[x]), Byte)
                       ELSE o.cells[j].at[x]]]
    IN  [o EXCEPT !.cells = [j \in DOMAIN @ |-> Cell(j)]]

OffsetExpr(base, p) == Unary(Word, p, LAMBDA a : (a - base) % 2^Word)

BoundsCheckPointer(s, base, p) ==
    LET size == s.mem[base].size IN
    Unary(Bool, OffsetExpr(base, p), LAMBDA off :
        Truth(IF size = 0 THEN off = 0 ELSE off < size))

BoundsCheckBytes(s, base, p, n) ==
    LET size == s.mem[base].size IN
    Unary(Bool, OffsetExpr(base, p), LAMBDA off : Truth(n <= size /\ off < size - n + 1))

-----------------------------------------------------------------------------
(* AddressSpace::resolveOne and resolve.  A base of 0 is no object.        *)

\* lookup_previous: the last object at or below an address.
LookupPrevious(s, addr) ==
    LET below == {b \in DOMAIN s.mem : b <= addr} IN
    IF below = {} THEN 0 ELSE Max(below)

ResolveConst(s, addr) ==
    LET b == LookupPrevious(s, addr) IN
    IF b # 0 /\ (addr - b < s.mem[b].size \/ (s.mem[b].size = 0 /\ addr = b))
    THEN b ELSE 0

AllAtOrAbove(s, p, b) == \A a \in Values(s, p) : a >= b
AllBelow(s, p, b)     == \A a \in Values(s, p) : a < b
MayPointTo(s, p, b)   == MayBeTrue(s, BoundsCheckPointer(s, b, p))

\* From the example downwards until every address is at or above the object
\* just tried.
SearchBack(s, p, example) ==
    LET below == {b \in DOMAIN s.mem : b <= example}
        stop  == {b \in below : AllAtOrAbove(s, p, b)}
    IN  {b \in below : \A t \in stop : b >= t}

\* And upwards until every address is below the next one.
SearchForward(s, p, example) ==
    LET above == {b \in DOMAIN s.mem : b > example}
    IN  {b \in above : \A t \in above : t <= b => ~AllBelow(s, p, t)}

ResolveOneAt(s, p, example) ==
    LET b    == LookupPrevious(s, example)
        back == {t \in SearchBack(s, p, example) : MayPointTo(s, p, t)}
        forw == {t \in SearchForward(s, p, example) : MayPointTo(s, p, t)}
    IN  CASE b # 0 /\ example - b < s.mem[b].size -> b
          [] ~(b # 0 /\ example - b < s.mem[b].size) /\ back # {} -> Max(back)
          [] ~(b # 0 /\ example - b < s.mem[b].size) /\ back = {} /\ forw # {} -> Min(forw)
          [] OTHER -> 0

\* The objects it may find.
ResolveOne(s, p) ==
    IF p.c THEN {ResolveConst(s, Number(p))}
    ELSE {ResolveOneAt(s, p, e) : e \in Values(s, p)}

\* checkPointerInObject and the two loops of resolve: the objects in the
\* order they are met; the first one alone if the pointer cannot leave it.
ResolveAt(s, p, example) ==
    LET Hits(S) == {t \in S : MayPointTo(s, p, t)}
        hits == SetToSortSeq(Hits(SearchBack(s, p, example)), >)
                \o SetToSortSeq(Hits(SearchForward(s, p, example)), <)
    IN  IF hits # <<>> /\ MustBeTrue(s, BoundsCheckPointer(s, hits[1], p))
        THEN <<hits[1]>> ELSE hits

\* timed: the caller has set a solver timeout.
Resolve(s, p, timed) ==
    IF p.c
    THEN LET b == ResolveConst(s, Number(p)) IN
         {[incomplete |-> FALSE, rl |-> IF b = 0 THEN <<>> ELSE <<b>>]}
    ELSE UNION {LET rl == ResolveAt(s, p, e) IN
                {[incomplete |-> FALSE, rl |-> rl]} \cup
                (IF opt.flaky /\ timed
                 THEN {[incomplete |-> TRUE, rl |-> SubSeq(rl, 1, k)] :
                            k \in 0..Len(rl)}
                 ELSE {}) : e \in Values(s, p)}

\* The path is divided among the objects of rl, in order, by Holds(base);
\* miss is the end of the inputs of none of them.
Divide(s, rl, Holds(_), Hit(_, _), miss) ==
    LET RECURSIVE From(_, _)
        From(t, k) ==
            IF k > Len(rl) THEN End(t, miss)
            ELSE Fork(t, Holds(rl[k]), LAMBDA u : Hit(rl[k], u), LAMBDA u : From(u, k + 1))
    IN  From(s, 1)

\* For callers that look at the list rl as well.
ResolveExactList(s, p, Hit(_, _, _)) ==
    UNION {Divide(s, r.rl, LAMBDA b : EqExpr(p, Pointer(b)),
                  LAMBDA b, t : Hit(r.rl, b, t), "ptr") : r \in Resolve(s, p, FALSE)}

ResolveExact(s, p, Hit(_, _)) == ResolveExactList(s, p, LAMBDA rl, b, t : Hit(b, t))

-----------------------------------------------------------------------------
(* executeAlloc, executeFree, executeMemoryOperation, executeMakeSymbolic. *)

\* An address and the path it was allocated on tell MemoryObjects apart.
BindObject(s, base, o) ==
    LET t == [s EXCEPT !.mem = (base :> [o EXCEPT !.born = s.path]) @@ @] IN
    IF o.kind # "local" THEN t
    ELSE [t EXCEPT !.stack[Len(t.stack)].allocas = @ \cup {base}]

UnbindObjects(s, bases) == [s EXCEPT !.mem = [b \in DOMAIN @ \ bases |-> @[b]]]

\* MemoryManager::allocate: malloc gives fresh addresses, a byte apart, or none.
Fill(zero, n) == [j \in 0..n - 1 |-> Const(IF zero THEN 0 ELSE 2^Byte - 1, Byte)]

AllocConst(s, n, kind, ki, zero, from) ==
    LET new  == Fill(zero, n)
        kept == IF from = 0 THEN new
                ELSE [j \in DOMAIN new |->
                        IF j < s.mem[from].size THEN s.mem[from].cells[j] ELSE new[j]]
        t    == BindLocal(ki, BindObject([s EXCEPT !.brk = @ + n + 1], s.brk,
                                         Object(n, kept, FALSE, kind)),
                          Pointer(s.brk))
    IN  IF n > Available THEN Go(BindLocal(ki, s, Pointer(0)))
        ELSE Go(IF from = 0 THEN t ELSE UnbindObjects(t, {from}))

\* Halved while that is a possible size too.
RECURSIVE Shrink(_, _, _)
Shrink(s, size, example) ==
    IF example > Small /\ example \div 2 \in Values(s, size)
    THEN Shrink(s, size, example \div 2) ELSE example

ExecuteAlloc(s, size, kind, ki, zero, from) ==
    LET u == ToUnique(s, size)
        OtherSizes(f) ==
            IF Cardinality(Values(f, u)) = 1
            THEN AllocConst(f, CHOOSE n \in Values(f, u) : TRUE, kind, ki, zero, from)
            ELSE Fork(f, Unary(Bool, u, LAMBDA n : Truth(n > Huge)),
                      LAMBDA h : Go(BindLocal(ki, h, Pointer(0))),
                      LAMBDA h : End(h, "model"))
        Try(example) ==
            Fork(s, EqExpr(Const(example, u.w), u),
                 LAMBDA t : AllocConst(t, example, kind, ki, zero, from), OtherSizes)
    IN  IF u.c THEN AllocConst(s, Number(u), kind, ki, zero, from)
        ELSE UNION {Try(Shrink(s, u, e)) : e \in Values(s, u)}

\* target: the call's result is set to zero, as realloc(p, 0) does.  An object
\* may have been marked global by another state.
ExecuteFree(s, p, ki, target) ==
    LET Freed(t) == Go(IF target THEN BindLocal(ki, t, Pointer(0)) ELSE t)
        Hit(b, t) == CASE t.mem[b].kind \in {"local", "global"} -> End(t, "free")
                       [] t.mem[b].kind = "heap" /\ <<b, t.mem[b].born>> \in marked ->
                             End(Astray(t), "free")
                       [] OTHER -> Freed(UnbindObjects(t, {b}))
    IN  Fork(s, EqExpr(p, Pointer(0)), Freed, LAMBDA t : ResolveExact(t, p, Hit))

\* One object is read or written, the offset in its bounds.
Access(s, isWrite, b, p, value, ki) ==
    LET o == s.mem[b]  off == OffsetExpr(b, p) IN
    CASE isWrite /\ o.ro -> End(s, "readonly")
      [] isWrite /\ ~o.ro -> Go([s EXCEPT !.mem[b] = WriteObject(s, o, off, value)])
      [] ~isWrite -> Go(BindLocal(ki, s, ReadObject(s, o, off, ki.w)))

\* None or several objects, or one that the pointer may leave.
SlowAccess(s, isWrite, p, value, ki, n) ==
    UNION {Divide(s, r.rl, LAMBDA b : BoundsCheckBytes(s, b, p, n),
                  LAMBDA b, t : Access(t, isWrite, b, p, value, ki),
                  IF r.incomplete THEN "early" ELSE "ptr") :
              r \in Resolve(s, p, TRUE)}

\* The first part: one object, or none; after a timeout, and for an object of
\* MaxSymArraySize or more, the address is made concrete.
OneObject(s, p) ==
    LET Found(t, q) == {[s |-> t, p |-> q, b |-> b] : b \in ResolveOne(t, q)}
        Late == UNION {Found(c.s, c.e) : c \in ToConstant(s, p)}
        Big(b) == b # 0 /\ opt.maxSym # 0 /\ s.mem[b].size >= opt.maxSym
        Fixed(r) == IF ~Big(r.b) THEN {r}
                    ELSE {[s |-> c.s, p |-> c.e, b |-> r.b] : c \in ToConstant(r.s, r.p)}
    IN  UNION {Fixed(r) : r \in Found(s, p) \cup (IF opt.flaky THEN Late ELSE {})}

\* The query for the bounds may time out as well.
ExecuteMemoryOperation(s, isWrite, p, value, ki) ==
    LET n == Size(IF isWrite THEN value.w ELSE ki.w)
        Inside(r) == r.b # 0 /\ MustBeTrue(r.s, BoundsCheckBytes(r.s, r.b, r.p, n))
    IN  UNION {IF Inside(r) THEN Access(r.s, isWrite, r.b, r.p, value, ki)
               ELSE SlowAccess(r.s, isWrite, r.p, value, ki, n) : r \in OneObject(s, p)}
        \cup UNION {End(r.s, "early") :
                       r \in {q \in OneObject(s, p) : opt.flaky /\ q.b # 0 /\ ~q.p.c}}

\* The object gets a new array: the next bytes of the input.
ExecuteMakeSymbolic(s, b) ==
    LET n == s.mem[b].size
        Cell(j) == [w |-> Byte, c |-> FALSE,
                    at |-> [x \in Input |-> InputByte(x, s.nsym + j)]]
    IN  Go([s EXCEPT !.nsym = @ + n, !.mem[b].cells = [j \in 0..n - 1 |-> Cell(j)]])

-----------------------------------------------------------------------------
(* SpecialFunctionHandler.cpp.  Strings are not modelled: a message is any *)
(* pointer, and the kind of klee_report_error is its last argument.        *)

VoidSpecials ==
    {"abort", "exit", "__assert_fail", "klee_silent_exit", "klee_report_error", "free",
     "_ZdlPv", "klee_assume", "klee_check_memory_access", "klee_define_fixed_object",
     "klee_make_symbolic", "klee_mark_global"} \cup UbsanHandlers

IsZero(e) == EqExpr(e, Const(0, e.w))

HandleMemalign(s, ki, a) ==
    LET alignment == Min(Values(s, a[1])) IN
    IF ~PowerOfTwo(alignment) THEN Go(BindLocal(ki, s, Pointer(0)))
    ELSE ExecuteAlloc(s, a[2], "heap", ki, FALSE, 0)

HandleAssume(s, a) ==
    LET e == IsZero(IsZero(a[1])) IN
    IF ~MayBeTrue(s, e) THEN End(s, "user") ELSE Go(AddConstraint(s, e))

HandleIsSymbolic(s, ki, a) == Go(BindLocal(ki, s, Const(Truth(~a[1].c), ki.w)))

HandleGetObjSize(s, ki, a) ==
    ResolveExact(s, a[1], LAMBDA b, t : Go(BindLocal(ki, t, Const(t.mem[b].size, ki.w))))

HandleCalloc(s, ki, a) ==
    ExecuteAlloc(s, MulExpr(a[1], a[2]), "heap", ki, TRUE, 0)

HandleRealloc(s, ki, a) ==
    LET Move(b, t) == ExecuteAlloc(t, a[2], "heap", ki, FALSE, b)
        Resize(t)  == Fork(t, IsZero(a[1]),
                           LAMBDA u : ExecuteAlloc(u, a[2], "heap", ki, FALSE, 0),
                           LAMBDA u : ResolveExact(u, a[1], Move))
    IN  Fork(s, IsZero(a[2]), LAMBDA t : ExecuteFree(t, a[1], ki, TRUE), Resize)

HandleCheckMemoryAccess(s, a) ==
    LET p == ToUnique(s, a[1])  n == ToUnique(s, a[2])
        b == ResolveConst(s, Number(p))
    IN  CASE ~(p.c /\ n.c) -> End(s, "user")
          [] p.c /\ n.c /\ (b = 0 \/ Number(BoundsCheckBytes(s, b, p, Number(n))) = 0) ->
                End(s, "ptr")
          [] OTHER -> Go(s)

\* executeGetValue, without seeds: a value, and the path is not constrained.
HandleGetValue(s, ki, a) == UNION {Go(BindLocal(ki, s, Const(v, ki.w))) : v \in Values(s, a[1])}

\* allocateFixed: the new object may overlap none of any state.
HandleDefineFixedObject(s, a) ==
    LET addr == Number(a[1])  size == Number(a[2])
        Overlaps(t, b) == (addr + size) % 2^Word > b /\ addr < b + t.mem[b].size
    IN  IF \E t \in states : \E b \in DOMAIN t.mem : Overlaps(t, b) THEN Crash(s)
        ELSE Go(BindObject(s, addr, Object(size, Fill(FALSE, size), FALSE, "global")))

\* The loop returns at the first read-only object of the list: the states of
\* the objects after it go on, and theirs is not made symbolic.
HandleMakeSymbolic(s, a) ==
    LET May(b) == MayBeTrue(s, EqExpr(a[1], Pointer(b)))
        Right(t, b) == MustBeTrue(t, EqExpr(ZExtExpr(a[2], Word), Pointer(t.mem[b].size)))
        One(rl, b, t) ==
            LET before == {rl[k] : k \in 1..SelectInSeq(rl, LAMBDA c : c = b) - 1}
                returned == \E c \in before : s.mem[c].ro /\ May(c)
            IN  CASE returned -> Go(Astray(t))
                  [] ~returned /\ (t.mem[b].ro \/ ~Right(t, b)) -> End(t, "user")
                  [] OTHER -> ExecuteMakeSymbolic(t, b)
    IN  ResolveExactList(s, a[1], One)

HandleMarkGlobal(s, a) ==
    ResolveExact(s, a[1], LAMBDA b, t :
        IF t.mem[b].kind = "local" THEN Crash(t) ELSE Go([t EXCEPT !.mem[b].kind = "global"]))

HandleEnd(s, f) ==
    End(s, CASE f \in {"abort", "exit"} -> f
             [] f = "klee_silent_exit" -> "silent"
             [] f = "__assert_fail" -> "assert")

HandleNew(s, ki, a)    == ExecuteAlloc(s, a[1], "heap", ki, FALSE, 0)
HandleDelete(s, ki, a) == ExecuteFree(s, a[1], ki, FALSE)
HandleOverflow(s)      == End(s, "overflow")

HandleReportError(s, a) == End(s, IF Number(a[4]) = 0 THEN "div" ELSE "overshift")

Special(s, f, ki, a) ==
    CASE f \in VoidSpecials /\ ki.used -> End(s, "exec")
      [] f \in {"malloc", "_Znwm"} -> HandleNew(s, ki, a)
      [] f = "memalign" -> HandleMemalign(s, ki, a)
      [] f = "calloc" -> HandleCalloc(s, ki, a)
      [] f = "realloc" -> HandleRealloc(s, ki, a)
      [] f \in {"free", "_ZdlPv"} /\ ~ki.used -> HandleDelete(s, ki, a)
      [] f \in {"abort", "exit", "klee_silent_exit", "__assert_fail"} /\ ~ki.used ->
            HandleEnd(s, f)
      [] f = "klee_report_error" /\ ~ki.used -> HandleReportError(s, a)
      [] f \in UbsanHandlers /\ ~ki.used -> HandleOverflow(s)
      [] f = "klee_assume" /\ ~ki.used -> HandleAssume(s, a)
      [] f = "klee_is_symbolic" -> HandleIsSymbolic(s, ki, a)
      [] f = "klee_get_obj_size" -> HandleGetObjSize(s, ki, a)
      [] f = "klee_get_value" -> HandleGetValue(s, ki, a)
      [] f = "klee_check_memory_access" /\ ~ki.used -> HandleCheckMemoryAccess(s, a)
      [] f = "klee_define_fixed_object" /\ ~ki.used -> HandleDefineFixedObject(s, a)
      [] f = "klee_make_symbolic" /\ ~ki.used -> HandleMakeSymbolic(s, a)
      [] f = "klee_mark_global" /\ ~ki.used -> HandleMarkGlobal(s, a)

-----------------------------------------------------------------------------
(* executeCall and the transfer of control.                                *)

\* Mutant: incomingBBIndex is not set.
FirstIncoming(dst, src, s) ==
    [s EXCEPT !.pc = <<Top(s).kf, km.functions[Top(s).kf].basicBlockEntry[dst] + 1>>]

\* transferToBasicBlock: the first phi says which operand the phis take.
TransferToBasicBlock(dst, src, s) ==
    LET kf    == km.functions[Top(s).kf]
        entry == kf.basicBlockEntry[dst] + 1
        first == kf.instructions[entry]
        t     == [s EXCEPT !.pc = <<Top(s).kf, entry>>]
    IN  IF first.op # "phi" THEN t
        ELSE [t EXCEPT !.inc = SelectInSeq(first.inc, LAMBDA e : e[1] = src) - 1]

\* What the caller does next with the state it began with.
ThenSelf(R, H(_)) ==
    UNION {LET me == {t \in r : t.self /\ t.end = ""} IN
           IF me = {} THEN {r} ELSE Both({r \ me}, H(CHOOSE t \in me : TRUE)) : r \in R}

PushFrame(s, f) ==
    LET kf == km.functions[f] IN
    [s EXCEPT !.pc = <<f, 1>>,
              !.stack = Append(@, [kf |-> f, caller |-> s.prevPC, allocas |-> {}, varargs |-> 0,
                                   locals |-> [r \in 0..kf.numRegisters - 1 |-> Unbound]])]

PopFrame(s) == UnbindObjects([s EXCEPT !.stack = Front(@)], Top(s).allocas)

\* The two loops over the variable arguments: the room one needs, and where
\* it starts when the area is filled up to `offset`.
VarargRoom(w) == IF km.wide THEN AlignTo(w, Word) \div Byte ELSE Size(w)
VarargStart(offset, w) ==
    IF km.wide /\ w > Word THEN AlignTo(offset, 2 * WordBytes) ELSE offset

VarargsSize(rest) ==
    FoldLeft(LAMBDA size, e : VarargStart(size, e.w) + VarargRoom(e.w), 0, rest)

WriteVarargs(s, base, rest) ==
    FoldLeft(LAMBDA acc, e :
                LET at == VarargStart(acc.offset, e.w) IN
                [offset |-> at + VarargRoom(e.w),
                 s |-> [acc.s EXCEPT !.mem[base] = WriteObject(s, @, Pointer(at), e)]],
             [offset |-> 0, s |-> s], rest).s

PassVarargs(s, rest) ==
    LET n == VarargsSize(rest)
        t == BindObject([s EXCEPT !.brk = @ + n + 1], s.brk,
                        Object(n, Fill(FALSE, n), FALSE, "local"))
    IN  WriteVarargs([t EXCEPT !.stack[Len(t.stack)].varargs = s.brk], s.brk, rest)

BindArguments(s, a, n) ==
    [s EXCEPT !.stack[Len(s.stack)].locals =
        [r \in DOMAIN @ |-> IF r < n THEN a[r + 1] ELSE @[r]]]

CallDefined(s, f, a) ==
    LET kf == km.functions[f]
        n  == Len(kf.params)
        t  == PushFrame(s, f)
        u  == IF kf.vararg THEN PassVarargs(t, SubSeq(a, n + 1, Len(a))) ELSE t
    IN  CASE Len(s.stack) > MaxFrames -> End(s, "early")
          [] Len(s.stack) <= MaxFrames /\ Len(a) < n -> End(t, "user")
          [] OTHER -> Go(BindArguments(u, a, n))

\* The floating-point operations work on constants of the known widths.
Float(s, e, H(_, _)) ==
    UNION {IF e.w \in FpWidths THEN H(c.s, c.e) ELSE End(c.s, "unsupported") :
              c \in ToConstant(s, e)}

\* llvm.fabs evaluates operand 0, which is the function and not its argument.
CallFabs(s, ki) ==
    Float(s, Eval(ki, 0, s), LAMBDA t, v :
        Go(BindLocal(ki, Astray(t), Const(FpArith("fabs", Number(v), 0), v.w))))

\* H on the state the caller began with, even if it has been terminated: then
\* only the states that it forks go on, and it may not be terminated again.
ThenSelfEver(R, H(_)) ==
    UNION {LET me == CHOOSE t \in r : t.self
               Again(q) == IF \E t \in q : t.self /\ t.end # ""
                           THEN [me EXCEPT !.end = "crash"] ELSE me
           IN  IF me.end = "" THEN Both({r \ {me}}, H(me))
               ELSE {(r \ {me}) \cup {Again(q)} \cup {t \in q : ~t.self} :
                        q \in H([me EXCEPT !.end = ""])} : r \in R}

\* llvm.va_start: all arguments are made to look passed on the stack.
VaStart(s, ki, p) ==
    LET Word_(R, w) ==
            ThenSelfEver(R, LAMBDA t :
                ExecuteMemoryOperation(t, TRUE, AddExpr(p, Pointer(w.off)),
                                       Const(w.v, w.w), ki))
    IN  FoldLeft(Word_, Go(s), VaList(km, Top(s).varargs))

CallIntrinsic(s, f, ki, a) ==
    CASE f = "llvm.fabs"     -> CallFabs(s, ki)
      [] f = "llvm.va_start" -> VaStart(s, ki, a[1])
      [] f = "llvm.va_end"   -> Go(s)
      [] OTHER -> Special(s, f, ki, a)

\* After an intrinsic or a special function an invoke goes to its normal
\* destination: the state it began with does.
ExecuteCall(s, f, ki, a) ==
    LET Normal(t) == Go(IF ki.op = "call" THEN t
                        ELSE TransferToBasicBlock(ki.to, ki.parent, t))
    IN  CASE f \in DOMAIN km.functions -> CallDefined(s, f, a)
          [] f \notin DOMAIN km.functions /\ f = "llvm.va_start" /\ Top(s).varargs = 0 -> Go(s)
          [] OTHER -> ThenSelf(CallIntrinsic(s, f, ki, a), Normal)

\* getTargetFunction: the function a constant names through aliases.
GetTargetFunction(o) == IF o[1] \in {"f", "alias"} THEN Aliasee(km, o, {}) ELSE ""

CoerceArguments(ki, f, a) ==
    [k \in 1..Len(a) |->
        IF f \in DOMAIN km.functions /\ k <= Len(km.functions[f].params)
        THEN Coerced(a[k], km.functions[f].params[k], k \in ki.sext) ELSE a[k]]

\* The loop over the values of a function pointer: the states it makes, and
\* the function each calls.
RECURSIVE Callees(_, _)
Callees(free, v) ==
    UNION {LET t    == AddConstraint(free, EqExpr(v, Const(val, v.w)))
               rest == [free EXCEPT !.path = @ \ t.path, !.self = FALSE]
               c    == [s |-> t, f |-> FnAt(km, val)]
           IN  IF rest.path = {} THEN {{c}} ELSE {{c} \cup C : C \in Callees(rest, v)} :
               val \in Values(free, v)}

\* The first illegal address ends the state that made the call, whichever
\* state has that address.
InvalidPointer(r) == {IF t.self THEN [t EXCEPT !.end = "exec"] ELSE t : t \in r}

RECURSIVE CallAll(_, _, _)
CallAll(C, ki, a) ==
    IF C = {} THEN None
    ELSE LET c == CHOOSE c \in C : TRUE IN
         {r \cup q : r \in IF c.f = "" THEN Go(c.s) ELSE ExecuteCall(c.s, c.f, ki, a),
                   q \in CallAll(C \ {c}, ki, a)}

ExecCall(s, ki) ==
    LET f == GetTargetFunction(ki.args[1])
        a == [k \in 1..Len(ki.args) - 1 |-> Eval(ki, k, s)]
        calls == IF f # "" THEN {{[s |-> s, f |-> f]}} ELSE Callees(s, Eval(ki, 0, s))
        args  == IF f # "" THEN CoerceArguments(ki, f, a) ELSE a
        Bad(C) == \E c \in C : c.f = ""
    IN  UNION {{IF Bad(C) THEN InvalidPointer(r) ELSE r : r \in CallAll(C, ki, args)} :
                  C \in calls}

-----------------------------------------------------------------------------
(* executeInstruction: control flow.                                       *)

\* Bound in the caller's frame, with the width the call expects.
ReturnValue(s, ki, call, result) ==
    IF call.w = 0 THEN s ELSE BindLocal(call, s, Coerced(result, call.w, 0 \in call.sext))

Ret_(s, ki) ==
    LET isVoid == ki.operands = <<>>
        result == IF isVoid THEN Const(0, Bool) ELSE Eval(ki, 0, s)
        caller == Top(s).caller
        call   == Inst_(caller)
        t      == PopFrame(s)
        u      == IF call.op = "invoke" THEN TransferToBasicBlock(call.to, call.parent, t)
                  ELSE [t EXCEPT !.pc = <<caller[1], caller[2] + 1>>]
    IN  CASE Len(s.stack) = 1 -> End([s EXCEPT !.val = result.at], "exit")
          [] Len(s.stack) > 1 /\ ~isVoid -> Go(ReturnValue(u, ki, call, result))
          [] Len(s.stack) > 1 /\ isVoid  -> IF call.used THEN End(u, "exec") ELSE Go(u)

Branch_(s, ki) ==
    Fork(s, Eval(ki, 0, s),
         LAMBDA t : Go(TransferToBasicBlock(ki.to, ki.parent, t)),
         LAMBDA t : Go(TransferToBasicBlock(ki.else, ki.parent, t)))

\* A concrete address is not checked: the entry of a block that is none of
\* the function is instruction 0.
IndirectTo(s, ki, addr) ==
    LET kf == km.functions[Top(s).kf]
        to == {b \in DOMAIN kf.basicBlockEntry : BlockAddress(b) = addr}
    IN  IF to = {} THEN [s EXCEPT !.pc = <<Top(s).kf, 1>>]
        ELSE TransferToBasicBlock(CHOOSE b \in to : TRUE, ki.parent, s)

IndirectBr(s, ki) ==
    LET address == ToUnique(s, Eval(ki, 0, s))
        Is(b)   == EqExpr(address, Pointer(BlockAddress(b)))
        targets == SelectSeq(ToSeqOnce(ki.dests), LAMBDA b : MayBeTrue(s, Is(b)))
        errorCase == Lift(Bool, address, address, LAMBDA v, w :
                            Truth(v \notin {BlockAddress(b) : b \in ToSet(ki.dests)}))
        conds   == [k \in 1..Len(targets) |-> Is(targets[k])]
                   \o IF MayBeTrue(s, errorCase) THEN <<errorCase>> ELSE <<>>
    IN  IF address.c THEN Go(IndirectTo(s, ki, Number(address)))
        ELSE Branch(s, conds, LAMBDA k, t :
                IF k > Len(targets) THEN End(t, "exec")
                ELSE Go(TransferToBasicBlock(targets[k], ki.parent, t)))

\* The condition of the first case with the value, or of the default.
CaseOf(ki, v) ==
    LET hit == SelectInSeq(ki.cases, LAMBDA c : c[1] = v) IN
    IF hit = 0 THEN ki.default ELSE ki.cases[hit][2]

\* Cases in the order of their values; one condition for each successor,
\* the default last; cases that go to the default's block are part of it.
SwitchTargets(ki) ==
    LET ordered == SortSeq(ki.cases, LAMBDA c, d : c[1] < d[1]) IN
    SelectSeq(ToSeqOnce([k \in 1..Len(ordered) |-> ordered[k][2]]),
              LAMBDA b : b # ki.default) \o <<ki.default>>

Switch(s, ki) ==
    LET cond  == ToUnique(s, Eval(ki, 0, s))
        Goes(b) == Unary(Bool, cond, LAMBDA v : Truth(CaseOf(ki, v) = b))
        order == SelectSeq(SwitchTargets(ki), LAMBDA b : MayBeTrue(s, Goes(b)))
    IN  IF cond.c
        THEN Go(TransferToBasicBlock(CaseOf(ki, Number(cond)), ki.parent, s))
        ELSE Branch(s, [k \in 1..Len(order) |-> Goes(order[k])],
                    LAMBDA k, t : Go(TransferToBasicBlock(order[k], ki.parent, t)))

ControlStep(s, ki) ==
    CASE ki.op = "ret" -> Ret_(s, ki)
      [] ki.op = "br"  -> Go(TransferToBasicBlock(ki.to, ki.parent, s))
      [] ki.op = "condbr" -> Branch_(s, ki)
      [] ki.op = "indirectbr" -> IndirectBr(s, ki)
      [] ki.op = "switch" -> Switch(s, ki)
      [] ki.op = "unreachable" -> End(s, "exec")
      [] ki.op \in {"call", "invoke"} -> ExecCall(s, ki)

-----------------------------------------------------------------------------
(* Memory and data.                                                        *)

Alloca(s, ki) ==
    LET size == IF ki.operands = <<>> THEN Pointer(ki.size)
                ELSE MulExpr(Pointer(ki.size), ZExtExpr(Eval(ki, 0, s), Word))
    IN  ExecuteAlloc(s, size, "local", ki, FALSE, 0)

MemoryStep(s, ki) ==
    CASE ki.op = "alloca" -> Alloca(s, ki)
      [] ki.op = "load"  -> ExecuteMemoryOperation(s, FALSE, Eval(ki, 0, s), Unbound, ki)
      [] ki.op = "store" -> ExecuteMemoryOperation(s, TRUE, Eval(ki, 1, s), Eval(ki, 0, s), ki)

GetElementPtr(s, ki) ==
    AddExpr(
        FoldLeft(LAMBDA base, i :
                    AddExpr(base, MulExpr(SExtExpr(Eval(ki, i[1], s), Word), Pointer(i[2]))),
                 Eval(ki, 0, s), ki.indices),
        Pointer(ki.offset))

\* agg with val from bit lOffset on: the parts below and above are kept.
InsertValue(agg, val, lOffset) ==
    LET rOffset == lOffset + val.w
        low  == IF lOffset = 0 THEN val
                ELSE ConcatExpr(val, ExtractExpr(agg, 0, lOffset))
    IN  IF rOffset < agg.w
        THEN ConcatExpr(ExtractExpr(agg, rOffset, agg.w - rOffset), low) ELSE low

\* Element 0 is the least significant.
InsertElement(s, ki) ==
    LET vec == Eval(ki, 0, s)  elt == Eval(ki, 1, s)  idx == Eval(ki, 2, s)
        Elem(k) == IF k = Number(idx) THEN elt ELSE ExtractExpr(vec, ki.vw * k, ki.vw)
    IN  CASE ~idx.c -> End(s, "unhandled")
          [] idx.c /\ Number(idx) >= ki.n -> End(s, "vector")
          [] OTHER -> Go(BindLocal(ki, s,
                FoldLeft(LAMBDA e, k : ConcatExpr(Elem(k), e), Elem(0),
                         [k \in 1..ki.n - 1 |-> k])))

ExtractElement(s, ki) ==
    LET vec == Eval(ki, 0, s)  idx == Eval(ki, 1, s) IN
    CASE ~idx.c -> End(s, "unhandled")
      [] idx.c /\ Number(idx) >= ki.n -> End(s, "vector")
      [] OTHER -> Go(BindLocal(ki, s, ExtractExpr(vec, ki.w * Number(idx), ki.w)))

FpBinary == {"fadd", "fsub", "fmul", "fdiv", "frem"}
FpCasts  == {"fptrunc", "fpext", "fptoui", "fptosi", "uitofp", "sitofp"}

FpOperation(s, ki) ==
    Float(s, Eval(ki, 0, s), LAMBDA t, l : Float(t, Eval(ki, 1, s), LAMBDA u, r :
        Go(BindLocal(ki, u, Const(FpArith(ki.op, Number(l), Number(r)), ki.w)))))

FpCastAllowed(op, from, to) ==
    CASE op = "fptrunc" -> from \in FpWidths /\ to <= from
      [] op = "fpext"   -> from \in FpWidths /\ from <= to
      [] op \in {"fptoui", "fptosi"} -> from \in FpWidths /\ to <= Word
      [] op \in {"uitofp", "sitofp"} -> to \in FpWidths

FpCast(s, ki) ==
    UNION {IF ~FpCastAllowed(ki.op, c.e.w, ki.w) THEN End(c.s, "unsupported")
           ELSE Go(BindLocal(ki, c.s, Const(FpArith(ki.op, Number(c.e), 0), ki.w))) :
              c \in ToConstant(s, Eval(ki, 0, s))}

\* The ordered predicates are false and the unordered true of a NaN.
FCmpOrdered(rel, res) ==
    CASE rel = "eq" -> res = "eq"
      [] rel = "gt" -> res = "gt"
      [] rel = "ge" -> res = "gt" \/ res = "eq"
      [] rel = "lt" -> res = "lt"
      [] rel = "le" -> res = "lt" \/ res = "eq"
      [] rel = "ne" -> res # "eq"

FCmpHolds(pred, res) ==
    CASE pred = "ord" -> res # "un"
      [] pred = "uno" -> res = "un"
      [] pred = "false" -> FALSE
      [] pred = "true"  -> TRUE
      [] pred \in {"u" \o r : r \in {"eq", "gt", "ge", "lt", "le", "ne"}} ->
            res = "un" \/ FCmpOrdered(SubSeq(pred, 2, 3), res)
      [] pred \in {"o" \o r : r \in {"eq", "gt", "ge", "lt", "le", "ne"}} ->
            res # "un" /\ FCmpOrdered(SubSeq(pred, 2, 3), res)

FCmp(s, ki) ==
    Float(s, Eval(ki, 0, s), LAMBDA t, l : Float(t, Eval(ki, 1, s), LAMBDA u, r :
        Go(BindLocal(ki, u,
            Const(Truth(FCmpHolds(ki.pred, FpOrder(Number(l), Number(r)))), Bool)))))

Casts == {"trunc", "zext", "inttoptr", "ptrtoint", "sext", "bitcast"}

Arithmetic(ki, l, r) ==
    IF ki.op \in Divisions THEN DivExpr(ki.op, l, r) ELSE BinaryExpr(ki.op, ki.w, l, r)

ICmpExpr(ki, l, r) == BinaryExpr(ki.pred, Bool, l, r)

CastExpr(ki, e) ==
    CASE ki.op = "trunc" -> ExtractExpr(e, 0, ki.w)
      [] ki.op \in {"zext", "inttoptr", "ptrtoint"} -> ZExtExpr(e, ki.w)
      [] ki.op = "sext" -> SExtExpr(e, ki.w)
      [] ki.op = "bitcast" -> e

\* The instructions that compute one expression.
Computed(s, ki) ==
    LET E(k) == Eval(ki, k, s) IN
    CASE ki.op \in Binary -> Arithmetic(ki, E(0), E(1))
      [] ki.op = "icmp"   -> ICmpExpr(ki, E(0), E(1))
      [] ki.op \in Casts  -> CastExpr(ki, E(0))
      [] ki.op = "phi"    -> E(s.inc)
      [] ki.op = "select" -> SelectExpr(E(0), E(1), E(2))
      [] ki.op = "getelementptr" -> GetElementPtr(s, ki)
      [] ki.op = "insertvalue"   -> InsertValue(E(0), E(1), Byte * ki.offset)
      [] ki.op = "extractvalue"  -> ExtractExpr(E(0), Byte * ki.offset, ki.w)

DataStep(s, ki) ==
    CASE ki.op \in FpBinary -> FpOperation(s, ki)
      [] ki.op \in FpCasts  -> FpCast(s, ki)
      [] ki.op = "fcmp"  -> FCmp(s, ki)
      [] ki.op = "fence" -> Go(s)
      [] ki.op = "insertelement"  -> InsertElement(s, ki)
      [] ki.op = "extractelement" -> ExtractElement(s, ki)
      [] OTHER -> Go(BindLocal(ki, s, Computed(s, ki)))

-----------------------------------------------------------------------------
(* The interpreter loop: Executor::run, one instruction of the selected    *)
(* state at a time.                                                        *)

GlobalObjects(P) ==
    [a \in {GlobalAddress(P, i) : i \in 1..Len(P.globals)} |->
        LET g == P.globals[CHOOSE i \in 1..Len(P.globals) : GlobalAddress(P, i) = a]
        IN  Object(g.size, [j \in 0..g.size - 1 |-> Const(g.init[j + 1], Byte)],
                   g.ro, "global")]

InitialState ==
    PushFrame([path |-> Input, stack |-> <<>>, pc |-> <<>>, prevPC |-> <<>>, inc |-> 0,
               mem |-> GlobalObjects(km), brk |-> GlobalAddress(km, Len(km.globals) + 1),
               nsym |-> 0, end |-> "", val |-> [x \in Input |-> 0], self |-> TRUE,
               astray |-> FALSE], "main")

Init ==
    /\ program \in DOMAIN Programs
    /\ opt \in Options
    /\ km = KModule(Programs[program], opt.lower)
    /\ states = {InitialState}
    /\ current = {}
    /\ done = {} /\ marked = {} /\ assumed = {} /\ dropped = {}

\* A state is kept to until it forks or ends.  States share only `marked`, so
\* one order of selecting them is enough: Searchers.tla has the others.
SelectState ==
    /\ current = {} /\ states # {}
    /\ current' = {CHOOSE s \in states : \A t \in states : Min(s.path) <= Min(t.path)}
    /\ UNCHANGED <<program, opt, km, states, done, marked, assumed, dropped>>

StepInstruction(s) ==
    [s EXCEPT !.prevPC = s.pc, !.pc = <<s.pc[1], s.pc[2] + 1>>]

Outcome(t) ==
    [path |-> t.path, end |-> t.end, val |-> [x \in t.path |-> t.val[x]], astray |-> t.astray]

CallsTo(ki, f) == ki.op \in {"call", "invoke"} /\ ki.args[1] = <<"f", f>>

GlobalOf(t) ==
    {<<b, t.mem[b].born>> : b \in {c \in DOMAIN t.mem : t.mem[c].kind = "global"}}

\* The states a handler leaves replace the one that took the step.  When KLEE
\* crashes no state goes on.
UpdateStates(s, ki, r) ==
    LET live == {[t EXCEPT !.self = TRUE] : t \in {u \in r : u.end = ""}}
        all  == (states \ {s}) \cup live
        lost == s.path \ UNION {t.path : t \in r}
        crash == \E t \in r : t.end = "crash"
        gone  == IF crash THEN {[t EXCEPT !.end = "crash"] : t \in all} ELSE {}
    IN  /\ states'  = IF crash THEN {} ELSE all
        /\ current' = IF ~crash /\ Cardinality(live) = 1 THEN live ELSE {}
        /\ done'    = done \cup {Outcome(t) : t \in {u \in r : u.end # ""} \cup gone}
        /\ marked'  = IF CallsTo(ki, "klee_mark_global")
                      THEN marked \cup UNION {GlobalOf(t) : t \in r} ELSE marked
        /\ assumed' = IF CallsTo(ki, "klee_assume") THEN assumed \cup lost ELSE assumed
        /\ dropped' = IF CallsTo(ki, "klee_assume") THEN dropped ELSE dropped \cup lost
        /\ UNCHANGED <<program, opt, km>>

Step(ops, Handler(_, _)) ==
    \E s \in current :
        LET ki == Inst_(s.pc) IN
        /\ ki.op \in ops
        /\ \E r \in Handler(StepInstruction(s), ki) : UpdateStates(s, ki, r)

DataOps ==
    Binary \cup Casts \cup FpBinary \cup FpCasts \cup
    {"icmp", "phi", "select", "getelementptr", "insertvalue", "extractvalue", "fcmp", "fence", "insertelement",
     "extractelement"}

ExecuteControl == Step(Control, ControlStep)
ExecuteMemory == Step({"alloca", "load", "store"}, MemoryStep)
ExecuteData == Step(DataOps, DataStep)

Finished == states = {} /\ UNCHANGED vars

Next == SelectState \/ ExecuteControl \/ ExecuteMemory \/ ExecuteData \/ Finished

\* The loop of Executor::run goes on while there are states.  (Weak fairness
\* of Next, with its enabling condition written out.)
Fairness == []<>(states = {}) \/ []<><<Next>>_vars

Spec == Init /\ [][Next]_vars /\ Fairness

-----------------------------------------------------------------------------
(* Properties.                                                             *)

Ends == {"exit", "ptr", "readonly", "free", "div", "overshift", "abort", "assert",
         "exec", "user", "vector", "overflow", "silent"}

\* Ends that say the interpreter gave up or crashed; nothing is claimed of
\* their inputs.
GaveUp == {"model", "early", "unhandled", "unsupported", "crash"}

TypeOK ==
    /\ \A s \in states : /\ s.path # {} /\ s.path \subseteq Input
                         /\ s.end = "" /\ s.stack # <<>>
                         /\ s.pc[2] \in 1..Len(km.functions[s.pc[1]].instructions)
    /\ current \subseteq states /\ Cardinality(current) <= 1
    /\ \A d \in done : d.end \in Ends \cup GaveUp

\* Every path that ends, ends as the program does on every input of the path,
\* with the same result or the same error, and klee_assume gives up only
\* inputs that break the assumption.  Across the checks, the lowering, the
\* ordering of phis, forks, pointer resolution and calls, no input is taken
\* through code it would not execute.  Nothing is claimed of a path that is
\* astray, and the programs reach all three ways to become so: it has called
\* llvm.fabs, which works on the address of the function instead of the
\* argument (Executor.cpp:1374, although NEWS:33 lists llvm.fabs as supported
\* and test/Intrinsics/fabs.ll calls it); klee_make_symbolic met a read-only
\* object before its own and returned (SpecialFunctionHandler.cpp:805); or it
\* freed an object that only another path had marked global (:841).
OutcomesRight ==
    /\ \A d \in done : d.end \notin GaveUp /\ ~d.astray => \A x \in d.path :
          LET m == Meanings[program][x] IN
          /\ d.end = (IF m.end = "assume" THEN "user" ELSE m.end)
          /\ d.val[x] = m.val
    /\ \A x \in assumed : Meanings[program][x].end = "assume"

UsesFloats ==
    \E f \in DOMAIN km.functions :
        \E i \in ToSet(km.functions[f].instructions) : i.op \in FpBinary \cup FpCasts \cup {"fcmp"}

\* No input is run twice, none is lost: live and ended paths and the inputs
\* given up divide the inputs among them.  Inputs are dropped only where a
\* value is made concrete: for floating point, after a timeout, or in an
\* object of MaxSymArraySize.
PathsPartition ==
    LET ended == UNION {d.path : d \in done}
        live  == UNION {s.path : s \in states}
    IN  /\ live \cup ended \cup assumed \cup dropped = Input
        /\ \A s, t \in states : s # t => s.path \cap t.path = {}
        /\ \A d, e \in done : d # e => d.path \cap e.path = {}
        /\ live \cap ended = {} /\ (live \cup ended) \cap (assumed \cup dropped) = {}
        /\ dropped # {} => opt.flaky \/ opt.maxSym # 0 \/ UsesFloats

\* The stack objects of a state are those its frames own, each of one frame:
\* popFrame frees a frame's objects and no others.  A frame may also list
\* objects that realloc has taken away.
LocalsOwned ==
    \A s \in states :
        /\ {b \in DOMAIN s.mem : s.mem[b].kind = "local"} =
              DOMAIN s.mem \cap UNION {s.stack[k].allocas : k \in 1..Len(s.stack)}
        /\ \A j, k \in 1..Len(s.stack) :
              j # k => s.stack[j].allocas \cap s.stack[k].allocas = {}

\* The states of the executor are well formed, divide the inputs among them
\* and own their stack objects after every instruction.
StatesSound == TypeOK /\ PathsPartition /\ LocalsOwned

\* Programs that end are run to the end on every path.
EveryPathEnds == <>[](states = {})
=============================================================================
