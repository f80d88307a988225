-------------------------------- MODULE Llvm --------------------------------
(* The programs KLEE runs, and what they compute.  This module is the      *)
(* reference the interpreter is checked against: the meaning of LLVM code  *)
(* on one concrete input, from the language's own rules, with nothing of   *)
(* how KLEE prepares or interprets it.                                     *)
(*                                                                         *)
(* A program has functions, each a sequence of basic blocks; global        *)
(* objects; aliases of functions; and the calling convention (wide, as on  *)
(* x86-64, or not, as on x86-32).  An operand is a tagged tuple:           *)
(*   <<"v", n>> instruction n, <<"a", i>> argument i, <<"c", n, w>> the    *)
(*   constant n of w bits, <<"g", i>> global i, <<"f", name>> a function,  *)
(*   <<"alias", name>>, <<"b", n>> the address of block n.                 *)
(* An instruction is a record with its op, its number id, the width w of   *)
(* its result (0: none) and its operands args.                             *)
EXTENDS BitVectors, Sequences, SequencesExt, FiniteSets, FiniteSetsExt, TLC

CONSTANTS
    Byte,        \* bits of a byte (8)
    Word,        \* bits of a pointer and of i64 (64, or 32 when not wide)
    Half,        \* bits of i32
    SymBytes,    \* symbolic bytes of an input
    Available,   \* the largest block the malloc of the host gives
    FpWidths,    \* the widths of floating-point types
    FpArith(_, _, _),     \* APFloat arithmetic: operation and bit patterns
    FpOrder(_, _)         \* APFloat::compare: "lt", "eq", "gt" or "un"

ASSUME AvailableAssumption == Available \in Nat

Input == 0 .. 2^(Byte * SymBytes) - 1

\* Byte k (from 0) of what an input gives klee_make_symbolic.
InputByte(x, k) == ExtractBits(x, Byte * k, Byte)

Size(w)     == (w + Byte - 1) \div Byte        \* bytes of a value
WordBytes   == Word \div Byte
PowerOfTwo(n) == \E k \in 0..Word : n = 2^k
AlignTo(n, a) == ((n + a - 1) \div a) * a

Divisions == {"UDiv", "SDiv", "URem", "SRem"}
Shifts    == {"Shl", "LShr", "AShr"}
Binary    == Divisions \cup Shifts \cup {"Add", "Sub", "Mul", "And", "Or", "Xor"}
Overflows == {"sadd_with_overflow", "ssub_with_overflow", "smul_with_overflow",
              "uadd_with_overflow", "usub_with_overflow", "umul_with_overflow"}
Saturating == {"sadd_sat", "ssub_sat", "uadd_sat", "usub_sat"}

-----------------------------------------------------------------------------
(* Addresses.  Code lies above the data: functions from the top, then the  *)
(* blocks whose address is taken.                                          *)

FnAddress(P, f) == 2^Word - SelectInSeq(P.names, LAMBDA n : n = f)
BlockAddress(b) == 2^Word - 16 - b
FirstObject     == 4

FnAt(P, addr) ==
    LET i == 2^Word - addr IN IF i \in 1..Len(P.names) THEN P.names[i] ELSE ""

\* What an alias finally names; "" when the chain does not end in a function.
RECURSIVE Aliasee(_, _, _)
Aliasee(P, o, seen) ==
    CASE o[1] = "f" -> o[2]
      [] o[1] = "alias" /\ o[2] \notin seen ->
            Aliasee(P, P.aliases[o[2]], seen \cup {o[2]})
      [] OTHER -> ""

\* Globals are laid out one after the other, a byte apart.
GlobalAddress(P, i) ==
    FirstObject +
    FoldLeft(LAMBDA n, g : n + g.size + 1, 0, SubSeq(P.globals, 1, i - 1))

BlockOf(F, b) == F.blocks[SelectInSeq(F.blocks, LAMBDA k : k.b = b)]
Phis(code)    == SelectSeq(code, LAMBDA i : i.op = "phi")

Used(F, n) ==
    \E k \in 1..Len(F.blocks) : \E j \in 1..Len(F.blocks[k].code) :
        LET i == F.blocks[k].code[j] IN
        \/ Contains(i.args, <<"v", n>>)
        \/ i.op = "phi" /\ \E e \in ToSet(i.inc) : e[2] = <<"v", n>>

ConstValue(P, o) ==
    CASE o[1] = "c" -> o[2]
      [] o[1] = "g" -> GlobalAddress(P, o[2])
      [] o[1] = "b" -> BlockAddress(o[2])
      [] o[1] = "f" -> FnAddress(P, o[2])
      [] o[1] = "alias" -> FnAddress(P, Aliasee(P, o, {}))

ConstWidth(o) == IF o[1] = "c" THEN o[3] ELSE Word

IsConstant(o) == o[1] \notin {"v", "a"}

-----------------------------------------------------------------------------
(* One execution on one input.                                             *)

RefObject(size, ro, kind) ==
    [bytes |-> [k \in 1..size |-> 0], ro |-> ro, kind |-> kind]

RefInit(P, x) ==
    [end |-> "", val |-> 0, x |-> x, nsym |-> 0,
     mem |-> [a \in {GlobalAddress(P, i) : i \in 1..Len(P.globals)} |->
                LET g == P.globals[CHOOSE i \in 1..Len(P.globals) :
                                        GlobalAddress(P, i) = a]
                IN  [RefObject(g.size, g.ro, "global") EXCEPT !.bytes = g.init]],
     brk |-> GlobalAddress(P, Len(P.globals) + 1),
     stack |-> <<[f |-> "main", b |-> P.funs["main"].blocks[1].b, i |-> 1,
                  prev |-> 0, env |-> <<>>, args |-> <<>>, va |-> 0,
                  locals |-> {}]>>]

RefTop(c)      == Last(c.stack)
RefSet(c, fr)  == [c EXCEPT !.stack[Len(c.stack)] = fr]
RefEnd(c, why) == [c EXCEPT !.end = why]

RefVal(P, c, o) ==
    CASE o[1] = "v" -> RefTop(c).env[o[2]]
      [] o[1] = "a" -> RefTop(c).args[o[2]].v
      [] OTHER -> ConstValue(P, o)

\* The instruction is done; its result is v.
RefBind(c, i, v) ==
    RefSet(c, [RefTop(c) EXCEPT !.env = (i.id :> v) @@ @, !.i = @ + 1])
RefSkip(c) == RefSet(c, [RefTop(c) EXCEPT !.i = @ + 1])

\* Into block b: all its phis take their values at once.
RefGoto(P, c, b) ==
    LET fr   == RefTop(c)
        phis == Phis(BlockOf(P.funs[fr.f], b).code)
        In(p) == p.inc[SelectInSeq(p.inc, LAMBDA e : e[1] = fr.b)][2]
        new  == [n \in {phis[k].id : k \in 1..Len(phis)} |->
                   RefVal(P, c, In(phis[CHOOSE k \in 1..Len(phis) : phis[k].id = n]))]
    IN  RefSet(c, [fr EXCEPT !.prev = fr.b, !.b = b, !.i = Len(phis) + 1,
                             !.env = new @@ @])

\* The object that holds the n bytes from addr, or 0.
RefFind(c, addr, n) ==
    LET hit == {a \in DOMAIN c.mem : a <= addr
                                     /\ addr + n <= a + Len(c.mem[a].bytes)}
    IN  IF hit = {} THEN 0 ELSE CHOOSE a \in hit : TRUE

RefRead(c, addr, w) ==
    LET a == RefFind(c, addr, Size(w))
        raw == FoldLeft(LAMBDA v, k :
                   v + c.mem[a].bytes[addr - a + k] * 2^(Byte * (k - 1)),
                   0, [k \in 1..Size(w) |-> k])
    IN  raw % 2^w

RefWrite(c, addr, v, w) ==
    LET a == RefFind(c, addr, Size(w)) IN
    [c EXCEPT !.mem[a].bytes =
        [k \in DOMAIN @ |->
            IF k - 1 + a - addr \in 0..Size(w) - 1
            THEN ExtractBits(v, Byte * (k - 1 + a - addr), Byte) ELSE @[k]]]

RefStore(c, addr, v, w) ==
    LET a == RefFind(c, addr, Size(w)) IN
    CASE a = 0 -> RefEnd(c, "ptr")
      [] a # 0 /\ c.mem[a].ro -> RefEnd(c, "readonly")
      [] OTHER -> RefWrite(c, addr, v, w)

\* A new object of n bytes, if there are so many.
RefAlloc(c, i, n, kind) ==
    IF n > Available THEN RefBind(c, i, 0)
    ELSE LET d  == RefBind([c EXCEPT !.mem = (c.brk :> RefObject(n, FALSE, kind)) @@ @,
                                     !.brk = @ + n + 1], i, c.brk)
         IN  IF kind # "stack" THEN d
             ELSE RefSet(d, [RefTop(d) EXCEPT !.locals = @ \cup {c.brk}])

RefForget(c, bases) ==
    [c EXCEPT !.mem = [a \in DOMAIN @ \ bases |-> @[a]]]

RefFreed(c, addr) ==
    CASE addr = 0 -> c
      [] addr # 0 /\ addr \notin DOMAIN c.mem -> RefEnd(c, "ptr")
      [] addr \in DOMAIN c.mem /\ c.mem[addr].kind # "heap" -> RefEnd(c, "free")
      [] OTHER -> RefForget(c, {addr})

RefRealloc(c, i, addr, n) ==
    CASE n = 0 -> RefBind(RefFreed(c, addr), i, 0)
      [] n # 0 /\ addr = 0 -> RefAlloc(c, i, n, "heap")
      [] n # 0 /\ addr # 0 /\ addr \notin DOMAIN c.mem -> RefEnd(c, "ptr")
      [] OTHER ->
           LET d   == RefAlloc(c, i, n, "heap")
               old == c.mem[addr].bytes
           IN  IF n > Available THEN d
               ELSE RefForget([d EXCEPT !.mem[c.brk].bytes =
                      [k \in DOMAIN @ |-> IF k <= Len(old) THEN old[k] ELSE @[k]]],
                      {addr})

-----------------------------------------------------------------------------
(* Calls.                                                                  *)

\* Where the calling convention puts variable arguments of these widths in
\* the argument area: the offset after each prefix of them.
VaLayout(P, widths) ==
    LET Start(off, w) == IF P.wide /\ w > Word THEN AlignTo(off, 2 * WordBytes) ELSE off
        Room(w) == IF P.wide THEN AlignTo(w, Word) \div Byte ELSE Size(w)
        step(l, w) == [at |-> Append(l.at, Start(l.end, w)),
                       end |-> Start(l.end, w) + Room(w)]
    IN  FoldLeft(step, [at |-> <<>>, end |-> 0], widths)

\* The words of a va_list and the offset of each: on x86-64 the registers
\* are marked as used up, so that every argument is on the stack.
VaList(P, va) ==
    IF P.wide THEN <<[off |-> 0, v |-> 2^Half - 1, w |-> Half],
                     [off |-> Half \div Byte, v |-> 2^Half - 1, w |-> Half],
                     [off |-> WordBytes, v |-> va, w |-> Word],
                     [off |-> 2 * WordBytes, v |-> 0, w |-> Word]>>
    ELSE <<[off |-> 0, v |-> va, w |-> Word]>>

UbsanHandlers == {"__ubsan_handle_" \o k \o "_overflow" : k \in {"add", "sub", "mul", "divrem"}}

\* Calls that KLEE's own functions and the C library answer.
RefSpecial(P, c, i, f, args) ==
    CASE f \in {"malloc", "_Znwm"} -> RefAlloc(c, i, args[1].v, "heap")
      [] f = "memalign" ->
            IF ~PowerOfTwo(args[1].v) THEN RefBind(c, i, 0)
            ELSE RefAlloc(c, i, args[2].v, "heap")
      [] f = "calloc"  -> RefAlloc(c, i, args[1].v * args[2].v, "heap")
      [] f = "realloc" -> RefRealloc(c, i, args[1].v, args[2].v)
      [] f \in {"free", "_ZdlPv"} -> RefSkip(RefFreed(c, args[1].v))
      [] f \in {"abort", "exit"} -> RefEnd(c, f)
      [] f = "klee_silent_exit" -> RefEnd(c, "silent")
      [] f \in UbsanHandlers -> RefEnd(c, "overflow")
      [] f \in {"klee_get_value", "klee_is_symbolic"} -> RefBind(c, i, 0)
      [] f = "klee_define_fixed_object" ->
            RefSkip([c EXCEPT !.mem =
                (args[1].v :> RefObject(args[2].v, FALSE, "global")) @@ @])
      [] f = "klee_mark_global" ->
            IF args[1].v \notin DOMAIN c.mem THEN RefEnd(c, "ptr")
            ELSE RefSkip([c EXCEPT !.mem[args[1].v].kind = "global"])
      [] f = "llvm.fabs" -> RefBind(c, i, FpArith("fabs", args[1].v, 0))
      [] f = "llvm.va_start" ->
            RefSkip(FoldLeft(LAMBDA d, e :
                        IF d.end # "" THEN d ELSE RefStore(d, args[1].v + e.off, e.v, e.w),
                    c, VaList(P, RefTop(c).va)))
      [] f = "llvm.va_end" -> RefSkip(c)
      [] f = "__assert_fail" -> RefEnd(c, "assert")
      [] f = "klee_assume" ->
            IF args[1].v = 0 THEN RefEnd(c, "assume") ELSE RefSkip(c)
      [] f = "klee_get_obj_size" ->
            IF args[1].v \notin DOMAIN c.mem THEN RefEnd(c, "ptr")
            ELSE RefBind(c, i, Len(c.mem[args[1].v].bytes))
      [] f = "klee_check_memory_access" ->
            IF RefFind(c, args[1].v, args[2].v) = 0 THEN RefEnd(c, "ptr") ELSE RefSkip(c)
      [] f = "klee_make_symbolic" ->
            LET a == args[1].v IN
            CASE a \notin DOMAIN c.mem -> RefEnd(c, "ptr")
              [] a \in DOMAIN c.mem /\ (c.mem[a].ro \/ Len(c.mem[a].bytes) # args[2].v) ->
                    RefEnd(c, "user")
              [] OTHER ->
                    RefSkip([c EXCEPT !.nsym = @ + args[2].v,
                               !.mem[a].bytes = [k \in DOMAIN @ |->
                                    InputByte(c.x, c.nsym + k - 1)]])

\* A value of `from` bits where `to` are expected.
Coerce(v, from, to, sext) == IF sext /\ from < to THEN SignExtend(v, from, to) ELSE v % 2^to

RefCall(P, c, i, f, args) ==
    LET F    == P.funs[f]
        n    == Len(F.params)
        rest == SubSeq(args, n + 1, Len(args))
        lay  == VaLayout(P, [k \in 1..Len(rest) |-> rest[k].w])
        d    == IF ~F.vararg THEN c
                ELSE FoldLeft(LAMBDA m, k : RefWrite(m, c.brk + lay.at[k], rest[k].v,
                                                     rest[k].w),
                       [c EXCEPT !.mem = (c.brk :> RefObject(lay.end, FALSE, "stack")) @@ @,
                                 !.brk = @ + lay.end + 1],
                       [k \in 1..Len(rest) |-> k])
        va   == IF d = c THEN 0 ELSE c.brk
        e    == RefSpecial(P, c, i, f, args)
    IN  CASE f \notin DOMAIN P.funs ->
                IF i.op = "invoke" /\ e.end = "" THEN RefGoto(P, e, i.to) ELSE e
          [] f \in DOMAIN P.funs /\ Len(args) < n -> RefEnd(c, "user")
          [] OTHER -> [d EXCEPT !.stack = Append(@,
                [f |-> f, b |-> F.blocks[1].b, i |-> 1, prev |-> 0, env |-> <<>>,
                 args |-> [k \in 1..n |->
                    [v |-> Coerce(args[k].v, args[k].w, F.params[k], k \in i.sext),
                     w |-> F.params[k]]],
                 va |-> va,
                 locals |-> IF va = 0 THEN {} ELSE {va}])]

RefInst(P, c) ==
    LET fr == RefTop(c) IN BlockOf(P.funs[fr.f], fr.b).code[fr.i]

RefReturn(P, c, i) ==
    LET v == IF i.args = <<>> THEN 0 ELSE RefVal(P, c, i.args[1])
        d == RefForget([c EXCEPT !.stack = Front(@)], RefTop(c).locals)
        k == RefInst(P, d)
        e == IF i.args = <<>> \/ k.w = 0 THEN RefSkip(d)
             ELSE RefBind(d, k, Coerce(v, i.vw, k.w, 0 \in k.sext))
    IN  CASE Len(c.stack) = 1 -> [RefEnd(c, "exit") EXCEPT !.val = v]
          [] Len(c.stack) > 1 /\ i.args = <<>> /\ Used(P.funs[RefTop(d).f], k.id) ->
                RefEnd(c, "exec")
          [] Len(c.stack) > 1 /\ (i.args # <<>> \/ ~Used(P.funs[RefTop(d).f], k.id))
                              /\ k.op = "invoke" -> RefGoto(P, e, k.to)
          [] OTHER -> e

-----------------------------------------------------------------------------
(* The other instructions.                                                 *)

\* x + y, x - y or x * y as mathematical integers, signed or not.
Exact(op, w, x, y) ==
    LET a == IF SubSeq(op, 1, 1) = "s" THEN Signed(x, w) ELSE x
        b == IF SubSeq(op, 1, 1) = "s" THEN Signed(y, w) ELSE y
    IN  CASE SubSeq(op, 2, 4) = "add" -> a + b
          [] SubSeq(op, 2, 4) = "sub" -> a - b
          [] SubSeq(op, 2, 4) = "mul" -> a * b

Least(op, w)    == IF SubSeq(op, 1, 1) = "s" THEN -(2^(w - 1)) ELSE 0
Greatest(op, w) == IF SubSeq(op, 1, 1) = "s" THEN 2^(w - 1) - 1 ELSE 2^w - 1

\* {result, overflow}: the flag is field 1 of the structure, at byte off.
WithOverflow(op, w, off, x, y) ==
    LET r == Exact(op, w, x, y) IN
    (r % 2^w) + Truth(r < Least(op, w) \/ r > Greatest(op, w)) * 2^(Byte * off)

Saturated(op, w, x, y) ==
    LET r == Exact(op, w, x, y) IN
    (CASE r < Least(op, w) -> Least(op, w)
       [] r > Greatest(op, w) -> Greatest(op, w)
       [] OTHER -> r) % 2^w

\* The fourteen predicates of fcmp are the sets of orders they accept.
FpAccepts(pred) ==
    CASE pred = "false" -> {}
      [] pred = "true"  -> {"lt", "eq", "gt", "un"}
      [] pred = "ord"   -> {"lt", "eq", "gt"}
      [] pred = "uno"   -> {"un"}
      [] OTHER ->
          (CASE SubSeq(pred, 2, 3) = "eq" -> {"eq"}
             [] SubSeq(pred, 2, 3) = "ne" -> {"lt", "gt"}
             [] SubSeq(pred, 2, 3) = "gt" -> {"gt"}
             [] SubSeq(pred, 2, 3) = "ge" -> {"gt", "eq"}
             [] SubSeq(pred, 2, 3) = "lt" -> {"lt"}
             [] SubSeq(pred, 2, 3) = "le" -> {"lt", "eq"})
          \cup (IF SubSeq(pred, 1, 1) = "u" THEN {"un"} ELSE {})

\* Bits off .. off + w - 1 of v replaced by those of n.
ReplaceBits(v, off, w, n) ==
    v - ExtractBits(v, off, w) * 2^off + n * 2^off

\* The bytes that index k of a type skips: a structure's fields have their
\* own offsets, the elements of a sequence one size.
Skipped(t, k) == IF t.struct THEN t.offs[k + 1] ELSE k * t.size

\* The bytes a path of indices skips.
PathOffset(path, idx) ==
    FoldLeft(LAMBDA n, k : n + Skipped(path[k], idx[k]), 0,
             [k \in 1..Len(path) |-> k])

RefData(P, c, i) ==
    LET A(k) == RefVal(P, c, i.args[k]) IN
    CASE i.op \in Binary ->
            (CASE i.op \in Divisions /\ A(2) = 0 -> RefEnd(c, "div")
               [] i.op \in Shifts /\ A(2) >= i.w -> RefEnd(c, "overshift")
               [] OTHER -> RefBind(c, i, Apply(i.op, i.w, A(1), A(2))))
      [] i.op = "icmp" -> RefBind(c, i, Apply(i.pred, i.vw, A(1), A(2)))
      [] i.op = "select" -> RefBind(c, i, IF A(1) = 1 THEN A(2) ELSE A(3))
      [] i.op \in {"trunc", "zext", "inttoptr", "ptrtoint", "bitcast"} ->
            RefBind(c, i, A(1) % 2^i.w)
      [] i.op = "sext" -> RefBind(c, i, SignExtend(A(1), i.vw, i.w))
      [] i.op = "getelementptr" ->
            RefBind(c, i, (A(1) + PathOffset(i.path, [k \in 1..Len(i.path) |->
                IF i.path[k].struct THEN A(k + 1)
                ELSE Signed(A(k + 1), i.path[k].w)])) % 2^Word)
      [] i.op = "insertvalue" ->
            RefBind(c, i, ReplaceBits(A(1), Byte * PathOffset(i.path, i.idx), i.vw, A(2)))
      [] i.op = "extractvalue" ->
            RefBind(c, i, ExtractBits(A(1), Byte * PathOffset(i.path, i.idx), i.w))
      [] i.op = "insertelement" ->
            IF A(3) >= i.n THEN RefEnd(c, "vector")
            ELSE RefBind(c, i, ReplaceBits(A(1), i.vw * A(3), i.vw, A(2)))
      [] i.op = "extractelement" ->
            IF A(2) >= i.n THEN RefEnd(c, "vector")
            ELSE RefBind(c, i, ExtractBits(A(1), i.w * A(2), i.w))
      [] i.op \in {"fadd", "fsub", "fmul", "fdiv", "frem"} ->
            RefBind(c, i, FpArith(i.op, A(1), A(2)))
      [] i.op = "fcmp" -> RefBind(c, i, Truth(FpOrder(A(1), A(2)) \in FpAccepts(i.pred)))
      [] i.op \in {"fptrunc", "fpext", "fptoui", "fptosi", "uitofp", "sitofp"} ->
            RefBind(c, i, FpArith(i.op, A(1), 0) % 2^i.w)
      [] i.op \in Overflows -> RefBind(c, i, WithOverflow(i.op, i.vw, i.offset, A(1), A(2)))
      [] i.op \in Saturating -> RefBind(c, i, Saturated(i.op, i.w, A(1), A(2)))
      [] i.op = "fence" -> RefSkip(c)

VaCopied(P, c, dst, src, n) ==
    FoldLeft(LAMBDA d, k : IF d.end # "" THEN d
                           ELSE RefStore(d, dst + k, RefRead(c, src + k, Byte), Byte),
             c, [k \in 1..n |-> k - 1])

RefMemory(P, c, i) ==
    LET A(k) == RefVal(P, c, i.args[k]) IN
    CASE i.op = "alloca" ->
            RefAlloc(c, i, i.size * (IF i.args = <<>> THEN 1 ELSE A(1)), "stack")
      [] i.op = "load" ->
            IF RefFind(c, A(1), Size(i.w)) = 0 THEN RefEnd(c, "ptr")
            ELSE RefBind(c, i, RefRead(c, A(1), i.w))
      [] i.op = "store" -> RefSkip(RefStore(c, A(2), A(1), i.vw))
      [] i.op = "vacopy" ->
            RefSkip(VaCopied(P, c, A(1), A(2), IF P.wide THEN 3 * WordBytes ELSE WordBytes))

RefControl(P, c, i) ==
    LET A(k) == RefVal(P, c, i.args[k])
        args == [k \in 1..Len(i.args) - 1 |-> [v |-> A(k + 1), w |-> i.aw[k]]]
    IN
    CASE i.op = "ret" -> RefReturn(P, c, i)
      [] i.op = "br"  -> RefGoto(P, c, i.to)
      [] i.op = "condbr" -> RefGoto(P, c, IF A(1) = 1 THEN i.to ELSE i.else)
      [] i.op = "indirectbr" ->
            LET to == {b \in ToSet(i.dests) : BlockAddress(b) = A(1)} IN
            IF to = {} THEN RefEnd(c, "exec") ELSE RefGoto(P, c, CHOOSE b \in to : TRUE)
      [] i.op = "switch" ->
            LET hit == SelectInSeq(i.cases, LAMBDA k : k[1] = A(1)) IN
            RefGoto(P, c, IF hit = 0 THEN i.default ELSE i.cases[hit][2])
      [] i.op \in {"unreachable", "trap"} ->
            RefEnd(c, IF i.op = "trap" THEN "abort" ELSE "exec")
      [] i.op \in {"call", "invoke"} ->
            LET f == FnAt(P, A(1)) IN
            IF f = "" THEN RefEnd(c, "exec") ELSE RefCall(P, c, i, f, args)

Control == {"ret", "br", "condbr", "indirectbr", "switch", "unreachable",
            "trap", "call", "invoke"}
Memory  == {"alloca", "load", "store", "vacopy"}

RefStep(P, c) ==
    LET i == RefInst(P, c) IN
    CASE i.op \in Control -> RefControl(P, c, i)
      [] i.op \in Memory  -> RefMemory(P, c, i)
      [] OTHER -> RefData(P, c, i)

\* At most 2^k steps.
RECURSIVE RefRun(_, _, _)
RefRun(P, c, k) ==
    CASE c.end # "" -> c
      [] c.end = "" /\ k = 0 -> RefStep(P, c)
      [] c.end = "" /\ k > 0 -> LET d == RefRun(P, c, k - 1) IN RefRun(P, d, k - 1)

\* How the program ends on input x, and the value main returns; programs
\* here end within 256 steps.
Meaning(P, x) == LET c == RefRun(P, RefInit(P, x), 8) IN [end |-> c.end, val |-> c.val]
=============================================================================
