------------------------------ MODULE Prepare ------------------------------
(* What KLEE does to a program before it runs it (KModule): the division   *)
(* and shift checks, the lowering of intrinsics and of switches, the       *)
(* ordering of phi nodes, and the tables the interpreter works from.       *)
(* The passes of LLVM itself (scalarizer, atomics, CFG simplification) are *)
(* not modelled: programs here need none of them.                          *)
(*                                                                         *)
(* An instruction that a pass adds for instruction n is numbered           *)
(* Temp(n, k); programs number their own below 100.                        *)
EXTENDS Llvm

Temp(n, k) == n + 100 * k

V(n)    == <<"v", n>>
K(n, w) == <<"c", n % 2^w, w>>

Inst(op, id, w, args) == [op |-> op, id |-> id, w |-> w, args |-> args]

Cast(op, id, o, from, to) == Inst(op, id, to, <<o>>) @@ [vw |-> from]

ICmp(pred, id, l, r, w) ==
    Inst("icmp", id, Bool, <<l, r>>) @@ [pred |-> pred, vw |-> w]

Call(id, w, f, args, widths) ==
    Inst("call", id, w, <<<<"f", f>>>> \o args) @@ [aw |-> widths, sext |-> {}]

Ret == Inst("ret", 99, 0, <<>>)
CondBr(id, c, to, else) == Inst("condbr", id, 0, <<c>>) @@ [to |-> to, else |-> else]

\* F itself; TLC computes it here rather than where it is first used.
Now(F) == CHOOSE x \in {F} : x = x

MapBlocks(F, Code(_)) ==
    [F EXCEPT !.blocks = [k \in DOMAIN @ |-> [@[k] EXCEPT !.code = Code(@)]]]

\* Each instruction of every block replaced by a sequence.
Expanded(F, Seq1(_)) ==
    MapBlocks(F, LAMBDA code : FlattenSeq([k \in DOMAIN code |-> Seq1(code[k])]))

-----------------------------------------------------------------------------
(* Checks.cpp and runtime/Intrinsic.                                       *)

\* CreateIntCast of operand o to i64, the sign ignored.
ToWord(id, o, w) ==
    CASE w = Word -> [code |-> <<>>, o |-> o]
      [] w < Word -> [code |-> <<Cast("zext", id, o, w, Word)>>, o |-> V(id)]
      [] w > Word -> [code |-> <<Cast("trunc", id, o, w, Word)>>, o |-> V(id)]

NeedsDivCheck(i) ==
    /\ i.op \in Divisions
    /\ ~(IsConstant(i.args[2]) /\ i.args[2] # K(0, i.w))

DivCheck(i) ==
    IF ~NeedsDivCheck(i) THEN <<i>>
    ELSE LET d == ToWord(Temp(i.id, 1), i.args[2], i.w) IN
         d.code \o <<Call(Temp(i.id, 2), 0, "klee_div_zero_check", <<d.o>>, <<Word>>), i>>

NeedsShiftCheck(i) ==
    /\ i.op \in Shifts
    /\ ~(i.args[2][1] = "c" /\ Signed(i.args[2][2], i.w) >= 0 /\ i.args[2][2] < i.w)

OvershiftCheck(i) ==
    IF ~NeedsShiftCheck(i) THEN <<i>>
    ELSE LET d == ToWord(Temp(i.id, 1), i.args[2], i.w) IN
         d.code \o <<Call(Temp(i.id, 2), 0, "klee_overshift_check",
                          <<K(i.w, Word), d.o>>, <<Word, Word>>), i>>

ReportError(kind) ==
    <<Call(2, 0, "klee_report_error", <<K(0, Word), K(0, Word), K(0, Word), kind>>,
           <<Word, Word, Word, Word>>), Ret>>

klee_div_zero_check ==
    [params |-> <<Word>>, vararg |-> FALSE, blocks |-> <<
        [b |-> 1, code |-> <<ICmp("Eq", 1, <<"a", 1>>, K(0, Word), Word),
                             CondBr(3, V(1), 2, 3)>>],
        [b |-> 2, code |-> ReportError(<<"c", 0, Word>>)],
        [b |-> 3, code |-> <<Ret>>]>>]

klee_overshift_check ==
    [params |-> <<Word, Word>>, vararg |-> FALSE, blocks |-> <<
        [b |-> 1, code |-> <<ICmp("Uge", 1, <<"a", 2>>, <<"a", 1>>, Word),
                             CondBr(3, V(1), 2, 3)>>],
        [b |-> 2, code |-> ReportError(<<"c", 1, Word>>)],
        [b |-> 3, code |-> <<Ret>>]>>]

\* The runtime functions are linked in behind those of the program.
Link(P) ==
    [P EXCEPT !.names = @ \o <<"klee_div_zero_check", "klee_overshift_check",
                               "klee_report_error">>,
              !.funs = @ @@ [klee_div_zero_check |-> klee_div_zero_check,
                             klee_overshift_check |-> klee_overshift_check]]

-----------------------------------------------------------------------------
(* IntrinsicCleaner.cpp.                                                   *)

VaCopyLoad(i, k, src) == Inst("load", Temp(i.id, k), Word, <<src>>)
VaCopyStore(i, k, val, dst) == Inst("store", Temp(i.id, k), 0, <<val, dst>>) @@ [vw |-> Word]
NextWord(i, k, o) ==
    Inst("getelementptr", Temp(i.id, k), Word, <<o, K(1, Word)>>)
    @@ [path |-> <<[struct |-> FALSE, size |-> WordBytes, w |-> Word]>>]

LowerVaCopy(P, i) ==
    LET T(k) == V(Temp(i.id, k))  dst == i.args[1]  src == i.args[2] IN
    <<VaCopyLoad(i, 1, src), VaCopyStore(i, 2, T(1), dst)>> \o
    IF ~P.wide THEN <<>>
    ELSE <<NextWord(i, 3, dst), NextWord(i, 4, src),
           VaCopyLoad(i, 5, T(4)), VaCopyStore(i, 6, T(5), T(3)),
           NextWord(i, 7, T(3)), NextWord(i, 8, T(4)),
           VaCopyLoad(i, 9, T(8)), VaCopyStore(i, 10, T(9), T(7))>>

Operation(op) ==
    CASE op \in {"sadd_with_overflow", "uadd_with_overflow"} -> "Add"
      [] op \in {"ssub_with_overflow", "usub_with_overflow"} -> "Sub"
      [] op \in {"smul_with_overflow", "umul_with_overflow"} -> "Mul"

InsertField(id, w, agg, val, vw, offs, k) ==
    Inst("insertvalue", id, w, <<agg, val>>)
    @@ [vw |-> vw, path |-> <<[struct |-> TRUE, offs |-> offs]>>, idx |-> <<k>>]

\* Computed in twice the width, where nothing overflows, and compared with
\* the least and greatest values of the operands' type.
LowerOverflow(i) ==
    LET bw  == i.vw
        bw2 == 2 * bw
        T(k) == V(Temp(i.id, k))
        uns == i.op \in {"uadd_with_overflow", "usub_with_overflow", "umul_with_overflow"}
        ext == IF uns THEN "zext" ELSE "sext"
        flag == IF uns
                THEN <<ICmp("Ugt", Temp(i.id, 4), T(3), K(2^bw - 1, bw2), bw2)>>
                ELSE <<ICmp("Sgt", Temp(i.id, 5), T(3), K(2^(bw - 1) - 1, bw2), bw2),
                       ICmp("Slt", Temp(i.id, 6), T(3), K(-(2^(bw - 1)), bw2), bw2),
                       Inst("Or", Temp(i.id, 4), Bool, <<T(5), T(6)>>)>>
        offs == <<0, i.offset>>
    IN  <<Cast(ext, Temp(i.id, 1), i.args[1], bw, bw2),
          Cast(ext, Temp(i.id, 2), i.args[2], bw, bw2),
          Inst(Operation(i.op), Temp(i.id, 3), bw2, <<T(1), T(2)>>)>>
        \o flag \o
        <<Cast("trunc", Temp(i.id, 7), T(3), bw2, bw),
          InsertField(Temp(i.id, 8), i.w, K(0, i.w), T(7), bw, offs, 0),
          InsertField(i.id, i.w, T(8), T(4), Bool, offs, 1)>>

LowerUnsignedSat(i) ==
    LET x == i.args[1]  y == i.args[2]  T(k) == V(Temp(i.id, k)) IN
    IF i.op = "usub_sat"
    THEN <<Inst("Sub", Temp(i.id, 1), i.w, <<x, y>>),
           ICmp("Ult", Temp(i.id, 2), x, y, i.w),
           Inst("select", i.id, i.w, <<T(2), K(0, i.w), T(1)>>)>>
    ELSE <<Inst("Add", Temp(i.id, 1), i.w, <<x, y>>),
           ICmp("Ult", Temp(i.id, 2), T(1), x, i.w),
           Inst("select", i.id, i.w, <<T(2), K(2^i.w - 1, i.w), T(1)>>)>>

\* The sign of the result differs from the sign of the first operand, and
\* the operands' signs differ (subtraction) or agree (addition).
LowerSignedSat(i) ==
    LET x == i.args[1]  y == i.args[2]
        T(k) == V(Temp(i.id, k))
        sub  == i.op = "ssub_sat"
        zero == K(0, i.w)
        smin == K(2^(i.w - 1), i.w)
        smax == K(2^(i.w - 1) - 1, i.w)
        Bit(op, k, l, r) == Inst(op, Temp(i.id, k), Bool, <<l, r>>)
    IN  <<Inst(IF sub THEN "Sub" ELSE "Add", Temp(i.id, 1), i.w, <<x, y>>),
          ICmp("Slt", Temp(i.id, 2), x, zero, i.w),
          ICmp("Slt", Temp(i.id, 3), y, zero, i.w),
          ICmp("Slt", Temp(i.id, 4), T(1), zero, i.w),
          Inst("select", Temp(i.id, 5), i.w,
               IF sub THEN <<T(3), smax, smin>> ELSE <<T(3), smin, smax>>),
          Bit("Xor", 6, T(2), T(4)),
          Bit("Xor", 7, T(2), T(3))>>
        \o (IF sub THEN <<Bit("And", 9, T(6), T(7))>>
            ELSE <<Bit("Xor", 8, T(7), K(1, Bool)), Bit("And", 9, T(6), T(8))>>)
        \o <<Inst("select", i.id, i.w, <<T(9), T(5), T(1)>>)>>

LowerTrap(i) ==
    <<Call(Temp(i.id, 1), 0, "abort", <<>>, <<>>), Inst("unreachable", i.id, 0, <<>>)>>

LowerIntrinsic(P, i) ==
    CASE i.op = "vacopy" -> LowerVaCopy(P, i)
      [] i.op \in Overflows -> LowerOverflow(i)
      [] i.op \in {"uadd_sat", "usub_sat"} -> LowerUnsignedSat(i)
      [] i.op \in {"sadd_sat", "ssub_sat"} -> LowerSignedSat(i)
      [] i.op = "trap" -> LowerTrap(i)
      [] OTHER -> <<i>>

\* llvm.trap ends its block: what followed it is deleted.
CutAtTrap(code) ==
    LET t == SelectInSeq(code, LAMBDA i : i.op = "trap") IN
    IF t = 0 THEN code ELSE SubSeq(code, 1, t)

IntrinsicCleaner(P, F) ==
    Expanded(MapBlocks(F, CutAtTrap), LAMBDA i : LowerIntrinsic(P, i))

-----------------------------------------------------------------------------
(* LowerSwitch.cpp.                                                        *)

NextBlock(F) == 1 + Max({F.blocks[k].b : k \in 1..Len(F.blocks)})
Place(F, b)  == SelectInSeq(F.blocks, LAMBDA k : k.b = b)

\* In the phis of block b, the first entry from `from` comes from `to`.
Redirect(F, b, from, to) ==
    LET One(i) == IF i.op # "phi" THEN i
                  ELSE [i EXCEPT !.inc[SelectInSeq(i.inc, LAMBDA e : e[1] = from)][1] = to]
    IN  [F EXCEPT !.blocks[Place(F, b)].code = [k \in DOMAIN @ |-> One(@[k])]]

Br(id, to) == Inst("br", id, 0, <<>>) @@ [to |-> to]

\* One comparison in front of those built so far; acc.head is where control
\* goes when none of them holds.
ConvertCase(acc, si, b, case, k) ==
    LET nb   == NextBlock(acc.F)
        node == [b |-> nb, code |->
                   <<ICmp("Eq", Temp(si.id, 10 + k), si.args[1], K(case[1], si.vw), si.vw),
                     CondBr(Temp(si.id, 30 + k), V(Temp(si.id, 10 + k)), case[2], acc.head)>>]
        F1   == [acc.F EXCEPT !.blocks = InsertAt(@, Place(acc.F, b) + 1, node)]
    IN  [F |-> Now(Redirect(F1, case[2], b, nb)), head |-> nb]

ProcessSwitch(F, b) ==
    LET si == Last(BlockOf(F, b).code)
        nd == NextBlock(F)
        F1 == [F EXCEPT !.blocks = InsertAt(@, Place(F, si.default),
                    [b |-> nd, code |-> <<Br(Temp(si.id, 9), si.default)>>])]
        cases == Reverse(si.cases)
        done  == FoldLeft(LAMBDA acc, k : ConvertCase(acc, si, b, cases[k], k),
                          [F |-> Now(Redirect(F1, si.default, b, nd)), head |-> nd],
                          [k \in 1..Len(cases) |-> k])
        at == Place(done.F, b)
    IN  [done.F EXCEPT !.blocks[at].code =
            Append(Front(@), Br(si.id, done.head))]

LowerSwitch(F) ==
    LET todo == SelectSeq(F.blocks, LAMBDA k : Last(k.code).op = "switch") IN
    FoldLeft(LAMBDA G, k : Now(ProcessSwitch(G, k.b)), F, todo)

-----------------------------------------------------------------------------
(* PhiCleaner.cpp.                                                         *)

\* The entries of p in the order of the blocks of the reference.
InOrder(p, reference) ==
    [p EXCEPT !.inc = [k \in DOMAIN @ |->
        <<reference.inc[k][1],
          p.inc[SelectInSeq(p.inc, LAMBDA e : e[1] = reference.inc[k][1])][2]>>]]

BeforeTerminator(F, b, i) ==
    [F EXCEPT !.blocks[Place(F, b)].code = Front(@) \o <<i, Last(@)>>]

\* Mutant: phis are taken to be read one after another.
PhiLeft(F, b, j, k) == F

\* Entry k of the phi at index j of block b reads an earlier phi of the
\* block: it is copied at the end of the incoming block.
MovePhi(F, b, j, k) ==
    LET p   == BlockOf(F, b).code[j]
        tmp == Temp(p.id, 50 + k)
        F1  == [F EXCEPT !.blocks[Place(F, b)].code[j].inc[k][2] = V(tmp)]
    IN  BeforeTerminator(F1, p.inc[k][1], Cast("bitcast", tmp, p.inc[k][2], p.w, p.w))

CleanPhi(F, b, j) ==
    LET ref  == BlockOf(F, b).code[1]
        F1   == [F EXCEPT !.blocks[Place(F, b)].code[j] = InOrder(@, ref)]
        prev == {V(BlockOf(F, b).code[m].id) : m \in 1..j - 1}
    IN  FoldLeft(LAMBDA G, k :
                   IF BlockOf(G, b).code[j].inc[k][2] \in prev
                   THEN MovePhi(G, b, j, k) ELSE G,
                 F1, [k \in 1..Len(ref.inc) |-> k])

CleanBlock(F, b) ==
    LET n == Len(Phis(BlockOf(F, b).code)) IN
    FoldLeft(LAMBDA G, j : CleanPhi(G, b, j), F, [j \in 1..IF n = 0 THEN 0 ELSE n - 1 |-> j + 1])

RECURSIVE CleanBlocks(_, _)
CleanBlocks(F, blocks) ==
    IF blocks = <<>> THEN F
    ELSE CHOOSE G \in {CleanBlocks(H, Tail(blocks)) :
                            H \in {Now(CleanBlock(F, Head(blocks).b))}} : TRUE

PhiCleaner(F) == CleanBlocks(F, F.blocks)

-----------------------------------------------------------------------------
(* KModule::instrument and optimiseAndPrepare, the switch lowered or not.  *)

Instrument(P, F) ==
    IntrinsicCleaner(P, Expanded(Expanded(F, DivCheck), OvershiftCheck))

OptimiseAndPrepare(P, F, lower) ==
    PhiCleaner(Now(IntrinsicCleaner(P, Now(IF lower THEN LowerSwitch(F) ELSE F))))

Prepared(P, lower) ==
    LET Q == Link(P) IN
    [Q EXCEPT !.funs = [f \in DOMAIN Q.funs |->
        OptimiseAndPrepare(Q, Now(Instrument(Q, Q.funs[f])), lower)]]

-----------------------------------------------------------------------------
(* KFunction and the constant table.                                       *)

Instructions(F) == FlattenSeq([k \in 1..Len(F.blocks) |-> F.blocks[k].code])

\* basicBlockEntry: the index of the first instruction of a block, from 0.
BasicBlockEntry(F) ==
    [b \in {F.blocks[k].b : k \in 1..Len(F.blocks)} |->
        FoldLeft(LAMBDA n, k : n + Len(k.code), 0, SubSeq(F.blocks, 1, Place(F, b) - 1))]

\* The first registers are those of the arguments.
RegisterMap(F) ==
    LET code == Instructions(F) IN
    [n \in {code[k].id : k \in 1..Len(code)} |->
        Len(F.params) + SelectInSeq(code, LAMBDA i : i.id = n) - 1]

NumRegisters(F) == Len(F.params) + Len(Instructions(F))

OperandsOf(i) == IF i.op = "phi" THEN [k \in 1..Len(i.inc) |-> i.inc[k][2]] ELSE i.args

\* getConstantID: a constant gets the next number when it is first met.
Constants(Q) ==
    LET defined == SelectSeq(Q.names, LAMBDA f : f \in DOMAIN Q.funs)
        code == FlattenSeq([k \in 1..Len(defined) |-> Instructions(Q.funs[defined[k]])])
        all  == FlattenSeq([k \in 1..Len(code) |-> OperandsOf(code[k])])
        New(k) == IsConstant(all[k]) /\ \A j \in 1..k - 1 : all[j] # all[k]
    IN  FlattenSeq([k \in 1..Len(all) |-> IF New(k) THEN <<all[k]>> ELSE <<>>])

GetOperandNum(o, registers, constants) ==
    CASE o[1] = "v" -> registers[o[2]]
      [] o[1] = "a" -> o[2] - 1
      [] OTHER -> -(SelectInSeq(constants, LAMBDA c : c = o) - 1 + 2)

\* computeOffsets: constant indices are added up, the others are kept with
\* the number of their operand and the size of their elements.
ComputeOffsets(path, idx) ==
    LET step(acc, k) ==
            LET t == path[k] IN
            CASE t.struct -> [acc EXCEPT !.offset = (@ + t.offs[idx[k][2] + 1]) % 2^Word]
              [] ~t.struct /\ IsConstant(idx[k]) ->
                    [acc EXCEPT !.offset =
                        (@ + SignExtend(idx[k][2], t.w, Word) * t.size) % 2^Word]
              [] ~t.struct /\ ~IsConstant(idx[k]) ->
                    [acc EXCEPT !.indices = Append(@, <<k, t.size>>)]
    IN  FoldLeft(step, [offset |-> 0, indices |-> <<>>], [k \in 1..Len(path) |-> k])

\* bindInstructionConstants.
BindConstants(i) ==
    CASE i.op = "getelementptr" -> ComputeOffsets(i.path, Tail(i.args))
      [] i.op \in {"insertvalue", "extractvalue"} ->
            ComputeOffsets(i.path, [k \in DOMAIN i.idx |-> K(i.idx[k], Half)])
      [] OTHER -> [offset |-> 0, indices |-> <<>>]

KFunction(Q, f, constants) ==
    LET F    == Q.funs[f]
        code == Instructions(F)
        regs == RegisterMap(F)
        entry == BasicBlockEntry(F)
        parent(k) == CHOOSE b \in DOMAIN entry :
                        entry[b] < k /\ k <= entry[b] + Len(BlockOf(F, b).code)
        inst(k) == BindConstants(code[k]) @@ code[k] @@
            [dest |-> regs[code[k].id], parent |-> parent(k),
             used |-> Used(F, code[k].id),
             operands |-> [j \in 1..Len(OperandsOf(code[k])) |->
                GetOperandNum(OperandsOf(code[k])[j], regs, constants)]]
    IN  [instructions |-> [k \in 1..Len(code) |-> inst(k)],
         basicBlockEntry |-> entry, numRegisters |-> NumRegisters(F),
         params |-> F.params, vararg |-> F.vararg]

\* The module the interpreter runs.
KModule(P, lower) ==
    LET Q == Prepared(P, lower)
        constants == Constants(Q)
    IN  [constants |-> constants, wide |-> Q.wide, names |-> Q.names,
         globals |-> Q.globals, aliases |-> Q.aliases,
         functions |-> [f \in DOMAIN Q.funs |-> KFunction(Q, f, constants)]]
=============================================================================
