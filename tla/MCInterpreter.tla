---------------------------- MODULE MCInterpreter ----------------------------
(* Programs for Interpreter.tla: two symbolic bytes of two bits each, eight-*)
(* bit words, and code that meets every instruction and every handler.      *)
EXTENDS Interpreter

I(op, id, w, args) == Inst(op, id, w, args)
RetV(id, o, w)     == Inst("ret", id, 0, <<o>>) @@ [vw |-> w]
Load(id, w, p)     == Inst("load", id, w, <<p>>)
Store(id, o, w, p) == Inst("store", id, 0, <<o, p>>) @@ [vw |-> w]
Local(id, n)       == Inst("alloca", id, Word, <<>>) @@ [size |-> n]
Index(id, p, o, w) == Inst("getelementptr", id, Word, <<p, o>>)
                      @@ [path |-> <<[struct |-> FALSE, size |-> 1, w |-> w]>>]
Phi(id, w, inc)    == Inst("phi", id, w, <<>>) @@ [inc |-> inc]
Invoke(id, w, f, args, widths, to) == [Call(id, w, f, args, widths) EXCEPT !.op = "invoke"] @@ [to |-> to]
CallTo(id, w, o, args, widths) == [Call(id, w, "", args, widths) EXCEPT !.args = <<o>> \o args]
B(n, code) == [b |-> n, code |-> code]
Fn(params, blocks) == [params |-> params, vararg |-> FALSE, blocks |-> blocks]
VaFn(params, blocks) == [params |-> params, vararg |-> TRUE, blocks |-> blocks]
Zx(id, o) == Cast("zext", id, o, Byte, Word)
Kw(n) == K(n, Word)
Switch_(id, o, w, cases, default) ==
    Inst("switch", id, 0, <<o>>) @@ [vw |-> w, cases |-> cases, default |-> default]

\* Two symbolic bytes: v6 and v7 (two bits), v8 and v9 as words; v1 is their
\* address.
Sym == <<Local(1, 2),
         Call(2, 0, "klee_make_symbolic", <<V(1), Kw(2), Kw(0)>>, <<Word, Word, Word>>),
         Index(3, V(1), Kw(1), Word),
         Load(6, Byte, V(1)), Load(7, Byte, V(3)),
         Zx(8, V(6)), Zx(9, V(7))>>

Prog(names, funs) ==
    [names |-> <<"main", "klee_make_symbolic">> \o names, funs |-> funs,
     globals |-> <<>>, aliases |-> <<>>, wide |-> TRUE]

\* Division, remainder and shifts, checked and unchecked.
Arith ==
    Prog(<<>>, [main |-> Fn(<<>>, <<
        B(1, Sym \o <<
            I("SDiv", 10, Byte, <<V(6), V(7)>>),
            I("Shl", 11, Byte, <<V(10), V(6)>>),
            I("URem", 12, Word, <<V(8), Kw(3)>>),
            I("AShr", 13, Word, <<V(12), Kw(1)>>),
            Cast("sext", 14, V(11), Byte, Word),
            I("Xor", 15, Word, <<V(14), V(13)>>),
            I("LShr", 16, Word, <<V(15), V(9)>>),
            I("UDiv", 17, Word, <<V(16), V(8)>>),
            I("SRem", 18, Word, <<V(15), V(9)>>),
            I("Mul", 19, Word, <<V(17), V(18)>>),
            I("Or", 20, Word, <<V(19), V(15)>>),
            RetV(21, V(20), Word)>>)>>)])

\* A switch with shared targets, phis that exchange their values in a loop,
\* and an indirect branch.
Loops ==
    Prog(<<>>, [main |-> Fn(<<>>, <<
        B(1, Sym \o <<Switch_(10, V(8), Word, <<<<3, 2>>, <<1, 3>>, <<2, 2>>>>, 3)>>),
        B(2, <<Br(11, 4)>>),
        B(3, <<Phi(12, Word, <<<<1, Kw(5)>>, <<1, Kw(5)>>>>), Br(13, 4)>>),
        B(4, <<Phi(14, Word, <<<<3, V(12)>>, <<4, V(15)>>, <<2, Kw(1)>>>>),
               Phi(15, Word, <<<<2, Kw(2)>>, <<3, Kw(7)>>, <<4, V(14)>>>>),
               Phi(16, Word, <<<<4, V(17)>>, <<2, V(9)>>, <<3, V(9)>>>>),
               I("Sub", 17, Word, <<V(16), Kw(1)>>),
               ICmp("Sgt", 18, V(17), Kw(0), Word),
               CondBr(19, V(18), 4, 5)>>),
        B(5, <<ICmp("Ult", 20, V(6), K(2, Byte), Byte),
               I("select", 21, Word, <<V(20), <<"b", 6>>, <<"b", 7>>>>),
               I("indirectbr", 22, 0, <<V(21)>>) @@ [dests |-> <<6, 7, 6>>]>>),
        B(6, <<RetV(23, V(14), Word)>>),
        B(7, <<I("Add", 24, Word, <<V(14), V(15)>>), RetV(25, V(24), Word)>>)>>)])

\* A pointer into one of two objects or past their ends, read and written.
Objects ==
    Prog(<<"malloc", "calloc">>, [main |-> Fn(<<>>, <<
        B(1, Sym \o <<
            Call(10, Word, "malloc", <<Kw(3)>>, <<Word>>),
            Call(11, Word, "calloc", <<Kw(2), Kw(1)>>, <<Word, Word>>),
            Store(12, K(27, 6), 6, V(10)),
            ICmp("Ugt", 13, V(6), K(1, Byte), Byte),
            I("select", 14, Word, <<V(13), V(10), V(11)>>),
            Index(15, V(14), V(7), Byte),
            I("Sub", 16, Word, <<V(15), V(8)>>),
            Load(17, Byte, V(16)),
            Store(18, V(17), Byte, V(10)),
            Store(19, V(6), Byte, V(16)),
            Load(20, 6, V(10)),
            Load(21, 4, V(11)),
            Cast("zext", 22, V(20), 6, Word), Cast("zext", 23, V(21), 4, Word),
            I("Add", 24, Word, <<V(22), V(23)>>),
            RetV(25, V(24), Word)>>)>>)])

\* One error after each case: a write to a constant, a free of a stack
\* object, of the inside of an object, and twice; and the ends of a program.
Errors ==
    [Prog(<<"malloc", "free", "abort", "exit", "__assert_fail", "klee_silent_exit",
            "__ubsan_handle_add_overflow">>,
      [main |-> Fn(<<>>, <<
        B(1, Sym \o <<Call(10, Word, "malloc", <<Kw(3)>>, <<Word>>),
                      Switch_(11, V(6), Byte, <<<<0, 2>>, <<1, 3>>, <<2, 4>>>>, 5)>>),
        B(2, <<ICmp("Ult", 12, V(7), K(2, Byte), Byte),
               I("select", 13, Word, <<V(12), <<"g", 1>>, V(10)>>),
               Store(14, V(7), Byte, V(13)),
               Load(15, Byte, <<"g", 1>>), RetV(16, V(15), Byte)>>),
        B(3, <<ICmp("Eq", 17, V(7), K(0, Byte), Byte),
               I("select", 18, Word, <<V(17), V(1), V(10)>>),
               Call(19, 0, "free", <<V(18)>>, <<Word>>),
               ICmp("Eq", 20, V(7), K(1, Byte), Byte),
               I("select", 21, Word, <<V(20), V(10), Kw(0)>>),
               Call(22, 0, "free", <<V(21)>>, <<Word>>),
               RetV(23, Kw(7), Word)>>),
        B(4, <<Index(24, V(10), V(9), Word),
               Call(25, 0, "free", <<V(24)>>, <<Word>>),
               Load(26, Byte, V(10)), RetV(27, V(26), Byte)>>),
        B(5, <<Switch_(28, V(7), Byte, <<<<0, 6>>, <<1, 7>>, <<2, 8>>>>, 9)>>),
        B(6, <<Call(29, 0, "__assert_fail", <<Kw(0), Kw(0), Kw(0), Kw(0)>>,
                    <<Word, Word, Word, Word>>), I("unreachable", 30, 0, <<>>)>>),
        B(7, <<I("trap", 31, 0, <<>>), RetV(32, Kw(1), Word)>>),
        B(8, <<Call(33, 0, "exit", <<Kw(1)>>, <<Word>>), I("unreachable", 34, 0, <<>>)>>),
        B(9, <<I("unreachable", 35, 0, <<>>)>>)>>)])
     EXCEPT !.globals = <<[size |-> 2, ro |-> TRUE, init |-> <<1, 2>>]>>]

\* Symbolic sizes: of malloc, of an array on the stack, of realloc.
Sizes ==
    Prog(<<"malloc", "realloc", "memalign", "klee_get_obj_size", "_Znwm", "_ZdlPv">>,
     [main |-> Fn(<<>>, <<
        B(1, Sym \o <<
            I("Mul", 10, Word, <<V(8), Kw(20)>>),
            ICmp("Eq", 11, V(7), K(0, Byte), Byte),
            CondBr(12, V(11), 2, 3)>>),
        B(2, <<Call(13, Word, "malloc", <<V(10)>>, <<Word>>),
               ICmp("Eq", 14, V(13), Kw(0), Word),
               CondBr(15, V(14), 5, 4)>>),
        B(3, <<Inst("alloca", 16, Word, <<V(6)>>) @@ [size |-> 2],
               Call(17, Word, "klee_get_obj_size", <<V(16)>>, <<Word>>),
               Call(18, Word, "_Znwm", <<Kw(2)>>, <<Word>>),
               Store(19, K(6, 4), 4, V(18)),
               Call(20, Word, "realloc", <<V(18), V(9)>>, <<Word, Word>>),
               Load(21, Byte, V(20)),
               Call(22, 0, "_ZdlPv", <<V(20)>>, <<Word>>),
               Zx(23, V(21)),
               I("Add", 24, Word, <<V(23), V(17)>>), RetV(25, V(24), Word)>>),
        B(4, <<Call(26, Word, "klee_get_obj_size", <<V(13)>>, <<Word>>),
               Call(27, Word, "memalign", <<Kw(2), Kw(3)>>, <<Word, Word>>),
               Call(28, Word, "memalign", <<Kw(3), Kw(3)>>, <<Word, Word>>),
               Store(29, K(1, Byte), Byte, V(27)),
               I("Add", 30, Word, <<V(26), V(28)>>), RetV(31, V(30), Word)>>),
        B(5, <<RetV(32, Kw(99), Word)>>)>>)])

\* Calls through pointers and aliases, with the wrong types, from an invoke,
\* too deep, with too few arguments, and of a function that returns nothing.
Calls ==
    [Prog(<<"f", "g", "narrow", "rec", "nothing", "malloc">>,
      [f |-> Fn(<<Word>>, <<B(1, <<I("Add", 1, Word, <<<<"a", 1>>, Kw(1)>>), RetV(2, V(1), Word)>>)>>),
       g |-> Fn(<<Word>>, <<B(1, <<Local(1, 4), Store(2, <<"a", 1>>, Word, V(1)), Load(3, Word, V(1)),
                                   I("Mul", 4, Word, <<V(3), Kw(3)>>), RetV(5, V(4), Word)>>)>>),
       narrow |-> Fn(<<Byte, Word>>, <<B(1, <<Cast("sext", 1, <<"a", 1>>, Byte, Half),
                                              Cast("trunc", 2, <<"a", 2>>, Word, Half),
                                              I("Xor", 3, Half, <<V(1), V(2)>>), RetV(4, V(3), Half)>>)>>),
       rec |-> Fn(<<Word>>, <<
           B(1, <<Local(1, 1), ICmp("Eq", 2, <<"a", 1>>, Kw(0), Word), CondBr(3, V(2), 2, 3)>>),
           B(2, <<RetV(4, Kw(0), Word)>>),
           B(3, <<I("Sub", 5, Word, <<<<"a", 1>>, Kw(1)>>),
                  Call(6, Word, "rec", <<V(5)>>, <<Word>>),
                  I("Add", 7, Word, <<V(6), <<"a", 1>>>>), RetV(8, V(7), Word)>>)>>),
       nothing |-> Fn(<<>>, <<B(1, <<Ret>>)>>),
       main |-> Fn(<<>>, <<
        B(1, Sym \o <<
            ICmp("Ult", 10, V(6), K(2, Byte), Byte),
            I("select", 11, Word, <<V(10), <<"f", "f">>, <<"f", "g">>>>),
            CallTo(12, Word, V(11), <<V(8)>>, <<Word>>),
            CallTo(13, Word, <<"alias", "fa">>, <<V(12)>>, <<Word>>),
            [Call(14, Word, "narrow", <<V(13), V(7)>>, <<Word, Byte>>) EXCEPT !.sext = {0, 2}],
            Switch_(15, V(7), Byte, <<<<0, 2>>, <<1, 4>>, <<2, 6>>>>, 7)>>),
        B(2, <<Invoke(16, Word, "malloc", <<Kw(4)>>, <<Word>>, 3)>>),
        B(3, <<Phi(17, Word, <<<<2, V(14)>>>>), Store(18, V(17), Word, V(16)), RetV(19, V(17), Word)>>),
        B(4, <<I("Add", 20, Word, <<V(8), Kw(1)>>),
               Invoke(21, Word, "rec", <<V(20)>>, <<Word>>, 5)>>),
        B(5, <<RetV(22, V(21), Word)>>),
        B(6, <<ICmp("Ult", 23, V(6), K(2, Byte), Byte), CondBr(24, V(23), 8, 9)>>),
        B(7, <<CallTo(25, Word, Kw(1), <<>>, <<>>), RetV(26, V(25), Word)>>),
        B(8, <<Call(27, Word, "nothing", <<>>, <<>>), RetV(28, V(27), Word)>>),
        B(9, <<Call(29, Word, "f", <<>>, <<>>), RetV(30, V(29), Word)>>)>>)])
     EXCEPT !.aliases = [fa |-> <<"alias", "fb">>, fb |-> <<"f", "f">>]]

\* Variable arguments, a list that is copied, and an argument of two words.
Varargs(wide) ==
    LET area == IF wide THEN WordBytes ELSE 0 IN
    [Prog(<<"va", "llvm.va_start", "llvm.va_end">>,
      [va |-> VaFn(<<Word>>, <<B(1, <<
           Local(1, 12), Local(2, 12),
           Call(3, 0, "llvm.va_start", <<V(1)>>, <<Word>>),
           I("vacopy", 4, 0, <<V(2), V(1)>>),
           Call(5, 0, "llvm.va_end", <<V(1)>>, <<Word>>),
           Index(6, V(2), Kw(area), Word),
           Load(7, Word, V(6)),
           Load(8, Byte, V(7)),
           Index(9, V(7), Kw(IF wide THEN 8 ELSE 1), Word),
           Load(10, 16, V(9)),
           Cast("trunc", 11, V(10), 16, Word), Zx(12, V(8)),
           I("Add", 13, Word, <<V(11), V(12)>>),
           I("Sub", 14, Word, <<V(13), <<"a", 1>>>>),
           RetV(15, V(14), Word)>>)>>),
       main |-> Fn(<<>>, <<B(1, Sym \o <<
           Cast("zext", 10, V(7), Byte, 16),
           I("Mul", 11, 16, <<V(10), K(21, 16)>>),
           Call(12, Word, "va", <<V(8), V(6), V(11)>>, <<Word, Byte, 16>>),
           RetV(13, V(12), Word)>>)>>)])
     EXCEPT !.wide = wide]

\* Arithmetic with overflow and saturation on two-bit operands.
Field(id, w, o, off) == Inst("extractvalue", id, w, <<o>>)
                        @@ [path |-> <<[struct |-> TRUE, offs |-> <<0, off>>]>>, idx |-> <<IF w = Bool THEN 1 ELSE 0>>]
Over(k, op) == <<Inst(op, k, 3, <<V(6), V(7)>>) @@ [vw |-> Byte, offset |-> 1],
                 Field(k + 1, Byte, V(k), 1), Field(k + 2, Bool, V(k), 1),
                 Inst("select", k + 3, Byte, <<V(k + 2), K(1, Byte), V(k + 1)>>)>>
Overflowing(ops) ==
    Prog(<<"abort">>, [main |-> Fn(<<>>, <<
        B(1, Sym \o Over(10, ops[1]) \o Over(14, ops[2]) \o Over(18, ops[3])
             \o <<I("Add", 22, Byte, <<V(13), V(17)>>), I("Xor", 23, Byte, <<V(22), V(21)>>),
                  ICmp("Eq", 24, V(23), K(0, Byte), Byte), CondBr(25, V(24), 2, 3)>>),
        B(2, <<I("trap", 26, 0, <<>>), RetV(27, V(23), Byte)>>),
        B(3, <<RetV(28, V(23), Byte)>>)>>)])

Saturate ==
    Prog(<<>>, [main |-> Fn(<<>>, <<
        B(1, Sym \o <<I("sadd_sat", 10, Byte, <<V(6), V(7)>>), I("ssub_sat", 11, Byte, <<V(6), V(7)>>),
                      I("uadd_sat", 12, Byte, <<V(6), V(7)>>), I("usub_sat", 13, Byte, <<V(6), V(7)>>),
                      Cast("zext", 14, V(10), Byte, Word), Cast("zext", 15, V(11), Byte, Word),
                      I("Shl", 16, Word, <<V(14), Kw(4)>>), I("Or", 17, Word, <<V(15), V(16)>>),
                      Cast("zext", 18, V(12), Byte, Word), Cast("zext", 19, V(13), Byte, Word),
                      I("Shl", 20, Word, <<V(18), Kw(6)>>), I("Shl", 21, Word, <<V(19), Kw(2)>>),
                      I("Or", 22, Word, <<V(20), V(21)>>), I("Or", 23, Word, <<V(22), V(17)>>),
                      RetV(24, V(23), Word)>>)>>)])

\* Structures, arrays and vectors as values, and addresses into them; an
\* index outside a vector, and one that is symbolic.
Aggregates ==
    LET offs == <<0, 1>>
        pair == [struct |-> TRUE, offs |-> offs]
        row  == [struct |-> FALSE, size |-> 1, w |-> Byte]
        Elt(op, id, w, args, vw) == Inst(op, id, w, args) @@ [vw |-> vw, n |-> 3]
    IN
    Prog(<<>>, [main |-> Fn(<<>>, <<
        B(1, Sym \o <<
            InsertField(10, 6, K(0, 6), V(6), Byte, offs, 0),
            Inst("insertvalue", 11, 6, <<V(10), V(7)>>)
                @@ [vw |-> Byte, path |-> <<pair, row>>, idx |-> <<1, 1>>],
            Inst("extractvalue", 12, 4, <<V(11)>>) @@ [path |-> <<pair>>, idx |-> <<1>>],
            Local(13, 4),
            Store(14, V(11), 6, V(13)),
            Inst("getelementptr", 15, Word, <<V(13), K(0, Half), K(1, Half), V(6)>>)
                @@ [path |-> <<[struct |-> FALSE, size |-> 3, w |-> Half], pair, row>>],
            Load(16, Byte, V(15)),
            Cast("ptrtoint", 17, V(15), Word, Half), Cast("inttoptr", 18, V(17), Half, Word),
            Switch_(19, V(6), Byte, <<<<0, 2>>, <<1, 3>>>>, 4)>>),
        B(2, <<Elt("insertelement", 20, 6, <<V(11), V(16), K(1, Half)>>, Byte),
               Elt("insertelement", 21, 6, <<V(20), V(7), K(0, Half)>>, Byte),
               Elt("extractelement", 22, Byte, <<V(21), K(1, Half)>>, 6),
               Load(23, Byte, V(18)),
               I("Add", 24, Byte, <<V(22), V(23)>>),
               Cast("zext", 25, V(24), Byte, 6), I("Xor", 26, 6, <<V(25), V(21)>>),
               RetV(27, V(26), 6)>>),
        B(3, <<ICmp("Eq", 28, V(7), K(0, Byte), Byte), CondBr(29, V(28), 5, 6)>>),
        B(4, <<Elt("extractelement", 30, Byte, <<V(11), V(7)>>, 6), RetV(31, V(30), Byte)>>),
        B(5, <<Elt("insertelement", 32, 6, <<V(11), V(7), K(3, Half)>>, Byte), RetV(33, V(32), 6)>>),
        B(6, <<Elt("extractelement", 34, Byte, <<V(12), K(3, Half)>>, 6), RetV(35, V(34), Byte)>>)>>)])

\* Floating point, on symbolic operands and of a width that is not one.
Floats ==
    Prog(<<>>, [main |-> Fn(<<>>, <<
        B(1, Sym \o <<
            Cast("uitofp", 10, V(6), Byte, Half),
            Switch_(11, V(7), Byte, <<<<0, 2>>, <<1, 3>>, <<2, 4>>>>, 5)>>),
        B(2, <<Cast("uitofp", 12, V(8), Word, Half),
               I("fadd", 13, Half, <<V(12), K(2, Half)>>), I("fsub", 14, Half, <<V(13), K(5, Half)>>),
               I("fmul", 15, Half, <<V(14), V(13)>>), I("fdiv", 16, Half, <<V(15), V(12)>>),
               I("frem", 17, Half, <<V(16), V(12)>>), RetV(18, V(17), Half)>>),
        B(3, <<Cast("fpext", 19, V(10), Half, Word), Cast("fptrunc", 20, V(19), Word, Half),
               Cast("fptosi", 21, V(20), Half, Byte), Cast("fptoui", 22, V(20), Half, Word),
               Cast("sitofp", 23, V(22), Word, Word),
               ICmp("Ult", 24, V(21), K(2, Byte), Byte),
               I("fence", 25, 0, <<>>),
               I("select", 26, Word, <<V(24), V(23), V(22)>>), RetV(27, V(26), Word)>>),
        B(4, <<I("fadd", 28, Byte, <<V(6), V(6)>>), RetV(29, V(28), Byte)>>),
        B(5, <<Cast("fptosi", 30, V(6), Byte, Word), RetV(31, V(30), Word)>>)>>)])

\* Every predicate of fcmp, against a number and against a NaN.
FpPredicates == {"false", "true", "ord", "uno"} \cup
    {k \o r : k \in {"o", "u"}, r \in {"eq", "ne", "gt", "ge", "lt", "le"}}
Compares(pred) ==
    Prog(<<>>, [main |-> Fn(<<>>, <<
        B(1, Sym \o <<
            I("And", 10, Word, <<V(9), Kw(1)>>),
            I("Or", 11, Word, <<V(10), Kw(2)>>),
            Inst("fcmp", 12, Bool, <<V(8), V(11)>>) @@ [pred |-> pred],
            RetV(13, V(12), Bool)>>)>>)])

\* Where KLEE does something else than the program: llvm.fabs, a pointer to a
\* read-only object or another one that is made symbolic, and an object that
\* one path marks global and another one frees.
Deviations ==
    [Prog(<<"malloc", "free", "klee_mark_global", "llvm.fabs">>,
      [main |-> Fn(<<>>, <<
        B(1, Sym \o <<Call(10, Word, "malloc", <<Kw(1)>>, <<Word>>),
                      Switch_(11, V(6), Byte, <<<<0, 2>>, <<1, 3>>, <<2, 4>>>>, 5)>>),
        B(2, <<Call(12, Word, "llvm.fabs", <<V(9)>>, <<Word>>), RetV(13, V(12), Word)>>),
        B(3, <<ICmp("Ult", 14, V(7), K(2, Byte), Byte),
               I("select", 15, Word, <<V(14), <<"g", 1>>, V(10)>>),
               Call(16, 0, "klee_make_symbolic", <<V(15), Kw(1), Kw(0)>>, <<Word, Word, Word>>),
               Load(17, Byte, V(15)), RetV(18, V(17), Byte)>>),
        B(4, <<Call(19, 0, "klee_mark_global", <<V(10)>>, <<Word>>), RetV(20, Kw(1), Word)>>),
        B(5, <<Call(21, 0, "free", <<V(10)>>, <<Word>>), RetV(22, Kw(2), Word)>>)>>)])
     EXCEPT !.globals = <<[size |-> 1, ro |-> TRUE, init |-> <<1>>]>>]

\* Calls that stop KLEE while another path waits: a stack object marked global,
\* fixed objects that overlap, a list of arguments that is nowhere.
Crashing(code) ==
    Prog(<<"klee_mark_global", "klee_define_fixed_object", "va", "llvm.va_start">>,
     [va |-> VaFn(<<Word>>, <<B(1, <<Call(1, 0, "llvm.va_start", <<<<"a", 1>>>>, <<Word>>),
                                     RetV(2, <<"a", 1>>, Word)>>)>>),
      main |-> Fn(<<>>, <<
        B(1, Sym \o <<ICmp("Eq", 10, V(6), K(1, Byte), Byte), CondBr(11, V(10), 2, 3)>>),
        B(2, <<RetV(12, V(9), Word)>>),
        B(3, code \o <<RetV(20, Kw(1), Word)>>)>>)])
MarkLocal == <<Call(13, 0, "klee_mark_global", <<V(1)>>, <<Word>>)>>
Overlapping == <<Call(13, 0, "klee_define_fixed_object", <<Kw(100), Kw(3)>>, <<Word, Word>>),
                 Call(14, 0, "klee_define_fixed_object", <<Kw(102), Kw(3)>>, <<Word, Word>>)>>
BadList == <<Call(13, Word, "va", <<Kw(1), V(8)>>, <<Word, Word>>)>>

\* realloc of a stack object, in a frame that then returns.
Reallocated ==
    Prog(<<"grow", "realloc">>,
     [grow |-> Fn(<<Byte>>, <<B(1, <<
          Local(1, 1), Local(2, 2),
          Store(3, <<"a", 1>>, Byte, V(1)),
          Call(4, Word, "realloc", <<V(1), Kw(3)>>, <<Word, Word>>),
          Load(5, Byte, V(4)), RetV(6, V(5), Byte)>>)>>),
      main |-> Fn(<<>>, <<
        B(1, Sym \o <<Call(10, Byte, "grow", <<V(6)>>, <<Byte>>),
                      Call(11, Byte, "grow", <<V(7)>>, <<Byte>>),
                      I("Sub", 12, Byte, <<V(10), V(11)>>), RetV(13, V(12), Byte)>>)>>)])

\* The other functions KLEE answers itself.
Specials ==
    [Prog(<<"malloc", "free", "klee_assume", "klee_check_memory_access", "klee_mark_global",
           "klee_is_symbolic", "klee_get_value", "klee_define_fixed_object",
           "klee_silent_exit", "__ubsan_handle_add_overflow">>,
      [main |-> Fn(<<>>, <<
        B(1, Sym \o <<
            ICmp("Ne", 10, V(6), V(7), Byte), Zx(11, V(10)),
            Call(12, 0, "klee_assume", <<V(11)>>, <<Word>>),
            Call(13, Word, "malloc", <<Kw(2)>>, <<Word>>),
            Call(14, Word, "klee_is_symbolic", <<V(6)>>, <<Byte>>),
            Call(15, Word, "klee_get_value", <<V(8)>>, <<Word>>),
            I("And", 16, Word, <<V(14), Kw(0)>>), I("And", 17, Word, <<V(15), Kw(0)>>),
            Switch_(18, V(6), Byte, <<<<0, 2>>, <<1, 3>>, <<2, 4>>>>, 5)>>),
        B(2, <<I("UDiv", 19, Word, <<V(9), Kw(2)>>),
               ICmp("Eq", 20, V(19), Kw(1), Word), CondBr(21, V(20), 6, 7)>>),
        B(3, <<Call(22, 0, "klee_mark_global", <<V(13)>>, <<Word>>),
               Call(23, 0, "free", <<V(13)>>, <<Word>>), RetV(24, Kw(1), Word)>>),
        B(4, <<Call(25, 0, "klee_define_fixed_object", <<Kw(100), Kw(3)>>, <<Word, Word>>),
               Store(26, V(7), Byte, Kw(102)), Load(27, Byte, Kw(102)),
               ICmp("Eq", 28, V(7), K(0, Byte), Byte), CondBr(29, V(28), 8, 9)>>),
        B(5, <<ICmp("Ult", 30, V(7), K(2, Byte), Byte), CondBr(31, V(30), 10, 11)>>),
        B(6, <<Call(32, 0, "klee_check_memory_access", <<V(13), Kw(2)>>, <<Word, Word>>),
               Call(33, 0, "klee_check_memory_access", <<V(13), Kw(3)>>, <<Word, Word>>),
               RetV(34, Kw(2), Word)>>),
        B(7, <<Call(35, 0, "klee_silent_exit", <<Kw(0)>>, <<Word>>), I("unreachable", 36, 0, <<>>)>>),
        B(8, <<Call(37, 0, "__ubsan_handle_add_overflow", <<>>, <<>>), RetV(38, Kw(3), Word)>>),
        B(9, <<Zx(39, V(27)), I("Or", 40, Word, <<V(39), V(16)>>),
               I("Or", 41, Word, <<V(40), V(17)>>), RetV(42, V(41), Word)>>),
        B(10, <<Call(43, 0, "klee_make_symbolic", <<<<"g", 1>>, Kw(1), Kw(0)>>, <<Word, Word, Word>>),
                RetV(44, Kw(4), Word)>>),
        B(11, <<Call(45, 0, "klee_make_symbolic", <<V(13), Kw(1), Kw(0)>>, <<Word, Word, Word>>),
                RetV(46, Kw(5), Word)>>)>>)])
     EXCEPT !.globals = <<[size |-> 1, ro |-> TRUE, init |-> <<1>>]>>]

MCPrograms == [arith |-> Arith, loops |-> Loops, objects |-> Objects,
               errors |-> Errors, sizes |-> Sizes, calls |-> Calls,
               varargs |-> Varargs(TRUE), narrow |-> Varargs(FALSE),
               saturate |-> Saturate,
               signed |-> Overflowing(<<"sadd_with_overflow", "ssub_with_overflow",
                                        "smul_with_overflow">>),
               unsigned |-> Overflowing(<<"uadd_with_overflow", "usub_with_overflow",
                                          "umul_with_overflow">>),
               deviations |-> Deviations, marklocal |-> Crashing(MarkLocal),
               overlapping |-> Crashing(Overlapping), badlist |-> Crashing(BadList),
               reallocated |-> Reallocated,
               aggregates |-> Aggregates, floats |-> Floats, specials |-> Specials]
              @@ [pred \in FpPredicates |-> Compares(pred)]

MCOptions == {[lower |-> FALSE, flaky |-> FALSE, maxSym |-> 0],
              [lower |-> TRUE, flaky |-> TRUE, maxSym |-> 0],
              [lower |-> FALSE, flaky |-> FALSE, maxSym |-> 2]}

\* Floating point is any arithmetic on bit patterns; pattern 3 is a NaN.
MCFpArith(op, a, b) ==
    CASE op = "fadd" -> (a + b) % 16
      [] op = "fsub" -> (a - b) % 16
      [] op = "fmul" -> (a * b) % 16
      [] op = "fdiv" -> (a + 2 * b) % 16
      [] op = "frem" -> (a + 3 * b) % 16
      [] op = "fabs" -> a % 8
      [] OTHER -> a

MCFpOrder(a, b) ==
    CASE a = 3 \/ b = 3 -> "un"
      [] a # 3 /\ b # 3 /\ a < b -> "lt"
      [] a # 3 /\ b # 3 /\ a = b -> "eq"
      [] a # 3 /\ b # 3 /\ a > b -> "gt"
=============================================================================
