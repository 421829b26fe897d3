----------------------------- MODULE MCBackend -----------------------------
(* Families of programs for the SPARC and the ARM32 back end.              *)
EXTENDS Backend

NoFn == [allocai |-> 0, gp |-> 4, fp |-> 2, args |-> <<>>]
Reg3(c, sign, d, s, x) == [Plain EXCEPT !.code = c, !.sign = sign, !.r = <<d, s, x>>]
Imm3(c, sign, d, s, n) ==
    [Plain EXCEPT !.code = c, !.sign = sign, !.r = <<d, s, None>>, !.imm = TRUE, !.k = n]
Sized(op, size) == [op EXCEPT !.size = size]
Data == [Plain EXCEPT !.code = "DATA"]

(* The registers of each target that the programs use                      *)
Ints(target) == IF target = "sparc" THEN <<"l0", "l1", "l2", "i0">> ELSE <<"r0", "r4", "r5", "r1">>
Floats(target) == IF target = "sparc" THEN <<"f0", "f2", "f4">> ELSE <<"d0", "d8", "d2">>

Piece(target, list, ints, floats, exit, mem) ==
    [target |-> target, ops |-> << Data >> \o list, fn |-> NoFn, input |-> <<>>, externals |-> {},
     file |-> [r \in Range(Ints(target)) \cup Range(Floats(target)) |->
                  IF r \in Range(Ints(target)) THEN ints[CHOOSE i \in 1 .. 4 : Ints(target)[i] = r]
                  ELSE floats[CHOOSE i \in 1 .. 3 : Floats(target)[i] = r]],
     exit |-> exit, mem |-> mem]

First == <<7, -3, 2, 40>>
Second == <<-6000, 5, 8191, -1>>
Third == <<4, 600, 1, 9>>
Halves == <<6, -10, 4>>

(* The documentation gives each operation of the list a meaning            *)
Meant(p) ==
    \A i \in 1 .. Len(p.ops) :
        LET s == FoldLeft(Documented, Begin(p.file, p.mem, p.input), SubSeq(p.ops, 1, i - 1))
            op == p.ops[i]
        IN  CASE op.code \in {"DIV", "MOD", "LSH", "RSH"} -> Defined(op, s.reg)
              [] op.code \in Roundings -> Operand(op, 2, s.reg) # Nan
              [] op.code = "FDIV" -> Operand(op, 3, s.reg) # 0
              [] OTHER -> TRUE

Sums == {"ADD", "SUB", "RSB", "MUL", "AND", "OR", "XOR"} \X {TRUE}
Divs == {"HMUL", "DIV", "MOD"} \X BOOLEAN
Shifts == {<<"LSH", TRUE>>, <<"RSH", TRUE>>, <<"RSH", FALSE>>}
Constants == {-4097, -7, -1, 0, 1, 2, 3, 4, 5, 15, 16, 32, 63, 200, 255, 256, 1023, 1024, 4095, 4096}

AluRegs(target) ==
    LET R == Ints(target) IN
    {Reg3(c[1], c[2], d, s, x) : c \in Sums \cup Divs \cup Shifts \cup (Compares \X BOOLEAN),
                                 d \in {R[1], R[2]}, s \in {R[1], R[2]}, x \in {R[1], R[3]}}
    \cup {Reg3(c, TRUE, d, R[2], None) : c \in Unary, d \in {R[1], R[2]}}
AluImms(target) ==
    LET R == Ints(target) IN
    {Imm3(c[1], c[2], d, R[2], n) : c \in Sums \cup Divs \cup Shifts \cup ({"LT", "EQ"} \X BOOLEAN),
                                    d \in {R[1], R[2]}, n \in Constants}
    \cup {Imm3("MOV", TRUE, R[1], None, n) : n \in Constants}
Carries(target) ==
    LET R == Ints(target) IN
    {<<Reg3(c[1], TRUE, d, R[1], R[2]), Reg3(c[2], TRUE, e, R[3], x)>> :
        c \in {<<"ADDC", "ADDX">>, <<"SUBC", "SUBX">>}, d \in {R[1], R[3]}, e \in {R[2], R[3]},
        x \in {R[2], R[4]}}
    \cup {<<Imm3(c[1], TRUE, R[1], R[1], n), Imm3(c[2], TRUE, R[2], R[3], k)>> :
        c \in {<<"ADDC", "ADDX">>, <<"SUBC", "SUBX">>}, n \in {-1, 1, 5000}, k \in {0, -1, 3}}

(* Branches to the label at the start, and over an operation               *)
Back(target) ==
    LET R == Ints(target) IN
    {<<Reg3(c[1], c[2], None, R[1], R[2])>> : c \in Branches \X BOOLEAN}
    \cup {<<Imm3(c[1], c[2], None, R[1], n)>> : c \in Branches \X BOOLEAN, n \in {0, 7, -3, 4, 6000}}
Over(target) ==
    LET R == Ints(target) IN
    {<<[b EXCEPT !.fwd = TRUE], Imm3("ADD", TRUE, R[3], R[3], n), [Plain EXCEPT !.code = "PATCH"],
       Reg3("MOV", TRUE, R[4], R[3], None)>> :
       b \in {Reg3("BLT", TRUE, None, R[1], R[2]), Reg3("BGE", TRUE, None, R[1], R[2]),
              Imm3("JMP", TRUE, None, None, 0)}, n \in {1, 6000}}

(* Memory: bytes, half-words, words and numbers.  The area of a size has   *)
(* cells at its first address and 8 further                                *)
MCMem == [a \in 2000 .. 2008 |-> <<"byte", (a * 13) % 64>>]
         @@ [a \in {2100, 2108} |-> <<"half", a - 1500>>]
         @@ [a \in {2200, 2208, 6000} |-> <<"word", 9000 - 5 * (a % 4000)>>]
         @@ [a \in {2300, 2308} |-> <<"single", 2305 - a>>]
         @@ [a \in {2400, 2408} |-> <<"double", 2402 - a>>]
Area(op) == IF op.code \in FloatMemory THEN IF op.size = 4 THEN 2300 ELSE 2400
            ELSE CASE op.size = 1 -> 2000 [] op.size = 2 -> 2100 [] op.size = 4 -> 2200
Accesses == ({"LD", "LDX", "ST", "STX"} \X {1, 2, 4}) \cup ({"FLD", "FLDX", "FST", "FSTX"} \X {4, 8})
Indexed == {"LDX", "STX", "FLDX", "FSTX"}

(* An access with its address in the second register, its index in the     *)
(* third, and its value in v                                               *)
Access(target, c, sign, v) ==
    LET R == Ints(target)
        regs == CASE c[1] \in {"LD", "FLD"} -> <<v, R[2], None>>
                  [] c[1] \in {"LDX", "FLDX"} -> <<v, R[2], R[3]>>
                  [] c[1] \in {"ST", "FST"} -> <<R[2], v, None>>
                  [] c[1] \in {"STX", "FSTX"} -> <<R[2], R[3], v>>
    IN  [Plain EXCEPT !.code = c[1], !.sign = sign, !.size = c[2], !.r = regs]
WithImm(op, n) == [op EXCEPT !.imm = TRUE, !.r[ImmPlace(op)] = None, !.k = n]
AccessPiece(target, op, at, base, index) ==
    Piece(target, <<op>>, <<-35, base, index, 9>>, at, Range(Ints(target)) \cup Range(Floats(target)), MCMem)
(* The stored value is not read any more                                   *)
Dead(p) == [p EXCEPT !.exit = @ \ {p.ops[2].r[3]}]
ValueRegs(target, c) == IF c[1] \in FloatMemory THEN {Floats(target)[2]}
                        ELSE {Ints(target)[1]} \cup (IF c[1] \in {"LD", "LDX"} THEN {Ints(target)[2]} ELSE {})
MemoryPieces(target) ==
    LET Ops == UNION {{Access(target, c, sign, v) : sign \in BOOLEAN, v \in ValueRegs(target, c)} : c \in Accesses}
    IN  UNION {IF op.code \in Indexed
               THEN {AccessPiece(target, op, Halves, Area(op) + 8 - n, n) : n \in {0, 8, -8}}
                    \cup {AccessPiece(target, IF op.code \in {"STX", "FSTX"} THEN [WithImm(op, n) EXCEPT !.r[2] = Ints(target)[2]]
                                              ELSE WithImm(op, n),
                                      Halves, Area(op) + 8 - n, 0) : n \in {0, 8, -8, 200, -1020, 1040, 5000}}
               ELSE {AccessPiece(target, op, Halves, Area(op), 0)}
                    \cup {AccessPiece(target, WithImm(op, n), Halves, 0, 0) : n \in {Area(op) + 8}} : op \in Ops}
       \cup {AccessPiece(target, WithImm(Access(target, <<"LD", 4>>, TRUE, Ints(target)[1]), 6000), Halves, 0, 0)}
       \cup {Dead(AccessPiece(target, Access(target, <<"FSTX", size>>, TRUE, Floats(target)[2]), Halves, Area([Plain EXCEPT !.code = "FSTX", !.size = size]), 8)) :
                size \in {4, 8}}
(* A copy on ARM32 when all the registers it may choose from are in use     *)
Crowded == {[Piece("arm", <<op>>, <<2600, 2001, 3, 0>>, Halves, {"r0", "r1", "r2", "r3", "r4", "r5"}, MCMem)
                 EXCEPT !.file = [r2 |-> -8, r3 |-> 77] @@ @] :
               op \in {[Plain EXCEPT !.code = "MEMCPY", !.r = <<"r0", "r4", "r5">>]}}
Fills == {Piece("arm", <<op>>, <<2600, n, 5, 41>>, Halves, exit, MCMem) :
             op \in {Sized([Plain EXCEPT !.code = "MEMSET", !.r = <<"r0", "r4", "r5">>], size) : size \in {1, 2, 4}}
                     \cup {Sized(WithImm([Plain EXCEPT !.code = "MEMSET", !.r = <<"r0", "r4", None>>], -13), size) :
                              size \in {1, 2, 4}},
             n \in {1, 4}, exit \in {{"r0", "r4", "r5", "r1"}, {"r1"}}}
Copies(target) ==
    LET R == Ints(target)
        copy == [Plain EXCEPT !.code = "MEMCPY", !.r = <<R[1], R[2], R[3]>>]
    IN  {Piece(target, <<op>>, <<2600, 2001, 3, n>>, Halves, exit, MCMem) :
            op \in {copy} \cup {WithImm(copy, n) : n \in {1, 4}}, n \in {1},
            exit \in {Range(R), {R[4]}}}

(* Numbers                                                                 *)
FloatOps(target) ==
    LET R == Ints(target)
        F == Floats(target)
    IN  {Reg3(c, TRUE, d, s, x) : c \in FloatSums, d \in {F[1], F[2]}, s \in {F[1], F[2]}, x \in {F[1], F[3]}}
        \cup {Imm3(c, TRUE, d, F[2], q) : c \in FloatSums, d \in {F[1], F[2]}, q \in {2, -12}}
        \cup {Reg3(c, TRUE, d, F[2], None) : c \in {"FMOV", "FNEG"}, d \in {F[1], F[2]}}
        \cup {Imm3("FMOV", TRUE, F[1], None, q) : q \in {6, -3}}
        \cup {Reg3(c, TRUE, R[1], F[1], None) : c \in Roundings}
        \cup {Reg3("EXT", TRUE, F[1], R[2], None)}
FloatBacks(target) ==
    LET F == Floats(target) IN
    {Reg3(c, TRUE, None, F[1], F[2]) : c \in FloatBranches}
    \cup {Imm3(c, TRUE, None, F[1], q) : c \in FloatBranches, q \in {0, 6}}
Numbers == {Halves, <<-6, 8, 3>>, <<-8, 8, 0>>, <<4, 4, -1>>, <<7, -2, 5>>, <<-5, Nan, 2>>, <<Nan, 4, 6>>}
FloatPieces(target) ==
    {Piece(target, <<op>>, <<7, -3, 2, 40>>, numbers, Range(Ints(target)) \cup Range(Floats(target)), <<>>) :
        op \in FloatOps(target) \cup FloatBacks(target), numbers \in Numbers}

(* A jump to the address of the label, taken into a register               *)
Jumps(target) ==
    LET R == Ints(target) IN
    {<< [Plain EXCEPT !.code = c, !.r[1] = R[1], !.k = 4 * Base], Reg3("JMP", TRUE, R[1], None, None) >> :
        c \in {"REF_CODE", "REF_DATA"}}

Pieces(target) ==
    {Piece(target, list, ints, Halves, Range(Ints(target)), <<>>) :
        list \in {<<op>> : op \in AluRegs(target) \cup AluImms(target)} \cup Carries(target)
                 \cup Back(target) \cup Over(target) \cup Jumps(target),
        ints \in {First, Second, Third}}
    \cup MemoryPieces(target) \cup Copies(target) \cup FloatPieces(target)
    \cup (IF target = "arm" THEN Crowded \cup Fills ELSE {})

---------------------------------------------------------------------------
(* Whole functions                                                         *)
Op1(c, r) == [Plain EXCEPT !.code = c, !.r[1] = r]
OpImm(c, k) == [Plain EXCEPT !.code = c, !.imm = TRUE, !.k = k]
SetReg(r, n) == [Plain EXCEPT !.code = IF r \in S!FloatNames \cup {"d0", "d1", "d2", "d8"} THEN "FMOV" ELSE "MOV",
                              !.imm = TRUE, !.r[1] = r, !.k = n]
Give(r, size) == Sized(Op1(IF r \in Range(Floats("sparc")) \cup Range(Floats("arm")) THEN "FRET" ELSE "RET", r), size)
Function(target, fn, input, body, externals) ==
    [target |-> target, ops |-> << OpImm("PROLOG", 0) >> \o body, fn |-> [fn EXCEPT !.args = input],
     input |-> input, externals |-> externals, file |-> [r \in Range(Ints(target)) \cup Range(Floats(target)) |-> 0],
     exit |-> {}, mem |-> MCMem]

(* Arguments: each kind has a value of its own at each place               *)
IntArg(n) == [fp |-> FALSE, size |-> 4, value |-> n]
SingleArg(q) == [fp |-> TRUE, size |-> 4, value |-> q]
DoubleArg(q) == [fp |-> TRUE, size |-> 8, value |-> q]
ArgOf(kind, i) == CASE kind = "i" -> IntArg(100 - 30 * i) [] kind = "s" -> SingleArg(11 * i - 20)
                    [] kind = "d" -> DoubleArg(70 - 13 * i)
ArgsOf(kinds) == [i \in 1 .. Len(kinds) |-> ArgOf(kinds[i], i)]
Kinds == {"i", "s", "d"}
Shapes == UNION {[1 .. n -> Kinds] : n \in 1 .. 2}
          \cup {<<"i", "i", "i", "i", "i", "i", "i", "i">>, <<"i", "d", "d", "i", "i", "s">>,
                <<"i", "i", "i", "i", "i", "d", "s">>, <<"s", "i", "d", "s", "s", "i", "i", "d">>}
ArgReg(target, n) == (IF target = "sparc" THEN "i" ELSE "r") \o ToString(n)
GetArgs(target) ==
    LET Dest(shape, p) == IF shape[p] = "i" THEN Ints(target)[2] ELSE Floats(target)[2]
        Get(shape, p) == [Op1("GETARG", Dest(shape, p)) EXCEPT !.k = p - 1]
        Return(shape, p, size) == Give(Dest(shape, p), size)
    IN  UNION {{Function(target, NoFn, ArgsOf(shape), << Get(shape, p), Return(shape, p, size) >>, {}) :
                   p \in 1 .. Len(shape), size \in {4, 8}} : shape \in Shapes}

(* An integer argument read after its register was stored                  *)
SpilledArgs(target) ==
    {Function(target, NoFn, ArgsOf(shape),
              << [Op1("UREG", None) EXCEPT !.r[2] = ArgReg(target, p - 1), !.v = <<"A", p - 1>>],
                 [Op1("GETARG", Ints(target)[2]) EXCEPT !.k = p - 1], Give(Ints(target)[2], 4) >>, {}) :
        shape \in {<<"i", "i", "i">>}, p \in 1 .. 3}

(* Calls: the arguments are constants, registers and values in memory of   *)
(* each kind; an integer and a number kept in memory are read after it     *)
Callee == 1600
Stored1 == <<"R", 1>>
Stored2 == <<"FR", 1>>
Putargs(target) ==
    {OpImm("PUTARG", n) : n \in {-5, 4000}} \cup {Op1("PUTARG", Ints(target)[2])}
    \cup {[Op1("PUTARG", None) EXCEPT !.v = Stored1]}
    \cup {Sized(OpImm("FPUTARG", -10), size) : size \in {4, 8}}
    \cup {Sized(Op1("FPUTARG", Floats(target)[2]), size) : size \in {4, 8}}
    \cup {Sized([Op1("FPUTARG", None) EXCEPT !.v = Stored2], size) : size \in {4, 8}}
Repeated(op, n) == [i \in 1 .. n |-> op]
Lists(target) ==
    LET P == Putargs(target)
        single == Sized(Op1("FPUTARG", Floats(target)[2]), 4)
        double == Sized(Op1("FPUTARG", Floats(target)[2]), 8)
        int == Op1("PUTARG", Ints(target)[2])
    IN  {<<>>} \cup {<<a>> : a \in P} \cup {<<a, b>> : a \in P, b \in P}
        \cup {Repeated(a, 6) \o << b >> : a \in {int}, b \in P}
        \cup {Repeated(a, 8) \o << b >> : a \in {OpImm("PUTARG", 9), double}, b \in {int, single}}
        \cup {<<single, int, double, single, int, double>>}
Answers(target) ==
    {<< Op1("RETVAL", Ints(target)[1]), Give(Ints(target)[1], 4) >>,
     << [Plain EXCEPT !.code = "LREG", !.r[1] = Ints(target)[2], !.v = Stored1], Give(Ints(target)[2], 4) >>,
     << [Plain EXCEPT !.code = "LREG", !.r[1] = Floats(target)[2], !.v = Stored2], Give(Floats(target)[2], 8) >>}
    \cup {<< Sized(Op1("FRETVAL", Floats(target)[1]), size), Give(Floats(target)[1], size) >> : size \in {4, 8}}
CallOf(target, fn, list, to, answer) ==
    Function(target, fn, <<>>,
        << SetReg(Ints(target)[2], -31), SetReg(Floats(target)[2], 18),
           [Plain EXCEPT !.code = "UREG", !.r[2] = Ints(target)[2], !.v = Stored1],
           [Plain EXCEPT !.code = "SYNCREG", !.r[2] = Floats(target)[2], !.v = Stored2],
           OpImm("PREPARE", 0) >> \o list \o to \o answer, {Callee \div 4})
Direct == << OpImm("CALL", Callee) >>
Frames == {[NoFn EXCEPT !.gp = gp, !.allocai = mem] : gp \in {2, 5}, mem \in {0, 16}}
Calls(target) ==
    LET last == << [Plain EXCEPT !.code = "LREG", !.r[1] = Ints(target)[2], !.v = Stored1], Give(Ints(target)[2], 4) >>
        indirect == << SetReg(Ints(target)[3], Callee), Op1("CALL", Ints(target)[3]) >>
    IN  {CallOf(target, fn, list, Direct, last) : fn \in Frames, list \in Lists(target)}
        \cup {CallOf(target, fn, <<OpImm("PUTARG", 3)>>, to, answer) :
                 fn \in Frames, to \in {Direct, indirect}, answer \in Answers(target)}

(* A value kept in memory, below an area of the program of various sizes   *)
Slots(target) ==
    LET R == Ints(target)[2]
        F == Floats(target)[2]
    IN  UNION {{Function(target, [NoFn EXCEPT !.allocai = mem], <<>>,
                    << SetReg(R, -31), [Plain EXCEPT !.code = "UREG", !.r[2] = R, !.v = <<"R", i>>], SetReg(R, 5),
                       [Plain EXCEPT !.code = "LREG", !.r[1] = R, !.v = <<"R", i>>], Give(R, 4) >>, {}),
                Function(target, [NoFn EXCEPT !.allocai = mem], <<>>,
                    << SetReg(F, 18), [Plain EXCEPT !.code = "SYNCREG", !.r[2] = F, !.v = <<"FR", i % 2>>], SetReg(F, 5),
                       [Plain EXCEPT !.code = "LREG", !.r[1] = F, !.v = <<"FR", i % 2>>], Give(F, 8) >>, {})} :
               mem \in {0, 16, 232, 240, 400, 976, 1032, 1200}, i \in 0 .. 3}

(* Registers a callee may change keep their values across calls            *)
Across ==
    {Function("arm", fn, <<>>,
         << SetReg("r4", -31), SetReg("d8", 18), SetReg(keep, 21), OpImm("PREPARE", 0) >>
         \o list \o Direct \o << Give(keep, 8) >>, {Callee \div 4}) :
        fn \in Frames, keep \in {"r1", "d2"},
        list \in {<<>>, <<Op1("PUTARG", "r4")>>, Repeated(OpImm("PUTARG", 9), 6),
                  Repeated(Op1("FPUTARG", "d8"), 3) \o <<OpImm("PUTARG", 9)>>}}
    \cup {Function("arm", NoFn, <<>>,
             << SetReg("r4", -31), SetReg("r5", 6), SetReg("d2", 21), OpImm("PREPARE", 0) >>
             \o Direct \o << Give("d2", 8) >>, {Callee \div 4})}

(* Messages, addresses of code, alignment, and moves of the allocator      *)
Others(target) ==
    LET R == Ints(target) IN
    {Function(target, NoFn, <<>>, first \o << SetReg(R[2], -31), msg, Give(R[2], 4) >>, {}) :
        first \in {<<>>, <<SetReg(R[3], 8)>>}, msg \in {OpImm("MSG", n) : n \in {0, 3000, 5000}}}
    \cup {Function(target, NoFn, <<>>, << SetReg(R[3], 8), SetReg(R[2], -31), [Op1("MSG", None) EXCEPT !.k = 3000, !.r[2] = R[2]],
                                          OpImm("RET", 0) >>, {})}
    \cup {Function(target, NoFn, <<>>, << OpImm("RET", n) >>, {}) : n \in {-7, 6000}}
    \cup {Function(target, NoFn, <<>>, << SetReg(R[2], 17), OpImm("CODE_ALIGN", n),
                     [Plain EXCEPT !.code = "RENAMEREG", !.r = <<R[3], R[2], None>>], Give(R[3], 4) >>, {}) : n \in {4, 8, 16}}

(***************************************************************************)
(* The programs the SPARC back end does not translate as documented.       *)
(***************************************************************************)
(* A product of unsigned registers; a quotient of an unsigned number and   *)
(* 2; a quotient or remainder of a negative number and a power of two      *)
Powers == {2, 4, 8, 16, 32}
BadSparc(op, reg) ==
    \/ op.code = "MUL" /\ ~op.sign /\ ~op.imm
    \/ op.code = "DIV" /\ op.imm /\ op.k = 2 /\ ~op.sign
    \/ op.code \in Compares /\ op.imm /\ op.k < -4096
    \/ op.code \in {"DIV", "MOD"} /\ op.imm /\ op.sign /\ op.k \in Powers /\ reg[op.r[2]] < 0
    \/ op.code = "ST" /\ op.imm
    \/ op.code = "FST" /\ op.imm /\ op.size = 4
    \/ op.code = "FNEG" /\ op.r[1] # op.r[2]
(* ARM32: a borrow after a difference that overwrites an operand or is     *)
(* zero; the upper half of an unsigned product; shifts to the right by     *)
(* nothing; a float stored while its register stays live; a comparison of  *)
(* Nan; a float that is returned                                           *)
BadArm(op, reg, exit) ==
    \/ /\ op.code = "SUBC"
       /\ op.r[1] \in {op.r[2], op.r[3]} \/ Operand(op, 2, reg) = Operand(op, 3, reg)
    \/ op.code = "HMUL" /\ ~op.sign
    \/ op.code = "RSH" /\ op.imm /\ op.k = 0
    \/ op.code = "DIV" /\ op.imm /\ op.k = 1
    \/ op.code \in {"DIV", "MOD"} /\ op.imm /\ op.sign /\ A!PowerOf2(op.k) /\ reg[op.r[2]] < 0
    \/ op.code = "ST" /\ op.imm
    \/ op.code = "FSTX" /\ op.size = 4 /\ op.r[3] \in exit
    \/ op.code \in {"FBLT", "FBLE"} /\ Nan \in {Operand(op, 2, reg), Operand(op, 3, reg)}
    \/ op.code = "FRETVAL" /\ op.size = 4
(* ARM32: offsets and masks that a rotation has to be encoded for; slots   *)
(* and frames out of reach; arguments on the stack, and a message, that    *)
(* leave the stack pointer unaligned; a floating-point register kept on    *)
(* the stack beneath what is below it when it is read back                 *)
Turned(n) == IF A!Encodable(n) THEN A!ImmRotate(n) > 0 ELSE A!ImmRotate(-n) > 0
BadOffset(op) ==
    \/ /\ op.code \in {"LDX", "STX"} /\ op.imm /\ Turned(op.k)
       /\ op.size = 4 \/ (op.size = 1 /\ (op.code = "STX" \/ ~op.sign))
    \/ op.code = "MOD" /\ op.imm /\ op.sign /\ A!PowerOf2(op.k) /\ ~A!Encodable(op.k - 1)
BadFrame(p) ==
    LET put == SelectSeq(p.ops, LAMBDA op : op.code \in {"PUTARG", "FPUTARG"})
        places == A!Schedule([i \in 1 .. Len(put) |-> [fp |-> put[i].code = "FPUTARG", size |-> put[i].size]])
        below == FoldLeft(LAMBDA sum, i : IF places[i].in_reg THEN sum ELSE sum + put[i].size, 0, [i \in 1 .. Len(put) |-> i])
        even == Cardinality(A!Saved(p.ops)) % 2 = 0
    IN  \/ below % 8 # 0
        \/ ~A!Encodable(A!FrameSize(p.fn))
        \/ \E op \in Range(p.ops) :
              \/ op.code = "MSG" /\ ~even
              \/ op.code = "FRET" /\ op.r[1] = "d2" /\ (even \/ below # 0)
              \/ op.v[1] = "R" /\ Turned(A!GET_REG_POS(p.fn, op.v))
              \/ op.v[1] = "FR" /\ A!GET_REG_POS(p.fn, op.v) < -1020

(* A value kept in memory, so low in the frame that it lies where callees  *)
(* save their first arguments or find the others (GET_REG_POS subtracts 16 *)
(* that the size of the frame leaves out)                                  *)
Overlapping(p) ==
    LET Count(c, size) == Len(SelectSeq(p.ops, LAMBDA op : op.code = c /\ op.size \in size))
        passed == {<<Count("PUTARG", {4}), Count("FPUTARG", {4, 8})>>}
        words == Count("PUTARG", {4}) + Count("FPUTARG", {4}) + 2 * Count("FPUTARG", {8})
    IN  \E op \in Range(p.ops) :
           /\ op.code \in {"UREG", "SYNCREG"} /\ op.v[1] \in {"R", "FR"}
           /\ S!FrameSize(p.fn, passed) + S!GET_REG_POS(p.fn, op.v) < 92 + 4 * Max({0, words - 6})
Bad(p) ==
    \/ p.target = "sparc" /\ Overlapping(p)
    \/ p.target = "arm" /\ (BadFrame(p) \/ \E op \in Range(p.ops) : BadOffset(op))
    \/ \E i \in 1 .. Len(p.ops) :
          LET s == FoldLeft(Documented, Begin(p.file, p.mem, p.input), SubSeq(p.ops, 1, i - 1)) IN
          IF p.target = "sparc" THEN BadSparc(p.ops[i], s.reg) ELSE BadArm(p.ops[i], s.reg, p.exit)

Functions(target) == GetArgs(target) \cup SpilledArgs(target) \cup Calls(target) \cup Slots(target) \cup Others(target)
                     \cup (IF target = "arm" THEN Across ELSE {})
Everything == {p \in UNION {Pieces(t) \cup Functions(t) : t \in {"sparc", "arm"}} : Meant(p) /\ ~Bad(p)}
MCResult == -77
MCInt == {"l0"}
=============================================================================
