---------------------------- MODULE SparcEmitter ----------------------------
(***************************************************************************)
(* The SPARC back end: the words jit_gen_op emits for an operation         *)
(* (sparc-specific.h), after the instruction words of sparc-codegen.h: the *)
(* registers, conditions and operation numbers it names, the formats of    *)
(* the words and the macros that fill them in, for the instructions used.  *)
(*                                                                         *)
(* The circumstances e of an operation are the function it is in (fn:      *)
(* allocai bytes of memory, gp and fp virtual registers, and the arguments *)
(* args), the numbers of integer and floating-point arguments it passes    *)
(* (passed), the position at of its first word, the label a branch goes    *)
(* to, the prepared arguments, the registers live after it (out), and      *)
(* whether the register an argument came in still holds it (held).         *)
(***************************************************************************)
EXTENDS RiscMeaning

(* SparcRegister                                                           *)
Window(letter, first) == {<<letter \o ToString(i), first + i>> : i \in 0 .. 7}
Named == Window("g", 0) \cup Window("o", 8) \cup Window("l", 16) \cup Window("i", 24)
         \cup {<<"sp", 14>>, <<"fp", 30>>, <<"none", 0>>}
         \cup {<<"f" \o ToString(i), i>> : i \in 0 .. 31}
FloatNames == {"f" \o ToString(i) : i \in 0 .. 31}
Sparc == [name \in {n[1] : n \in Named} |-> (CHOOSE n \in Named : n[1] = name)[2]]
g0 == 0
g1 == 1
g2 == 2
o0 == 8
o7 == 15
sp == 14
fp == 30
i0 == 24
i7 == 31
f0 == 0
f30 == 30

(* SparcCond and SparcFCond                                                *)
Cond == [be |-> 1, ble |-> 2, bl |-> 3, bleu |-> 4, blu |-> 5, boverflow |-> 7,
         balways |-> 8, bne |-> 9, bg |-> 10, bge |-> 11, bgu |-> 12, bgeu |-> 13,
         bnoverflow |-> 15]
FCond == [fbne |-> 1, fbl |-> 4, fbg |-> 6, fbe |-> 9, fbge |-> 11, fble |-> 13]
xcc == 6

(* The formats                                                             *)
Format1(disp) == Packed(<< <<1, 30, 2>>, <<disp, 0, 30>> >>)
Format2a(val, oper, dest) ==
    Packed(<< <<0, 30, 2>>, <<dest, 25, 5>>, <<oper, 22, 3>>, <<val, 0, 22>> >>)
Format2b(cond, oper, disp) ==
    Packed(<< <<0, 29, 3>>, <<cond, 25, 4>>, <<oper, 22, 3>>, <<disp, 0, 22>> >>)
Format3(op, dest, oper, r1, rest) ==
    Packed(<< <<op, 30, 2>>, <<dest, 25, 5>>, <<oper, 19, 6>>, <<r1, 14, 5>> >> \o rest)
Format3a(op, r1, r2, oper, dest) == Format3(op, dest, oper, r1, << <<0, 5, 9>>, <<r2, 0, 5>> >>)
Format3b(op, r1, val, oper, dest) == Format3(op, dest, oper, r1, << <<1, 13, 1>>, <<val, 0, 13>> >>)
Format3c(opf, r1, oper, r2, dest) == Format3(2, dest, oper, r1, << <<opf, 5, 9>>, <<r2, 0, 5>> >>)
Format4d(oper, cc, cond, imm, dest) ==
    Packed(<< <<2, 30, 2>>, <<dest, 25, 5>>, <<oper, 19, 6>>, <<cc \div 4, 18, 1>>,
              <<cond, 14, 4>>, <<1, 13, 1>>, <<cc, 11, 2>>, <<imm, 0, 11>> >>)

---------------------------------------------------------------------------
(* Arithmetic, logic and shifts: cc is 16 for the form that sets the       *)
(* condition codes                                                         *)
AluNumber == [add |-> 0, and |-> 1, or |-> 2, xor |-> 3, sub |-> 4, xnor |-> 7, addx |-> 8,
              umul |-> 10, smul |-> 11, subx |-> 12, udiv |-> 14, sdiv |-> 15,
              sll |-> 37, srl |-> 38, sra |-> 39]
cc == 16
Alu(f, setcc, r1, r2, dest) == Format3a(2, r1, r2, AluNumber[f] + setcc, dest)
AluImm(f, setcc, r1, imm, dest) == Format3b(2, r1, imm, AluNumber[f] + setcc, dest)

(* Loads and stores                                                        *)
MemNumber == [ld |-> 0, ldub |-> 1, lduh |-> 2, st |-> 4, stb |-> 5, sth |-> 6, ldsb |-> 9,
              ldsh |-> 10, ldf |-> 32, lddf |-> 35, stf |-> 36, stdf |-> 39]
Mem(f, reg, base, disp) == Format3a(3, base, disp, MemNumber[f], reg)
MemImm(f, reg, base, disp) == Format3b(3, base, disp, MemNumber[f], reg)

(* Floating point                                                          *)
FopNumber == [fmovs |-> 1, fnegs |-> 5, fabss |-> 9, faddd |-> 66, fsubd |-> 70, fmuld |-> 74,
              fdivd |-> 78, fdtos |-> 198, fitod |-> 200, fstod |-> 201, fdtoi |-> 210]
Fop(f, r1, r2, dest) == Format3c(FopNumber[f], r1, 52, r2, dest)
Fop2(f, r2, dest) == Fop(f, 0, r2, dest)
Fcmpd(r1, r2) == Format3c(82, r1, 53, r2, 0)

(* Control and windows                                                     *)
Branch(cond, disp) == Format2b(Cond[cond], 2, disp)
FBranch(cond, disp) == Format2b(FCond[cond], 6, disp)
MovccImm(cond, imm, dest) == Format4d(44, xcc, Cond[cond], imm, dest)
Sethi(val, dest) == Format2a((val % 2^W) \div 2^10, 4, dest)
Nop == Sethi(0, g0)
SaveImm(src, disp, dest) == Format3b(2, src, disp, 60, dest)
RestoreImm(src, disp, dest) == Format3b(2, src, disp, 61, dest)
Jmpl(base, disp, dest) == Format3a(2, base, disp, 56, dest)
JmplImm(base, disp, dest) == Format3b(2, base, disp, 56, dest)
Rdy(dest) == Format3a(2, 0, 0, 40, dest)
Wry(base, disp) == Format3a(2, base, disp, 48, 0)

(* Synthetic instructions                                                  *)
Cmp(r1, r2) == Alu("sub", cc, r1, r2, g0)
CmpImm(r1, imm) == AluImm("sub", cc, r1, imm, g0)
Mov(src, dest) == Alu("or", 0, g0, src, dest)
Neg(reg) == Alu("sub", 0, g0, reg, reg)
Not(reg) == Alu("xnor", 0, reg, g0, reg)
Ret == JmplImm(i7, 8, g0)
Call(base, disp) == Jmpl(base, disp, o7)
Jmp(base, disp) == Jmpl(base, disp, g0)
Set32x(val, reg) == << Sethi(val, reg), AluImm("or", 0, reg, val % 2^10, reg) >>
Set32(val, reg) ==
    IF val = 0 THEN << Mov(g0, reg) >>
    ELSE IF val % 2^10 = 0 THEN << Sethi(val, reg) >>
    ELSE IF val \in -4096 .. 4095 THEN << AluImm("or", 0, g0, val, reg) >>
    ELSE Set32x(val, reg)

(* sparc_patch: the displacement of the branch or call at `target' to pos  *)
Patched(words, target, pos) ==
    LET old == words[target]
        width == IF Bitfield(old, 30, 2) = 0 THEN 22 ELSE 30
    IN  [words EXCEPT ![target] =
            Packed(<< <<Bitfield(old, width, 32 - width), width, 32 - width>>,
                      <<pos - target, 0, width>> >>)]

---------------------------------------------------------------------------
(* The emitter.                                                            *)
REG_SIZE == 4
DoubleSize == 8
EXTRA_SPACE == 16
Align16(n) == ((n + 15) \div 16) * 16

CONSTANT ZeroPoint5  \* the address of zero_point_5

---------------------------------------------------------------------------
(* init_arg and jit_init_arg_params: the place of argument p (from 0)      *)
Words(arg) == IF arg.fp /\ arg.size = 8 THEN 2 ELSE 1
PhysReg(fn, p) == FoldLeft(LAMBDA n, arg : n + Words(arg), 0, SubSeq(fn.args, 1, p))
InitArg(p) == [passed_by_reg |-> p < 6, spill_pos |-> 92 + (p - 6) * 4,
               location |-> IF p < 6 THEN i0 + p ELSE 92 + (p - 6) * 4]
Arg(fn, p) == InitArg(PhysReg(fn, p))

(* assign_regs_for_args: the arguments that begin in a register            *)
Associated(fn, p) == PhysReg(fn, p) < 6

GET_REG_POS(fn, v) ==
    CASE v[1] = "R" -> -(fn.allocai + EXTRA_SPACE + v[2] * REG_SIZE + REG_SIZE)
      [] v[1] = "FR" -> -(fn.allocai + EXTRA_SPACE + fn.gp * REG_SIZE + v[2] * DoubleSize + DoubleSize)
      [] v[1] \in {"A", "FA"} -> Arg(fn, v[2]).spill_pos

(* space_for_outgoing_args: all arguments in floating point count, as no   *)
(* register passes them                                                    *)
OutgoingArgs(passed) == LET Most(i) == Max({0} \cup {n[i] : n \in passed}) IN
                        Max({0, Most(1) - 6}) * REG_SIZE + Most(2) * DoubleSize

FrameSize(fn, passed) ==
    LET floats == Len(SelectSeq(fn.args, LAMBDA arg : arg.fp)) IN
    Align16(96 + fn.allocai + fn.gp * REG_SIZE + fn.fp * DoubleSize + floats * DoubleSize
            + OutgoingArgs(passed))

---------------------------------------------------------------------------
(* Comparisons and branches                                                *)
Compare(op, a2, a3) ==
    IF ~op.imm THEN Cmp(a2, a3) ELSE IF a3 # 0 THEN CmpImm(a2, a3) ELSE Cmp(a2, g0)
BranchTo(e, words, Jump(_)) == words \o << Jump(e.label - (e.at + Len(words))), Nop >>

CondOf(op) ==
    CASE op.code \in {"EQ", "BEQ"} -> "be"
      [] op.code \in {"NE", "BNE"} -> "bne"
      [] op.code \in {"LT", "BLT"} -> IF op.sign THEN "bl" ELSE "blu"
      [] op.code \in {"LE", "BLE"} -> IF op.sign THEN "ble" ELSE "bleu"
      [] op.code \in {"GT", "BGT"} -> IF op.sign THEN "bg" ELSE "bgu"
      [] op.code \in {"GE", "BGE"} -> IF op.sign THEN "bge" ELSE "bgeu"
      [] op.code = "BMS" -> "bne"
      [] op.code = "BMC" -> "be"
      [] op.code \in {"BOADD", "BOSUB"} -> "boverflow"
      [] op.code \in {"BNOADD", "BNOSUB"} -> "bnoverflow"

CondOpOp(op, a1, a2, a3) ==
    << Compare(op, a2, a3), AluImm("or", 0, g0, 0, a1), MovccImm(CondOf(op), 1, a1) >>

BranchOp(op, a2, a3, e) ==
    LET test ==
            CASE op.code \in CompareBranches -> Compare(op, a2, a3)
              [] op.code \in {"BMS", "BMC"} ->
                    IF op.imm /\ a3 # 0 THEN AluImm("and", cc, a2, a3, g0)
                    ELSE Alu("and", cc, a2, IF op.imm THEN g0 ELSE a3, g0)
              [] op.code \in {"BOADD", "BNOADD"} ->
                    IF op.imm THEN AluImm("add", cc, a2, a3, a2) ELSE Alu("add", cc, a2, a3, a2)
              [] op.code \in {"BOSUB", "BNOSUB"} ->
                    IF op.imm THEN AluImm("sub", cc, a2, a3, a2) ELSE Alu("sub", cc, a2, a3, a2)
    IN  BranchTo(e, << test >>, LAMBDA disp : Branch(CondOf(op), disp))

FCondOf == [FBLT |-> "fbl", FBGT |-> "fbg", FBLE |-> "fble", FBGE |-> "fbge", FBEQ |-> "fbe",
            FBNE |-> "fbne"]

---------------------------------------------------------------------------
(* Arithmetic: emit_alu_op                                                 *)
AluOf == [ADD |-> <<"add", 0>>, ADDC |-> <<"add", cc>>, ADDX |-> <<"addx", 0>>,
          SUB |-> <<"sub", 0>>, SUBC |-> <<"sub", cc>>, SUBX |-> <<"subx", 0>>,
          OR |-> <<"or", 0>>, AND |-> <<"and", 0>>, XOR |-> <<"xor", 0>>]
AluOp(op, a1, a2, a3) ==
    LET f == AluOf[op.code] IN
    IF op.imm /\ a3 # 0 THEN << AluImm(f[1], f[2], a2, a3, a1) >>
    ELSE << Alu(f[1], f[2], a2, IF op.imm THEN g0 ELSE a3, a1) >>

(* An instruction in its register or its immediate form                    *)
Either(op, f, a2, a3, a1) == IF op.imm THEN AluImm(f, 0, a2, a3, a1) ELSE Alu(f, 0, a2, a3, a1)

(* emit_optimized_multiplication                                           *)
OneBits(n) == SelectSeq([i \in 1 .. 32 |-> i - 1], LAMBDA i : i < W /\ (n \div 2^i) % 2 = 1)
OptimizedMultiplication(a1, a2, n) ==
    LET bits == OneBits(n)
        last == Len(bits)
        Part(i) ==
            IF i = 1 THEN << AluImm("sll", 0, a2, bits[1], IF last = 1 THEN a1 ELSE g1) >>
            ELSE << AluImm("sll", 0, a2, bits[i], g2),
                    Alu("add", 0, g1, g2, IF i = last THEN a1 ELSE g1) >>
    IN  FlattenSeq([i \in 1 .. last |-> Part(i)])

EmitMul(op, a1, a2, a3) ==
    LET f == IF op.sign THEN "smul" ELSE "umul" IN
    IF ~op.imm
    THEN << IF op.sign THEN Alu("smul", 0, a2, a3, a1) ELSE AluImm("umul", 0, a2, a3, a1) >>
    ELSE IF a3 = 0 THEN << Mov(g0, a1) >>
    ELSE IF a3 = 1 THEN IF a1 = a2 THEN <<>> ELSE << Mov(a2, a1) >>
    ELSE IF Len(OneBits(AbsOf(a3))) <= 5
    THEN OptimizedMultiplication(a1, a2, AbsOf(a3)) \o (IF a3 < 0 THEN << Neg(a1) >> ELSE <<>>)
    ELSE << AluImm(f, 0, a2, a3, a1) >>

(* The mutant takes every dividend for an unsigned one                     *)
YOfUnsigned(op, a2) == << Wry(g0, g0), Nop, Nop, Nop >>
(* The upper half of a dividend is the sign of its lower half              *)
YOf(op, a2) == (IF op.sign THEN << AluImm("sra", 0, a2, 31, g1), Wry(g1, g0) >>
                           ELSE << Wry(g0, g0) >>) \o << Nop, Nop, Nop >>

ShiftFor == (2 :> 1) @@ (4 :> 2) @@ (8 :> 3) @@ (16 :> 4) @@ (32 :> 5)
EmitDiv(op, a1, a2, a3) ==
    IF op.imm /\ a3 \in DOMAIN ShiftFor
    THEN IF op.sign THEN << AluImm("sra", 0, a2, ShiftFor[a3], a1) >>
         ELSE IF a3 = 2 THEN << Alu("srl", 0, a2, 1, a1) >>
         ELSE << AluImm("srl", 0, a2, ShiftFor[a3], a1) >>
    ELSE YOf(op, a2) \o << Either(op, IF op.sign THEN "sdiv" ELSE "udiv", a2, a3, a1) >>

EmitMod(op, a1, a2, a3) ==
    IF op.imm /\ a3 \in DOMAIN ShiftFor THEN << AluImm("and", 0, a2, a3 - 1, a1) >>
    ELSE YOf(op, a2) \o << Either(op, IF op.sign THEN "sdiv" ELSE "udiv", a2, a3, g1),
                           Either(op, IF op.sign THEN "smul" ELSE "umul", g1, a3, g1),
                           Alu("sub", 0, a2, g1, a1) >>

EmitArithmetic(op, a1, a2, a3) ==
    CASE op.code \in DOMAIN AluOf -> AluOp(op, a1, a2, a3)
      [] op.code = "RSB" -> IF op.imm THEN Set32(a3, g1) \o << Alu("sub", 0, g1, a2, a1) >>
                                      ELSE << Alu("sub", 0, a3, a2, a1) >>
      [] op.code = "LSH" -> << Either(op, "sll", a2, a3, a1) >>
      [] op.code = "RSH" -> << Either(op, IF op.sign THEN "sra" ELSE "srl", a2, a3, a1) >>
      [] op.code = "MUL" -> EmitMul(op, a1, a2, a3)
      [] op.code = "HMUL" -> << Either(op, IF op.sign THEN "smul" ELSE "umul", a2, a3, g0),
                                Nop, Rdy(a1) >>
      [] op.code = "DIV" -> EmitDiv(op, a1, a2, a3)
      [] op.code = "MOD" -> EmitMod(op, a1, a2, a3)
      [] op.code \in Compares -> CondOpOp(op, a1, a2, a3)

Moved(a1, a2) == IF a1 = a2 THEN <<>> ELSE << Mov(a2, a1) >>
EmitUnary(op, a1, a2) ==
    CASE op.code = "MOV" -> IF op.imm THEN Set32(a2, a1) ELSE Moved(a1, a2)
      [] op.code = "NEG" -> Moved(a1, a2) \o << Neg(a1) >>
      [] op.code = "NOT" -> Moved(a1, a2) \o << Not(a1) >>

---------------------------------------------------------------------------
(* Memory                                                                  *)
LoadOf(op) == CASE op.size = 1 -> IF op.sign THEN "ldsb" ELSE "ldub"
                [] op.size = 2 -> IF op.sign THEN "ldsh" ELSE "lduh"
                [] op.size = 4 -> "ld"
StoreOf(op) == CASE op.size = 1 -> "stb" [] op.size = 2 -> "sth" [] op.size = 4 -> "st"

EmitMemory(op, a1, a2, a3) ==
    CASE op.code = "LD" -> << IF op.imm THEN MemImm(LoadOf(op), a1, g0, a2)
                                        ELSE Mem(LoadOf(op), a1, a2, g0) >>
      [] op.code = "LDX" -> << IF op.imm THEN MemImm(LoadOf(op), a1, a2, a3)
                                         ELSE Mem(LoadOf(op), a1, a2, a3) >>
      [] op.code = "ST" -> << IF op.imm THEN MemImm(StoreOf(op), g0, a2, a1)
                                        ELSE Mem(StoreOf(op), a2, g0, a1) >>
      [] op.code = "STX" -> << IF op.imm THEN MemImm(StoreOf(op), a3, a2, a1)
                                         ELSE Mem(StoreOf(op), a3, a2, a1) >>

(* emit_memcpy counts down to the first byte                               *)
EmitMemcpy(op, a1, a2, a3, e) ==
    LET own == ~op.imm /\ op.r[3] \notin e.out
        counter == IF own THEN a3 ELSE g2
    IN  (IF op.imm THEN Set32(a3, counter) ELSE IF own THEN <<>> ELSE << Mov(a3, g2) >>)
        \o << AluImm("sub", cc, counter, 1, counter),
              Mem("ldub", g1, a2, counter),
              Mem("stb", g1, a1, counter),
              Branch("bne", -3), Nop >>

EmitFloatMemory(op, a1, a2, a3) ==
    LET double == op.size = 8
        Fld(words) == IF double THEN words ELSE words \o << Fop2("fstod", a1, a1) >>
        load == IF double THEN "lddf" ELSE "ldf"
        Fst(src, word) == IF double THEN << word >> ELSE << Fop2("fdtos", src, f30), word >>
        store == IF double THEN "stdf" ELSE "stf"
        From(src) == IF double THEN src ELSE f30
    IN  CASE op.code = "FLD" -> Fld(<< IF op.imm THEN MemImm(load, a1, g0, a2) ELSE Mem(load, a1, a2, g0) >>)
          [] op.code = "FLDX" -> Fld(<< IF op.imm THEN MemImm(load, a1, a2, a3) ELSE Mem(load, a1, a2, a3) >>)
          [] op.code = "FST" -> Fst(a2, IF op.imm THEN MemImm("stdf", From(a2), g0, a1)
                                                  ELSE Mem(store, From(a2), a1, g0))
          [] op.code = "FSTX" -> Fst(a3, IF op.imm THEN MemImm(store, From(a3), a2, a1)
                                                   ELSE Mem(store, From(a3), a2, a1))

---------------------------------------------------------------------------
(* Floating point                                                          *)
ToInt(reg, a1) == << Fop2("fdtoi", reg, f30), MemImm("stdf", f30, fp, -8), MemImm("ld", a1, fp, -8) >>
FabsTo30(a2) == << Fop2("fabss", a2, f30), Fop2("fmovs", a2 + 1, f30 + 1), Fcmpd(a2, f30) >>

EmitRound(a1, a2) ==
    LET load == Set32(ZeroPoint5, g1) \o << Mem("lddf", f30, g1, g0) >>
        before == Set32(0, g1) \o FabsTo30(a2) \o load
        all == before \o << FBranch("fbge", 0), Nop, Fop2("fnegs", f30, f30),
                            Fop("faddd", a2, f30, f30) >> \o ToInt(f30, a1)
        br1 == Len(before) + 1
    IN  Patched(all, br1, br1 + 3)

EmitFloor(a1, a2, floor) ==
    LET before == Set32(0, g1) \o FabsTo30(a2)
        skip == before \o << FBranch(IF floor THEN "fbe" ELSE "fbne", 0), Nop,
                             Fop2("fdtoi", a2, f30), Fop2("fitod", f30, f30), Fcmpd(a2, f30) >>
        correct == skip \o << FBranch("fbe", 0), Nop >> \o Set32(IF floor THEN -1 ELSE 1, g1)
        all == correct \o ToInt(a2, a1) \o << Alu("add", 0, a1, g1, a1) >>
        here == Len(correct) + 1
    IN  Patched(Patched(all, Len(before) + 1, here), Len(skip) + 1, here)

FopOf == [FADD |-> "faddd", FSUB |-> "fsubd", FRSB |-> "fsubd", FMUL |-> "fmuld", FDIV |-> "fdivd"]
EmitFloat(op, a1, a2, a3) ==
    CASE op.code = "FMOV" ->
            IF op.imm THEN Set32(op.e, g1) \o << Mem("lddf", a1, g1, g0) >>
                      ELSE << Fop2("fmovs", a2, a1), Fop2("fmovs", a2 + 1, a1 + 1) >>
      [] op.code = "FNEG" -> << Fop2("fnegs", a2, a1) >>
      [] op.code = "FRSB" -> << Fop("fsubd", a3, a2, a1) >>
      [] op.code \in FloatSums \ {"FRSB"} -> << Fop(FopOf[op.code], a2, a3, a1) >>
      [] op.code = "TRUNC" -> ToInt(a2, a1)
      [] op.code = "EXT" -> << MemImm("st", a2, fp, -8), MemImm("ldf", f30, fp, -8),
                               Fop2("fitod", f30, a1) >>
      [] op.code \in {"FLOOR", "CEIL"} -> EmitFloor(a1, a2, op.code = "FLOOR")
      [] op.code = "ROUND" -> EmitRound(a1, a2)
      [] op.code = "FRETVAL" -> IF op.size = 4 THEN << Fop2("fstod", f0, f0) >> ELSE <<>>

---------------------------------------------------------------------------
(* Arguments of calls                                                      *)
OutPos(slot) == 92 + (slot - 6) * 4
SetArgImm(value, slot) ==
    IF slot < 6 THEN Set32(value, o0 + slot)
    ELSE Set32(value, g1) \o << MemImm("st", g1, sp, OutPos(slot)) >>
SetArgReg(reg, slot) ==
    << IF slot < 6 THEN Mov(reg, o0 + slot) ELSE MemImm("st", reg, sp, OutPos(slot)) >>
SetArgFreg(reg, slot) ==
    IF slot < 6 THEN << MemImm("stf", reg, fp, -8), MemImm("ld", o0 + slot, fp, -8) >>
    ELSE << MemImm("stf", reg, sp, OutPos(slot)) >>
SetArgMem(disp, slot) ==
    IF slot < 6 THEN << MemImm("ld", o0 + slot, fp, disp) >>
    ELSE << MemImm("ld", g1, fp, disp), MemImm("st", g1, sp, OutPos(slot)) >>

(* One argument of emit_arguments: op is its PUTARG, with the register the *)
(* register map of PREPARE gives it, or None and the spilled v             *)
EmitArgument(op, slot, fn) ==
    LET double == op.size = 8
        spilled == op.r[1] = None
        load == IF spilled THEN << MemImm("lddf", f30, fp, GET_REG_POS(fn, op.v)) >> ELSE <<>>
        sreg == IF spilled THEN f30 ELSE Sparc[op.r[1]]
    IN  CASE op.code = "PUTARG" ->
                IF op.imm THEN SetArgImm(op.k, slot)
                ELSE IF spilled THEN SetArgMem(GET_REG_POS(fn, op.v), slot)
                ELSE SetArgReg(sreg, slot)
          [] op.code = "FPUTARG" /\ op.imm ->
                IF double THEN SetArgImm(Hi(op.k), slot) \o SetArgImm(Lo(op.k), slot + 1)
                          ELSE SetArgImm(Single(op.k), slot)
          [] op.code = "FPUTARG" /\ ~op.imm /\ double ->
                load \o SetArgFreg(sreg, slot) \o SetArgFreg(sreg + 1, slot + 1)
          [] op.code = "FPUTARG" /\ ~op.imm /\ ~double ->
                load \o << Fop2("fdtos", sreg, f30) >> \o SetArgFreg(f30, slot)

EmitArguments(e) ==
    LET Slot(i) == FoldLeft(LAMBDA n, op : n + (IF op.code = "FPUTARG" /\ op.size = 8 THEN 2 ELSE 1),
                            0, SubSeq(e.prepared, 1, i - 1))
    IN  FlattenSeq([i \in 1 .. Len(e.prepared) |-> EmitArgument(e.prepared[i], Slot(i), e.fn)])

(* A call of an external function is patched when the code has its place   *)
EmitFuncall(op, a1, e) ==
    LET words == EmitArguments(e) IN
    IF op.imm THEN words \o << Format1(a1), Nop >>
              ELSE words \o << Call(a1, g0), Nop >>

(* emit_get_arg                                                            *)
EmitGetArg(op, a1, e) ==
    LET fn == e.fn
        arg == fn.args[op.k + 1]
        place == Arg(fn, op.k)
        held == e.held /\ Associated(fn, op.k)
        next == InitArg(PhysReg(fn, op.k) + 1)
        Part(from, reg, at, there, pos) ==
            IF there THEN << MemImm("st", from.location, fp, at), MemImm("ldf", reg, fp, at) >>
                    ELSE << MemImm("ldf", reg, fp, pos) >>
    IN  IF ~arg.fp
        THEN IF held THEN << Mov(place.location, a1) >>
             ELSE << MemImm("ld", a1, fp, place.spill_pos) >>
        ELSE IF arg.size = 4
        THEN Part(place, f30, -8, held, place.location) \o << Fop2("fstod", f30, a1) >>
        ELSE Part(place, a1, -8, held, place.location)
             \o Part(next, a1 + 1, -4, next.passed_by_reg, next.spill_pos)

(* emit_ureg and JIT_LREG                                                  *)
EmitSpill(op, a1, a2, e) ==
    LET pos == GET_REG_POS(e.fn, op.v) IN
    CASE op.code = "LREG" -> << MemImm(IF op.v[1] = "R" THEN "ld" ELSE "lddf", a1, fp, pos) >>
      [] op.code \in {"UREG", "SYNCREG"} /\ op.v[1] = "FR" -> << MemImm("stdf", a2, fp, pos) >>
      [] op.code \in {"UREG", "SYNCREG"} /\ op.v[1] \in {"R", "A"} -> << MemImm("st", a2, fp, pos) >>
      [] op.code \in {"UREG", "SYNCREG"} /\ op.v[1] = "FA" ->
            IF Arg(e.fn, op.v[2]).passed_by_reg THEN << MemImm("st", a2, fp, pos) >> ELSE <<>>

---------------------------------------------------------------------------
Leave == << Ret, RestoreImm(g0, 0, g0) >>
EmitControl(op, a1, a2, e) ==
    CASE op.code = "CALL" -> EmitFuncall(op, a1, e)
      [] op.code = "JMP" -> IF op.imm THEN BranchTo(e, <<>>, LAMBDA disp : Branch("balways", disp))
                                      ELSE << Jmp(a1, g0), Nop >>
      [] op.code = "RET" -> (IF op.imm THEN Set32(op.k, i0) ELSE Moved(i0, a1)) \o Leave
      [] op.code = "FRET" ->
            (IF op.size = 4 THEN << Fop2("fdtos", a1, f0) >>
             ELSE << Fop2("fmovs", a1, f0), Fop2("fmovs", a1 + 1, f0 + 1) >>) \o Leave
      [] op.code = "MSG" ->
            LET words == Set32(op.k, o0) \o (IF op.imm THEN <<>> ELSE << Mov(a2, o0 + 1) >>) IN
            words \o << Format1(Printf), Nop >>
      [] op.code = "PROLOG" -> << SaveImm(sp, -FrameSize(e.fn, e.passed), sp) >>
      [] op.code = "RETVAL" -> Moved(a1, o0)
      [] op.code = "GETARG" -> EmitGetArg(op, a1, e)
      [] op.code = "CODE_ALIGN" -> [i \in 1 .. (-e.at) % (op.k \div 4) |-> Nop]
      [] op.code \in {"REF_CODE", "REF_DATA"} -> Set32x(57005, a1)

(* jit_gen_op: the words of an operation.  An operand that is not a        *)
(* register stands for the immediate value.                                *)
Gen(op, e) ==
    LET a == [i \in 1 .. 3 |-> IF op.r[i] = None THEN op.k ELSE Sparc[op.r[i]]]
        a1 == a[1]
        a2 == a[2]
        a3 == a[3]
    IN  CASE op.code \in Arithmetic \cup Compares -> EmitArithmetic(op, a1, a2, a3)
          [] op.code \in Unary -> EmitUnary(op, a1, a2)
          [] op.code \in Branches -> BranchOp(op, a2, a3, e)
          [] op.code \in FloatBranches ->
                BranchTo(e, << Fcmpd(a2, a3) >>, LAMBDA disp : FBranch(FCondOf[op.code], disp))
          [] op.code \in {"LD", "LDX", "ST", "STX"} -> EmitMemory(op, a1, a2, a3)
          [] op.code \in FloatMemory -> EmitFloatMemory(op, a1, a2, a3)
          [] op.code = "MEMCPY" -> EmitMemcpy(op, a1, a2, a3, e)
          [] op.code \in FloatSums \cup Roundings \cup {"FMOV", "FNEG", "EXT", "FRETVAL"} ->
                EmitFloat(op, a1, a2, a3)
          [] op.code \in {"UREG", "SYNCREG", "LREG"} -> EmitSpill(op, a1, a2, e)
          [] op.code = "RENAMEREG" -> << Mov(a2, a1) >>
          [] op.code \in {"CALL", "JMP", "RET", "FRET", "MSG", "PROLOG", "RETVAL", "GETARG",
                          "CODE_ALIGN", "REF_CODE", "REF_DATA"} -> EmitControl(op, a1, a2, e)
          [] OTHER -> <<>>
=============================================================================
