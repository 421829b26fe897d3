----------------------------- MODULE ArmEmitter -----------------------------
(***************************************************************************)
(* The ARM32 back end: the words jit_gen_op emits for an operation         *)
(* (arm32-specific.h).                                                     *)
(*                                                                         *)
(* The circumstances e of an operation are those of SparcEmitter, with     *)
(* in_use, the registers that hold a live value before or after it, and    *)
(* saved, the numbers of the registers its function saves.                 *)
(***************************************************************************)
EXTENDS ArmCode

REG_SIZE == 4
DoubleSize == 8
Align8(n) == ((n + 7) \div 8) * 8

CONSTANT ZeroPoint5  \* the address of flt05

InUse(e, reg) == ("r" \o ToString(reg)) \in e.in_use
FloatInUse(e, reg) == ("d" \o ToString(reg)) \in e.in_use

(* jit_reg_allocator_create: the registers that pass arguments, and those  *)
(* that a call may change (the scratch register d15 is one of them)        *)
GpArgRegs == 4
FpArgRegs == 8
CallerSaved == 0 .. 3
CallerSavedFloats == <<0, 1, 2, 3, 4, 5, 6, 7, 15>>

---------------------------------------------------------------------------
(* argument_schedule_create_input and _output: where each argument goes.   *)
(* Numbers take the first single registers that are free, two of them,     *)
(* aligned, for a double.                                                  *)
Schedule(args) ==
    LET Place(t, in_reg, index) == Append(t.places, [in_reg |-> in_reg, index |-> index])
        Stacked(t, words) == [t EXCEPT !.places = Place(t, FALSE, t.stack), !.stack = t.stack + words]
        AddGp(t) == IF t.gp < GpArgRegs THEN [t EXCEPT !.places = Place(t, TRUE, t.gp), !.gp = t.gp + 1]
                    ELSE Stacked(t, 1)
        AddFp(t, step) ==
            LET free == {j \in {step * i : i \in 0 .. (2 * FpArgRegs) \div step - 1} :
                            (j .. j + step - 1) \cap t.taken = {}}
            IN  IF free = {} THEN Stacked(t, step)
                ELSE [t EXCEPT !.places = Place(t, TRUE, Min(free)),
                               !.taken = t.taken \cup (Min(free) .. Min(free) + step - 1)]
    IN  FoldLeft(LAMBDA t, arg : IF arg.fp THEN AddFp(t, arg.size \div 4) ELSE AddGp(t),
                 [gp |-> 0, taken |-> {}, stack |-> 0, places |-> <<>>], args).places

IntCount(fn) == Len(SelectSeq(fn.args, LAMBDA arg : ~arg.fp))
FloatCount(fn) == Len(fn.args) - IntCount(fn)
OnStack(fn) == Max({0, IntCount(fn) - GpArgRegs}) * REG_SIZE

(* jit_init_arg_params, for argument p (from 0)                            *)
Arg(fn, p) ==
    LET place == Schedule(fn.args)[p + 1]
        arg == fn.args[p + 1]
        fp_pos == Len(SelectSeq(SubSeq(fn.args, 1, p), LAMBDA other : other.fp))
        stack_pos == (1 + place.index) * REG_SIZE
    IN  [passed_by_reg |-> place.in_reg,
         location |-> CASE ~place.in_reg -> stack_pos
                        [] place.in_reg /\ arg.fp /\ arg.size = 8 -> place.index \div 2
                        [] OTHER -> place.index,
         spill_pos |-> CASE ~place.in_reg -> stack_pos
                         [] place.in_reg /\ ~arg.fp -> -(p + 1) * REG_SIZE - fn.allocai
                         [] place.in_reg /\ arg.fp ->
                               -OnStack(fn) - fn.gp * REG_SIZE - (fp_pos + 1) * DoubleSize - fn.allocai]

(* assign_regs_for_args: no single begins in its register                  *)
Associated(fn, p) == Arg(fn, p).passed_by_reg /\ (fn.args[p + 1].fp => fn.args[p + 1].size = 8)

GET_REG_POS(fn, v) ==
    LET shadow == OnStack(fn) + FloatCount(fn) * DoubleSize IN
    CASE v[1] = "R" -> -shadow - (v[2] + 1) * REG_SIZE - fn.allocai
      [] v[1] = "FR" -> -shadow - fn.gp * REG_SIZE - (v[2] + 1) * DoubleSize - fn.allocai
      [] v[1] \in {"A", "FA"} -> Arg(fn, v[2]).spill_pos

FrameSize(fn) == Align8(fn.allocai + (fn.gp + IntCount(fn)) * REG_SIZE
                        + (fn.fp + FloatCount(fn)) * DoubleSize)

EmitProlog(e) ==
    LET fn == e.fn
        Kept(p) == LET arg == Arg(fn, p) IN
            IF fn.args[p + 1].fp /\ fn.args[p + 1].size = 4 /\ arg.passed_by_reg
            THEN VstrFloatFp(arg.location, arg.spill_pos) ELSE <<>>
    IN  << PushReg(FP), MovReg(FP, SP), SubSp(FrameSize(fn)) >>
        \o FlattenSeq([i \in 1 .. Len(fn.args) |-> Kept(i - 1)]) \o PushRegs(e.saved)
EmitEpilog(e) == PopRegs(e.saved) \o << MovReg(SP, FP), PopReg(FP), Bx(LR) >>

---------------------------------------------------------------------------
(* Comparisons and branches                                                *)
CondOf(op) ==
    CASE op.code \in {"EQ", "BEQ", "BMC", "FBEQ"} -> "eq"
      [] op.code \in {"NE", "BNE", "BMS", "FBNE"} -> "ne"
      [] op.code \in {"LT", "BLT"} -> IF op.sign THEN "lt" ELSE "cc"
      [] op.code \in {"LE", "BLE"} -> IF op.sign THEN "le" ELSE "ls"
      [] op.code \in {"GT", "BGT"} -> IF op.sign THEN "gt" ELSE "hi"
      [] op.code \in {"GE", "BGE"} -> IF op.sign THEN "ge" ELSE "cs"
      [] op.code = "FBLT" -> "lt"
      [] op.code = "FBGT" -> "gt"
      [] op.code = "FBLE" -> "le"
      [] op.code = "FBGE" -> "ge"
      [] op.code \in {"BOADD", "BOSUB"} -> "vs"
      [] op.code \in {"BNOADD", "BNOSUB"} -> "vc"

Compare(op, a2, a3) == IF op.imm THEN CmpImm(a2, a3) ELSE CmpReg(a2, a3)
CondOpOp(op, a1, a2, a3) ==
    << Compare(op, a2, a3) >> \o MovImm32(a1, 0) \o CondMovImm32(CondOf(op), a1, 1)

Alucc(op, f, s, a1, a2, a3) ==
    IF op.imm THEN AluccImm(f, s, a1, a2, a3) ELSE AluccReg(f, s, a1, a2, a3)
BranchTo(e, cond, words) == words \o << Branch(cond, e.label - (e.at + Len(words))) >>
BranchOp(op, a2, a3, e) ==
    BranchTo(e, CondOf(op),
        CASE op.code \in CompareBranches -> << Compare(op, a2, a3) >>
          [] op.code \in {"BMS", "BMC"} -> << IF op.imm THEN TstImm(a2, a3) ELSE TstReg(a2, a3) >>
          [] op.code \in {"BOADD", "BNOADD"} -> << Alucc(op, "add", 1, a2, a2, a3) >>
          [] op.code \in {"BOSUB", "BNOSUB"} -> << Alucc(op, "sub", 1, a2, a2, a3) >>
          [] op.code \in FloatBranches ->
                << IF op.imm THEN Vcmp0(a2) ELSE Vcmp(a2, a3), VmrsFlags >>)

---------------------------------------------------------------------------
(* Arithmetic                                                              *)
AluOf == [ADD |-> "add", ADDX |-> "adc", SUB |-> "sub", RSB |-> "rsb", OR |-> "orr", AND |-> "and",
          XOR |-> "eor"]
Ffs(n) == IF n = 0 THEN 0 ELSE 1 + Min({i \in 0 .. W - 1 : (n \div 2^i) % 2 = 1})

EmitMul(op, a1, a2, a3) ==
    CASE ~op.imm -> << Mul(a1, a2, a3) >>
      [] op.imm /\ a3 = 0 -> MovImm32(a1, 0)
      [] op.imm /\ a3 = 1 -> IF a1 = a2 THEN <<>> ELSE << MovReg(a1, a2) >>
      [] OTHER -> << ShiftImm("lsl", a1, a2, Ffs(a3) - 1) >>
EmitMod(op, a1, a2, a3) ==
    IF op.imm /\ op.sign THEN << AluImm("and", a1, a2, 2^(Ffs(a3) - 1) - 1) >>
    ELSE << IF op.sign THEN Sdiv(R12, a2, a3) ELSE Udiv(R12, a2, a3), Mul(R12, a3, R12),
            AluReg("sub", a1, a2, R12) >>
EmitArithmetic(op, a1, a2, a3) ==
    LET right == IF op.sign THEN "asr" ELSE "lsr"
        Shifting(type) == << IF op.imm THEN ShiftImm(type, a1, a2, a3) ELSE ShiftReg(type, a1, a2, a3) >>
    IN  CASE op.code \in DOMAIN AluOf -> << Alucc(op, AluOf[op.code], 0, a1, a2, a3) >>
          [] op.code = "ADDC" -> << Alucc(op, "add", 1, a1, a2, a3) >>
          [] op.code = "SUBC" -> << Alucc(op, "sub", 1, a1, a2, a3),
                                    IF op.imm THEN Abort ELSE CmpReg(a3, a2) >>
          [] op.code = "SUBX" -> << Alucc(op, "sub", 0, a1, a2, a3), DataOp("cs", 1, "sub", 0, a1, a1, 1) >>
          [] op.code = "LSH" -> Shifting("lsl")
          [] op.code = "RSH" -> Shifting(right)
          [] op.code = "MUL" -> EmitMul(op, a1, a2, a3)
          [] op.code = "HMUL" -> << IF op.imm THEN Abort ELSE Hmul(a1, a2, a3) >>
          [] op.code = "DIV" -> << IF op.imm THEN ShiftImm(right, a1, a2, Ffs(a3) - 1)
                                   ELSE IF op.sign THEN Sdiv(a1, a2, a3) ELSE Udiv(a1, a2, a3) >>
          [] op.code = "MOD" -> EmitMod(op, a1, a2, a3)
          [] op.code \in Compares -> CondOpOp(op, a1, a2, a3)
EmitUnary(op, a1, a2) ==
    CASE op.code = "MOV" -> IF op.imm THEN MovImm32(a1, a2) ELSE IF a1 = a2 THEN <<>> ELSE << MovReg(a1, a2) >>
      [] op.code = "NEG" -> << AluImm("rsb", a1, a2, 0) >>
      [] op.code = "NOT" -> << AluReg("mvn", a1, 0, a2) >>

---------------------------------------------------------------------------
(* Memory                                                                  *)
SignBitOf(op) == IF op.sign THEN 1 ELSE 0
LoadImm(op, rd, rn, n) ==
    << CASE op.size = 1 /\ op.sign -> SignedHalfImm(1, 1, 0, rd, rn, n)
         [] op.size = 1 /\ ~op.sign -> SingleImm(1, 1, rd, rn, n)
         [] op.size = 2 -> SignedHalfImm(1, SignBitOf(op), 1, rd, rn, n)
         [] op.size = 4 -> LdImm(rd, rn, n) >>
LoadReg(op, rd, rn, rm) ==
    << CASE op.size = 1 /\ op.sign -> SignedHalfReg("al", 1, 1, 0, rd, rn, rm)
         [] op.size = 1 /\ ~op.sign -> SingleReg("al", 1, 1, rd, rn, rm)
         [] op.size = 2 -> SignedHalfReg("al", 1, SignBitOf(op), 1, rd, rn, rm)
         [] op.size = 4 -> LdReg(rd, rn, rm) >>
StoreImm(op, rd, rn, n) ==
    << CASE op.size = 1 -> SingleImm(0, 1, rd, rn, n)
         [] op.size = 2 -> SignedHalfImm(0, 0, 1, rd, rn, n)
         [] op.size = 4 -> StImm(rd, rn, n) >>
StoreReg(size, cond, rd, rn, rm) ==
    << CASE size = 1 -> StbReg(cond, rd, rn, rm)
         [] size = 2 -> SthReg(cond, rd, rn, rm)
         [] size = 4 -> SingleReg(cond, 0, 0, rd, rn, rm) >>
EmitMemory(op, a1, a2, a3) ==
    CASE op.code = "LD" -> IF op.imm THEN << Abort >> ELSE LoadImm(op, a1, a2, 0)
      [] op.code = "LDX" -> IF op.imm THEN LoadImm(op, a1, a2, a3) ELSE LoadReg(op, a1, a2, a3)
      [] op.code = "ST" -> IF op.imm THEN << Abort >> ELSE StoreImm(op, a2, a1, 0)
      [] op.code = "STX" -> IF op.imm THEN StoreImm(op, a3, a2, a1) ELSE StoreReg(op.size, "al", a3, a2, a1)

Around(wanted, before, words, after) == IF wanted THEN before \o words \o after ELSE words

(* emit_memcpy, with blocks of one byte.  A copy of a number of bytes that *)
(* is a constant, and finds no register unused, goes on with one that was  *)
(* never chosen.                                                           *)
EmitMemcpy(op, a1, a2, a3, e) ==
    LET unused == SelectSeq(<<0, 1, 2, 3>>, LAMBDA i : ~InUse(e, i))
        scrap == IF unused # <<>> THEN unused[1] ELSE Min((0 .. 10) \ {a1, a2, a3})
        second == IF Len(unused) > 1 THEN unused[2]
                  ELSE IF op.imm THEN Min((0 .. 10) \ {a1, a2, scrap}) ELSE a3
        own == ~op.imm /\ op.r[3] \notin e.out
        counter == IF own THEN a3 ELSE second
        counter_in_use == ~own /\ InUse(e, counter)
        copy == (IF op.imm THEN MovImm32(counter, a3)
                 ELSE IF counter = a3 THEN <<>> ELSE << MovReg(counter, a3) >>)
                \o << AluccImm("sub", 1, counter, counter, 1),
                      SignedHalfReg("al", 1, 1, 0, scrap, a2, counter),
                      StbReg("al", scrap, a1, counter), Branch("ne", -3) >>
    IN  IF op.imm /\ unused = <<>> THEN << Abort >>
        ELSE Around(counter_in_use, << PushReg(counter) >>,
                    Around(InUse(e, scrap), << PushReg(scrap) >>, copy, << PopReg(scrap) >>),
                    << PopReg(counter) >>)

EmitMemset(op, a1, a2, a3, e) ==
    LET value == IF op.imm THEN R9 ELSE a3
        set == (IF op.imm THEN MovImm32(R9, a3) ELSE <<>>)
               \o << IF op.size = 1 THEN MovReg(R12, a2) ELSE ShiftImm("lsl", R12, a2, op.size \div 2),
                     AluccImm("sub", 1, R12, R12, op.size) >>
               \o StoreReg(op.size, "cs", value, a1, R12) \o << Branch("cs", -2) >>
    IN  Around(op.imm /\ InUse(e, R9), << PushReg(R9) >>, set, << PopReg(R9) >>)

(* Numbers in memory: a single is converted in the register it is in, and  *)
(* the register kept on the stack when it is still wanted                  *)
Near(n) == n \in -1020 .. 1020
FarFrom(base, n) == MovImm32(R12, n) \o << AluReg("add", R12, R12, base) >>
EmitFloatMemory(op, a1, a2, a3, e) ==
    LET Store(value, pushed, base, n) ==
            IF op.size = 8 THEN Vstr(value, base, n, 8)
            ELSE Around(FloatInUse(e, value), << Vpush(pushed) >>,
                        << VcvtDtos(value, value) >> \o Vstr(value, base, n, 4), << Vpop(value) >>)
        StoreFar ==
            IF op.size = 8 THEN FarFrom(a2, a1) \o Vstr(a3, R12, 0, 8)
            ELSE Around(FloatInUse(e, a3), << Vpush(a2) >>,
                        << VcvtDtos(a3, a3) >> \o FarFrom(a2, a1) \o Vstr(a3, R12, 0, 4), << Vpop(a3) >>)
    IN  CASE op.code = "FLD" /\ ~op.imm -> Vldr(a1, a2, 0, op.size)
          [] op.code = "FLD" /\ op.imm -> MovImm32(R12, a2) \o Vldr(a1, R12, 0, op.size)
          [] op.code = "FLDX" /\ ~op.imm -> << AluReg("add", R12, a2, a3) >> \o Vldr(a1, R12, 0, op.size)
          [] op.code = "FLDX" /\ op.imm ->
                IF Near(a3) THEN Vldr(a1, a2, a3, op.size) ELSE FarFrom(a2, a3) \o Vldr(a1, R12, 0, op.size)
          [] op.code = "FST" /\ ~op.imm -> Store(a2, a2, a1, 0)
          [] op.code = "FST" /\ op.imm -> MovImm32(R12, a1) \o Store(a2, a2, R12, 0)
          [] op.code = "FSTX" /\ ~op.imm -> << AluReg("add", R12, a1, a2) >> \o Store(a3, a2, R12, 0)
          [] op.code = "FSTX" /\ op.imm -> IF Near(a1) THEN Store(a3, a2, a2, a1) ELSE StoreFar

---------------------------------------------------------------------------
(* Floating point.  The mode of rounding is in two bits of FPSCR.          *)
RoundBit == 2^(W - 10)
SetMode(mode) ==
    << Vmrs(R12), AluImm("bic", R12, R12, 3 * RoundBit), AluImm("orr", R12, R12, mode * RoundBit), Vmsr(R12) >>
EmitRound(op, a1, a2, e) ==
    LET convert == IF op.code = "TRUNC" THEN << VcvtDoubleSint(a2, a2, 0) >>
                   ELSE SetMode(IF op.code = "CEIL" THEN 1 ELSE 2) \o << VcvtDoubleSint(a2, a2, 1) >>
    IN  Around(FloatInUse(e, a2), << Vpush(a2) >>, convert \o << LowToReg(a1, a2) >>, << Vpop(a2) >>)
EmitRoundNearest(a1, a2, e) ==
    LET scrap == IF a2 = D0 THEN D1 ELSE D0 IN
    Around(FloatInUse(e, scrap), << Vpush(scrap) >>,
           << Vpush(a2) >> \o SetMode(2) \o << Vabs(a2, a2) >> \o MovImm32(R12, ZeroPoint5)
           \o Vldr(scrap, R12, 0, 8)
           \o << Vadd(a2, a2, scrap), VcvtDoubleSint(a2, a2, 1), LowToReg(a1, a2), Vpop(a2), Vcmp0(a2),
                 VmrsFlags, CondAluImm("lt", "rsb", 0, a1, a1, 0) >>,
           << Vpop(scrap) >>)
EmitFloat(op, a1, a2, a3, e) ==
    CASE op.code = "FMOV" -> IF op.imm THEN MovImm32(R12, op.e) \o Vldr(a1, R12, 0, 8) ELSE << VmovDouble(a1, a2) >>
      [] op.code = "FNEG" -> << Vneg(a1, a2) >>
      [] op.code = "FADD" -> << Vadd(a1, a2, a3) >>
      [] op.code = "FSUB" -> << Vsub(a1, a2, a3) >>
      [] op.code = "FRSB" -> << Vsub(a1, a3, a2) >>
      [] op.code = "FMUL" -> << Vmul(a1, a2, a3) >>
      [] op.code = "FDIV" -> << Vdiv(a1, a2, a3) >>
      [] op.code = "EXT" -> << LowOfReg(a1, a2), VcvtSintDouble(a1, a1) >>
      [] op.code \in {"TRUNC", "FLOOR", "CEIL"} -> EmitRound(op, a1, a2, e)
      [] op.code = "ROUND" -> EmitRoundNearest(a1, a2, e)
      [] op.code = "FRETVAL" -> IF op.size = 4 THEN << VcvtDtos(D0, D0) >> ELSE <<>>

---------------------------------------------------------------------------
(* Arguments of calls, each with the place the schedule has for it         *)
PassGp(op, place, fn) ==
    LET dreg == IF place.in_reg THEN place.index ELSE R12 IN
    (CASE op.imm -> MovImm32(dreg, op.k)
       [] ~op.imm /\ op.r[1] = None -> LdFp(dreg, GET_REG_POS(fn, op.v))
       [] OTHER -> IF Arm[op.r[1]] = dreg THEN <<>> ELSE << MovReg(dreg, Arm[op.r[1]]) >>)
    \o (IF place.in_reg THEN <<>> ELSE << PushReg(dreg) >>)
PassDouble(op, place, fn) ==
    LET dreg == IF place.in_reg THEN place.index \div 2 ELSE D15 IN
    (CASE op.imm -> MovImm32(R12, op.e) \o Vldr(dreg, R12, 0, 8)
       [] ~op.imm /\ op.r[1] = None -> VldrFp(dreg, GET_REG_POS(fn, op.v), 8)
       [] OTHER -> IF Arm[op.r[1]] = dreg THEN <<>> ELSE << VmovDouble(dreg, Arm[op.r[1]]) >>)
    \o (IF place.in_reg THEN <<>> ELSE << Vpush(dreg) >>)
PassSingle(op, place, fn) ==
    LET spilled == op.r[1] = None
        sreg == IF spilled THEN D15 ELSE Arm[op.r[1]]
    IN  IF op.imm
        THEN MovImm32(R12, Single(op.k)) \o << IF place.in_reg THEN OfReg(place.index, R12) ELSE PushReg(R12) >>
        ELSE (IF spilled THEN VldrFp(D15, GET_REG_POS(fn, op.v), 8) ELSE <<>>)
             \o (IF place.in_reg THEN << VcvtDtosVsreg(place.index, sreg) >>
                 ELSE << VcvtDtosVsreg(31, sreg), ToReg(R12, 31), PushReg(R12) >>)
Pass(op, place, fn) ==
    IF op.code = "PUTARG" THEN PassGp(op, place, fn)
    ELSE IF op.size = 8 THEN PassDouble(op, place, fn) ELSE PassSingle(op, place, fn)

(* emit_funcall.  Those on the stack go first, the last one before others. *)
EmitFuncall(op, a1, e) ==
    LET places == Schedule([i \in 1 .. Len(e.prepared) |->
                               [fp |-> e.prepared[i].code = "FPUTARG", size |-> e.prepared[i].size]])
        n == Len(places)
        PassIf(i, in_reg) == IF places[i].in_reg = in_reg THEN Pass(e.prepared[i], places[i], e.fn) ELSE <<>>
        arguments == FlattenSeq([i \in 1 .. n |-> PassIf(n + 1 - i, FALSE)])
                     \o FlattenSeq([i \in 1 .. n |-> PassIf(i, TRUE)])
        correction == FoldLeft(LAMBDA sum, i : IF places[i].in_reg THEN sum ELSE sum + e.prepared[i].size,
                               0, [i \in 1 .. n |-> i])
        mask == {i \in CallerSaved : InUse(e, i)}
        floats == SelectSeq(CallerSavedFloats, LAMBDA i : FloatInUse(e, i))
        adjustment == ((Cardinality(mask) + 1 + Cardinality(e.saved)) * REG_SIZE) % 8
        call == IF op.imm THEN MovImm32(R12, a1) \o << BlxReg(R12) >>
                ELSE IF op.r[1] # None THEN << BlxReg(a1) >>
                ELSE LdFp(R12, GET_REG_POS(e.fn, op.v)) \o << BlxReg(R12) >>
        Given(size, word) == IF size = 0 THEN <<>> ELSE << word >>
    IN  PushRegs(mask) \o [i \in 1 .. Len(floats) |-> Vpush(floats[i])]
        \o Given(adjustment, SubSp(adjustment)) \o arguments \o call
        \o [i \in 1 .. Len(floats) |-> Vpop(Reverse(floats)[i])]
        \o Given(correction, AddSp(correction)) \o Given(adjustment, AddSp(adjustment)) \o PopRegs(mask)

EmitGetArg(op, a1, e) ==
    LET fn == e.fn
        arg == fn.args[op.k + 1]
        place == Arg(fn, op.k)
        associated == e.held /\ Associated(fn, op.k)
    IN  CASE ~arg.fp -> IF associated THEN << MovReg(a1, place.location) >> ELSE LdFp(a1, place.spill_pos)
          [] arg.fp /\ arg.size = 4 -> VldrFp(a1, place.spill_pos, 4)
          [] arg.fp /\ arg.size = 8 -> IF associated THEN << VmovDouble(a1, place.location) >>
                                       ELSE VldrFp(a1, place.spill_pos, 8)

(* emit_ureg and JIT_LREG                                                  *)
EmitSpill(op, a1, a2, e) ==
    LET pos == GET_REG_POS(e.fn, op.v) IN
    CASE op.code = "LREG" -> IF op.v[1] = "R" THEN LdFp(a1, pos) ELSE VldrFp(a1, pos, 8)
      [] op.code # "LREG" /\ op.v[1] \in {"R", "A"} -> StFp(a2, pos)
      [] op.code # "LREG" /\ op.v[1] = "FR" -> VstrFp(a2, pos, 8)
      [] op.code # "LREG" /\ op.v[1] = "FA" ->
            IF Arg(e.fn, op.v[2]).passed_by_reg THEN VstrFp(a2, pos, 8) ELSE <<>>

---------------------------------------------------------------------------
EmitControl(op, a1, a2, e) ==
    CASE op.code = "CALL" -> EmitFuncall(op, a1, e)
      [] op.code = "JMP" -> IF op.imm THEN BranchTo(e, "al", <<>>) ELSE << Bx(a1) >>
      [] op.code = "RET" -> (IF op.imm THEN MovImm32(R0, op.k)
                             ELSE IF a1 = R0 THEN <<>> ELSE << MovReg(R0, a1) >>) \o EmitEpilog(e)
      [] op.code = "FRET" -> << IF op.size = 4 THEN VcvtDtos(D0, a1) ELSE VmovDouble(D0, a1) >> \o EmitEpilog(e)
      [] op.code = "MSG" -> PushRegs(Everything) \o (IF op.imm THEN <<>> ELSE << MovReg(R1, a2) >>)
                            \o MovImm32(R0, op.k) \o MovImm32(R2, Printf) \o << BlxReg(R2) >>
                            \o PopRegs(Everything)
      [] op.code = "PROLOG" -> EmitProlog(e)
      [] op.code = "RETVAL" -> <<>>
      [] op.code = "GETARG" -> EmitGetArg(op, a1, e)
      [] op.code = "CODE_ALIGN" -> [i \in 1 .. (-e.at) % (op.k \div 4) |-> Nop]
      [] op.code \in {"REF_CODE", "REF_DATA"} -> MovImm32(a1, 57005)

(* jit_gen_op: the words of an operation.  An operand that is not a        *)
(* register stands for the immediate value.                                *)
Gen(op, e) ==
    LET a == [i \in 1 .. 3 |-> IF op.r[i] = None THEN op.k ELSE Arm[op.r[i]]]
        a1 == a[1]
        a2 == a[2]
        a3 == a[3]
    IN  CASE op.code \in Arithmetic \cup Compares -> EmitArithmetic(op, a1, a2, a3)
          [] op.code \in Unary -> EmitUnary(op, a1, a2)
          [] op.code \in Branches \cup FloatBranches -> BranchOp(op, a2, a3, e)
          [] op.code \in {"LD", "LDX", "ST", "STX"} -> EmitMemory(op, a1, a2, a3)
          [] op.code \in FloatMemory -> EmitFloatMemory(op, a1, a2, a3, e)
          [] op.code = "MEMCPY" -> EmitMemcpy(op, a1, a2, a3, e)
          [] op.code = "MEMSET" -> EmitMemset(op, a1, a2, a3, e)
          [] op.code \in FloatSums \cup Roundings \cup {"FMOV", "FNEG", "EXT", "FRETVAL"} ->
                EmitFloat(op, a1, a2, a3, e)
          [] op.code \in {"UREG", "SYNCREG", "LREG"} -> EmitSpill(op, a1, a2, e)
          [] op.code = "RENAMEREG" -> << MovReg(a1, a2) >>
          [] op.code \in {"CALL", "JMP", "RET", "FRET", "MSG", "PROLOG", "RETVAL", "GETARG",
                          "CODE_ALIGN", "REF_CODE", "REF_DATA"} -> EmitControl(op, a1, a2, e)
          [] OTHER -> <<>>
=============================================================================
