------------------------------ MODULE ArmCode ------------------------------
(***************************************************************************)
(* The instruction words of arm32-codegen.h: the registers, conditions and *)
(* operation numbers it names and the macros that fill in the words, for   *)
(* the instructions the emitter uses.  A macro that may expand into more   *)
(* than one instruction is a sequence of words.                            *)
(***************************************************************************)
EXTENDS RiscMeaning

(* ARMReg, ARMVreg, ARMCond, ARMShiftType and ARMOpcode                    *)
GpNames == {"r" \o ToString(i) : i \in 0 .. 10}
FloatNames == {"d" \o ToString(i) : i \in 0 .. 15}
Arm == [name \in GpNames \cup FloatNames |->
           CHOOSE i \in 0 .. 15 : name \in {"r" \o ToString(i), "d" \o ToString(i)}]
R0 == 0
R1 == 1
R2 == 2
R9 == 9
FP == 11
R12 == 12
SP == 13
LR == 14
D0 == 0
D1 == 1
D15 == 15
Cond == [eq |-> 0, ne |-> 1, cs |-> 2, cc |-> 3, vs |-> 6, vc |-> 7, hi |-> 8, ls |-> 9,
         ge |-> 10, lt |-> 11, gt |-> 12, le |-> 13, al |-> 14]
ShiftType == [lsl |-> 0, lsr |-> 1, asr |-> 2]
Opcode == [and |-> 0, eor |-> 1, sub |-> 2, rsb |-> 3, add |-> 4, adc |-> 5, tst |-> 8,
           cmp |-> 10, orr |-> 12, mov |-> 13, bic |-> 14, mvn |-> 15]

On(cond, fields) == Packed(<< <<Cond[cond], 28, 4>> >> \o fields)
Always(fields) == On("al", fields)

(* Where the generator of the code stops, with abort()                     *)
Abort == <<-1, -1>>

---------------------------------------------------------------------------
(* arm32_imm_rotate and arm32_encode_imm                                   *)
Rol(x, r) == LET n == Unsigned(x) IN (n % 2^(W - r)) * 2^r + n \div 2^(W - r)
ImmRotate(x) ==
    LET all == {r \in {2 * i : i \in 0 .. W \div 2 - 1} : Rol(x, r) < 256} IN
    IF all = {} THEN -1 ELSE Min(all)
Encodable(x) == ImmRotate(x) # -1
EncodeImm(x) == LET r == ImmRotate(x) IN (r \div 2) * 2^8 + Rol(x, r)

(* Data operations: s is 1 for the form that sets the flags                *)
DataOp(cond, imm, f, s, rd, rn, op2) ==
    On(cond, << <<imm, 25, 1>>, <<Opcode[f], 21, 4>>, <<s, 20, 1>>, <<rn, 16, 4>>, <<rd, 12, 4>>,
                <<op2, 0, 12>> >>)
AluccReg(f, s, rd, rn, rm) == DataOp("al", 0, f, s, rd, rn, rm)
CondAluImm(cond, f, s, rd, rn, imm) ==
    IF Encodable(imm) THEN DataOp(cond, 1, f, s, rd, rn, EncodeImm(imm)) ELSE Abort
AluccImm(f, s, rd, rn, imm) == CondAluImm("al", f, s, rd, rn, imm)
AluReg(f, rd, rn, rm) == AluccReg(f, 0, rd, rn, rm)
AluImm(f, rd, rn, imm) == AluccImm(f, 0, rd, rn, imm)
MovReg(rd, rm) == AluReg("mov", rd, 0, rm)
CmpReg(rd, rm) == AluccReg("cmp", 1, 0, rd, rm)
CmpImm(rd, imm) == AluccImm("cmp", 1, 0, rd, imm)
TstReg(rd, rm) == AluccReg("tst", 1, 0, rd, rm)
TstImm(rd, imm) == AluccImm("tst", 1, 0, rd, imm)
AddSp(imm) == AluImm("add", SP, SP, imm)
SubSp(imm) == AluImm("sub", SP, SP, imm)

(* A word is filled in halves of 16 bits, here of half a register          *)
HalfWord == 2^(W \div 2)
Mov16(cond, number, rd, n) ==
    On(cond, << <<number, 20, 8>>, <<rd, 12, 4>>, <<n \div 2^12, 16, 4>>, <<n, 0, 12>> >>)
Movw(cond, rd, n) == Mov16(cond, 48, rd, Unsigned(n) % HalfWord)
Movt(cond, rd, n) == Mov16(cond, 52, rd, Unsigned(n) \div HalfWord)
CondMovImm32(cond, rd, n) ==
    IF Encodable(n) THEN << CondAluImm(cond, "mov", 0, rd, 0, n) >>
    ELSE IF Encodable(-n - 1) THEN << CondAluImm(cond, "mvn", 0, rd, 0, -n - 1) >>
    ELSE << Movw(cond, rd, n), Movt(cond, rd, n) >>
MovImm32(rd, n) == CondMovImm32("al", rd, n)
MovImm32x(rd, n) == << Movw("al", rd, n), Movt("al", rd, n) >>

Shift(type, rd, rn, fields) ==
    Always(<< <<13, 21, 4>>, <<rd, 12, 4>>, <<ShiftType[type], 5, 2>>, <<rn, 0, 4>> >> \o fields)
ShiftReg(type, rd, rn, rs) == Shift(type, rd, rn, << <<1, 4, 1>>, <<rs, 8, 4>> >>)
ShiftImm(type, rd, rn, imm) == Shift(type, rd, rn, << <<imm % 32, 7, 5>> >>)
Mul(rd, rm, rn) == Always(<< <<rd, 16, 4>>, <<rm, 8, 4>>, <<9, 4, 4>>, <<rn, 0, 4>> >>)
Media(number, rd, rm, rn) ==
    Always(<< <<number, 20, 8>>, <<rd, 16, 4>>, <<15, 12, 4>>, <<rm, 8, 4>>, <<1, 4, 4>>, <<rn, 0, 4>> >>)
Hmul(rd, rm, rn) == Media(117, rd, rm, rn)
Sdiv(rd, rn, rm) == Media(113, rd, rm, rn)
Udiv(rd, rn, rm) == Media(115, rd, rm, rn)
Nop == Always(<< <<50, 20, 8>>, <<15, 12, 4>> >>)

---------------------------------------------------------------------------
(* Branches and calls                                                      *)
Branch(cond, offset) == On(cond, << <<5, 25, 3>>, <<offset - 2, 0, 24>> >>)
Bx(rn) == Always(<< <<1245169, 4, 24>>, <<rn, 0, 4>> >>)
BlxReg(rn) == Always(<< <<1245171, 4, 24>>, <<rn, 0, 4>> >>)
Patched(words, target, pos) ==
    [words EXCEPT ![target] = Packed(<< <<Bitfield(words[target], 24, 8), 24, 8>>,
                                        <<pos - target - 2, 0, 24>> >>)]

(* Loads and stores: the offset of `single' transfers is encoded as an     *)
(* immediate value of a data operation                                     *)
Transfer(load, up, byte, rd, rn, rest) ==
    Always(<< <<1, 26, 2>>, <<1, 24, 1>>, <<up, 23, 1>>, <<byte, 22, 1>>, <<load, 20, 1>>,
              <<rn, 16, 4>>, <<rd, 12, 4>> >> \o rest)
SingleReg(cond, load, byte, rd, rn, rm) ==
    On(cond, << <<3, 25, 3>>, <<1, 24, 1>>, <<1, 23, 1>>, <<byte, 22, 1>>, <<load, 20, 1>>,
                <<rn, 16, 4>>, <<rd, 12, 4>>, <<rm, 0, 4>> >>)
SingleImm(load, byte, rd, rn, imm) ==
    IF Encodable(imm) THEN Transfer(load, 1, byte, rd, rn, << <<EncodeImm(imm), 0, 12>> >>)
    ELSE IF Encodable(-imm) THEN Transfer(load, 0, byte, rd, rn, << <<EncodeImm(-imm), 0, 12>> >>)
    ELSE Abort
SignedHalfReg(cond, load, signed, half, rd, rn, rm) ==
    On(cond, << <<3, 23, 2>>, <<load, 20, 1>>, <<rn, 16, 4>>, <<rd, 12, 4>>, <<1, 7, 1>>,
                <<signed, 6, 1>>, <<half, 5, 1>>, <<1, 4, 1>>, <<rm, 0, 4>> >>)
SignedHalfImm(load, signed, half, rd, rn, imm) ==
    Always(<< <<1, 24, 1>>, <<IF imm >= 0 THEN 1 ELSE 0, 23, 1>>, <<1, 22, 1>>, <<load, 20, 1>>,
              <<rn, 16, 4>>, <<rd, 12, 4>>, <<AbsOf(imm) \div 16, 8, 4>>, <<1, 7, 1>>,
              <<signed, 6, 1>>, <<half, 5, 1>>, <<1, 4, 1>>, <<AbsOf(imm), 0, 4>> >>)
LdReg(rd, rn, rm) == SingleReg("al", 1, 0, rd, rn, rm)
StReg(rd, rn, rm) == SingleReg("al", 0, 0, rd, rn, rm)
LdImm(rd, rn, imm) == SingleImm(1, 0, rd, rn, imm)
StImm(rd, rn, imm) == SingleImm(0, 0, rd, rn, imm)
StbReg(cond, rd, rn, rm) == SingleReg(cond, 0, 1, rd, rn, rm)
SthReg(cond, rd, rn, rm) == SignedHalfReg(cond, 0, 0, 1, rd, rn, rm)

(* Pushes and pops of one register and of a mask                           *)
PushReg(reg) == Always(<< <<1325, 16, 12>>, <<reg, 12, 4>>, <<4, 0, 12>> >>)
PopReg(reg) == Always(<< <<1181, 16, 12>>, <<reg, 12, 4>>, <<4, 0, 12>> >>)
MaskOf(regs) == SumSet({2^r : r \in regs})
Masked(regs, number, One(_)) ==
    CASE regs = {} -> <<>>
      [] \E r \in regs : regs = {r} -> << One(CHOOSE r \in regs : TRUE) >>
      [] OTHER -> << Always(<< <<number, 16, 12>>, <<MaskOf(regs), 0, 16>> >>) >>
PushRegs(regs) == Masked(regs, 2349, PushReg)
PopRegs(regs) == Masked(regs, 2237, PopReg)
Everything == 0 .. 11 \cup {LR}

(* At an offset from the frame pointer                                     *)
AtFp(disp, Imm1(_, _, _), ByReg(_, _, _), reg) ==
    IF Encodable(disp) \/ Encodable(-disp) THEN << Imm1(reg, FP, disp) >>
    ELSE MovImm32(R12, disp) \o << ByReg(reg, FP, R12) >>
LdFp(dest, disp) == AtFp(disp, LdImm, LdReg, dest)
StFp(reg, disp) == AtFp(disp, StImm, StReg, reg)

---------------------------------------------------------------------------
(* Floating point: vd, vn and vm are numbers of double registers, and vs   *)
(* those of single ones                                                    *)
Vcvt(size, vd, vm) ==
    Always(<< <<3767, 16, 12>>, <<vd, 12, 4>>, <<5, 9, 3>>, <<size, 8, 1>>, <<12, 4, 4>>, <<vm, 0, 4>> >>)
VcvtDtos(vd, vm) == Vcvt(1, vd, vm)
VcvtStod(vd, vm) == Vcvt(0, vd, vm)
VcvtDtosVsreg(vs, vm) ==
    Always(<< <<3767, 16, 12>>, <<vs \div 2, 12, 4>>, <<vs % 2, 22, 1>>, <<188, 4, 8>>, <<vm, 0, 4>> >>)
VcvtSintDouble(vd, vm) == Always(<< <<3768, 16, 12>>, <<vd, 12, 4>>, <<188, 4, 8>>, <<vm, 0, 4>> >>)
VcvtDoubleSint(vd, vm, round) ==
    Always(<< <<3773, 16, 12>>, <<vd, 12, 4>>, <<11, 8, 4>>, <<1 - round, 7, 1>>, <<4, 4, 3>>, <<vm, 0, 4>> >>)

(* The offset is divided by 4 towards zero                                 *)
VTransfer(load, float, vd, d, rn, imm) ==
    LET n == Quotient(imm, 4) IN
    Always(<< <<13, 24, 4>>, <<IF n >= 0 THEN 1 ELSE 0, 23, 1>>, <<d, 22, 1>>, <<load, 20, 1>>,
              <<rn, 16, 4>>, <<vd, 12, 4>>, <<5, 9, 3>>, <<1 - float, 8, 1>>, <<AbsOf(n), 0, 8>> >>)
FloatOf(size) == IF size = 4 THEN 1 ELSE 0
Vldr(vd, rn, imm, size) ==
    << VTransfer(1, FloatOf(size), vd, 0, rn, imm) >> \o (IF size = 4 THEN << VcvtStod(vd, vd) >> ELSE <<>>)
Vstr(vd, rn, imm, size) == << VTransfer(0, FloatOf(size), vd, 0, rn, imm) >>
NearFp(disp, near, far) == IF disp \in -4095 .. 4095 THEN near ELSE MovImm32(R12, disp) \o far
VldrFp(dest, disp, size) == NearFp(disp, Vldr(dest, FP, disp, size), Vldr(dest, FP, R12, size))
VstrFp(reg, disp, size) == NearFp(disp, Vstr(reg, FP, disp, size), Vstr(reg, FP, R12, size))
VstrFloatFp(vs, disp) ==
    NearFp(disp, << VTransfer(0, 1, vs \div 2, vs % 2, FP, disp) >>, Vstr(vs, FP, R12, 4))

Vop(op1, op2, vd, vn, vm) ==
    Always(<< <<14, 24, 4>>, <<op1, 20, 4>>, <<vn, 16, 4>>, <<vd, 12, 4>>, <<11, 8, 4>>, <<op2, 4, 4>>,
              <<vm, 0, 4>> >>)
Vadd(vd, vn, vm) == Vop(3, 0, vd, vn, vm)
Vsub(vd, vn, vm) == Vop(3, 4, vd, vn, vm)
Vmul(vd, vn, vm) == Vop(2, 0, vd, vn, vm)
Vdiv(vd, vn, vm) == Vop(8, 0, vd, vn, vm)
Vneg(vd, vm) == Vop(11, 4, vd, 1, vm)
Vabs(vd, vm) == Vop(11, 12, vd, 0, vm)
VmovDouble(vd, vm) == Vop(11, 4, vd, 0, vm)
Vcmp(vd, vm) == Vop(11, 12, vd, 4, vm)
Vcmp0(vd) == Vop(11, 12, vd, 5, 0)
VmovSingle(to, vs, rd) ==
    Always(<< <<112, 21, 7>>, <<to, 20, 1>>, <<vs \div 2, 16, 4>>, <<rd, 12, 4>>, <<10, 8, 4>>,
              <<vs % 2, 7, 1>>, <<16, 0, 7>> >>)
ToReg(rd, vs) == VmovSingle(1, vs, rd)
OfReg(vs, rd) == VmovSingle(0, vs, rd)
(* From the low half of a double register, and to it: the first is the     *)
(* move of a single register, the second the one of a half                 *)
LowToReg(rd, vn) == Always(<< <<225, 20, 8>>, <<vn, 16, 4>>, <<rd, 12, 4>>, <<161, 4, 8>> >>)
LowOfReg(vd, rn) == Always(<< <<224, 20, 8>>, <<vd, 16, 4>>, <<rn, 12, 4>>, <<2832, 0, 12>> >>)
Vstack(number, vd) == Always(<< <<number, 16, 12>>, <<vd, 12, 4>>, <<11, 8, 4>>, <<2, 0, 8>> >>)
Vpush(vd) == Vstack(3373, vd)
Vpop(vd) == Vstack(3261, vd)
Fpscr(read, r) == Always(<< <<119, 21, 7>>, <<read, 20, 1>>, <<1, 16, 1>>, <<r, 12, 4>>, <<2576, 0, 12>> >>)
Vmsr(rn) == Fpscr(0, rn)
Vmrs(rd) == Fpscr(1, rd)
VmrsFlags == Vmrs(15)
=============================================================================
