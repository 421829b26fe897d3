------------------------------ MODULE X86Code ------------------------------
(*************************************************************************)
(* The encoders of x86-codegen.h: what each macro stores at jit->ip for  *)
(* one i386 instruction.  Code is a sequence of bytes.  An operand is a  *)
(* register, an absolute address, a base register with a displacement,   *)
(* or a base, an index and a shift; the four macros of an instruction    *)
(* that differ in that only (x86_mov_reg_reg, _mem, _membase, _memindex) *)
(* are one operator here.  Encode is the choice common86-codegen.h and   *)
(* sse2-specific.h make of the macro for a request of the emitters.      *)
(*************************************************************************)
EXTENDS Integers, Sequences

Reg(n) == [k |-> "reg", r |-> n]
Abs(a) == [k |-> "abs", disp |-> a]
Base(b, d) == [k |-> "base", base |-> b, disp |-> d]
Index(b, d, i, s) == [k |-> "index", base |-> b, disp |-> d,
                      index |-> i, shift |-> s]

EAX == 0
ESP == 4
EBP == 5
NoBaseReg == -1

IsImm8(v) == v \in -128..127
Little(v, n) == [b \in 1..n |-> (v \div 256 ^ (b - 1)) % 256]
Imm8(v) == Little(v, 1)
Imm32(v) == Little(v, 4)
\* What an instruction of this operand size takes as its immediate.
ImmOf(v, size) == Little(v, IF size > 4 THEN 4 ELSE size)

-----------------------------------------------------------------------------
(* ModRM, SIB and displacement.                                          *)

AddressByte(mod, reg, rm) == << ((mod % 4) * 64 + (reg % 8) * 8) + (rm % 8) >>

RegEmit(r, regno) == AddressByte(3, r, regno)
MemEmit(r, disp) == AddressByte(0, r, 5) \o Imm32(disp)

MembaseEmit(r, base, disp) ==
  LET sib == IF base = ESP THEN AddressByte(0, ESP, ESP) ELSE << >> IN
  IF disp = 0 /\ base # EBP
    THEN AddressByte(0, r, base) \o sib
  ELSE IF IsImm8(disp)
    THEN AddressByte(1, r, base) \o sib \o Imm8(disp)
    ELSE AddressByte(2, r, base) \o sib \o Imm32(disp)

MemindexEmit(r, base, disp, index, shift) ==
  LET sib == AddressByte(shift, index, base) IN
  IF base = NoBaseReg
    THEN AddressByte(0, r, 4) \o AddressByte(shift, index, 5) \o Imm32(disp)
  ELSE IF disp = 0 /\ base # EBP
    THEN AddressByte(0, r, 4) \o sib
  ELSE IF IsImm8(disp)
    THEN AddressByte(1, r, 4) \o sib \o Imm8(disp)
    ELSE AddressByte(2, r, 4) \o sib \o Imm32(disp)

Operand(r, m) ==
  CASE m.k = "reg"   -> RegEmit(r, m.r)
    [] m.k = "abs"   -> MemEmit(r, m.disp)
    [] m.k = "base"  -> MembaseEmit(r, m.base, m.disp)
    [] m.k = "index" -> MemindexEmit(r, m.base, m.disp, m.index, m.shift)

-----------------------------------------------------------------------------
(* Moves.                                                                *)

Sized(size, byte, wide) ==
  (IF size = 2 THEN << \h66 >> ELSE << >>)
    \o << IF size = 1 THEN byte ELSE wide >>

MovStore(m, r, size) == Sized(size, \h88, \h89) \o Operand(r, m)
MovLoad(r, m, size) == Sized(size, \h8A, \h8B) \o Operand(r, m)
MovImm(m, v, size) == Sized(size, \hC6, \hC7) \o Operand(0, m) \o ImmOf(v, size)
MovRegImm(r, v) == << \hB8 + r >> \o Imm32(v)

\* movzx and movsx of a byte or of two bytes.
Widen(r, m, size, sign) ==
  << \h0F, (IF sign THEN \hBE ELSE \hB6) + (size - 1) >> \o Operand(r, m)

Xchg(d, r, size) == << IF size = 1 THEN \h86 ELSE \h87 >> \o RegEmit(r, d)
Lea(r, m) == << \h8D >> \o Operand(r, m)
Push(r) == << \h50 + r >>
PushMem(m) == << \hFF >> \o Operand(6, m)
PushImm(v) == IF IsImm8(v) THEN << \h6A >> \o Imm8(v) ELSE << \h68 >> \o Imm32(v)
Pop(r) == << \h58 + r >>

\* The stack of the x87: fld, and fst with or without the pop.
Fld(m, double) == << IF double THEN \hDD ELSE \hD9 >> \o Operand(0, m)
Fst(m, double, pop) ==
  << IF double THEN \hDD ELSE \hD9 >> \o Operand(IF pop THEN 3 ELSE 2, m)

-----------------------------------------------------------------------------
(* Arithmetic.                                                           *)

AluOps == [add |-> 0, or |-> 1, adc |-> 2, sbb |-> 3,
           and |-> 4, sub |-> 5, xor |-> 6, cmp |-> 7]
ShiftOps == [shl |-> 4, shr |-> 5, sar |-> 7]

Alu(op, r, m) == << AluOps[op] * 8 + 3 >> \o Operand(r, m)

AluImm(op, r, v) ==
  IF r = EAX THEN << AluOps[op] * 8 + 5 >> \o Imm32(v)
  ELSE IF IsImm8(v) THEN << \h83 >> \o RegEmit(AluOps[op], r) \o Imm8(v)
  ELSE << \h81 >> \o RegEmit(AluOps[op], r) \o Imm32(v)

Test(d, r) == << \h85 >> \o RegEmit(r, d)
TestImm(r, v) ==
  (IF r = EAX THEN << \hA9 >> ELSE << \hF7 >> \o RegEmit(0, r)) \o Imm32(v)

Shift(op, r) == << \hD3 >> \o RegEmit(ShiftOps[op], r)
ShiftImm(op, r, v) ==
  IF v = 1 THEN << \hD1 >> \o RegEmit(ShiftOps[op], r)
           ELSE << \hC1 >> \o RegEmit(ShiftOps[op], r) \o Imm8(v)

Mul(r, sign) == << \hF7 >> \o RegEmit(IF sign THEN 5 ELSE 4, r)
Div(m, sign) == << \hF7 >> \o Operand(IF sign THEN 7 ELSE 6, m)
Not(r) == << \hF7 >> \o RegEmit(2, r)
Neg(r) == << \hF7 >> \o RegEmit(3, r)
Nop == << \h90 >>
Cdq == << \h99 >>
Pushfd == << \h9C >>
Popfd == << \h9D >>
Ret == << \hC3 >>

-----------------------------------------------------------------------------
(* Jumps.  The displacement counts from the first byte of the macro.     *)

CcUnsigned == [eq |-> \h74, ne |-> \h75, lt |-> \h72, le |-> \h76, gt |-> \h77,
               ge |-> \h73, lz |-> \h78, gez |-> \h79, p |-> \h7A, np |-> \h7B,
               o |-> \h70, no |-> \h71]
CcSigned == [CcUnsigned EXCEPT !.lt = \h7C, !.le = \h7E, !.gt = \h7F, !.ge = \h7D]
Cc(cc, sign) == IF sign THEN CcSigned[cc] ELSE CcUnsigned[cc]

JumpReg(r) == << \hFF >> \o RegEmit(4, r)
CallReg(r) == << \hFF >> \o RegEmit(2, r)
CallMem(m) == << \hFF >> \o Operand(2, m)
Jump8(v) == << \hEB >> \o Imm8(v)
Jump32(v) == << \hE9 >> \o Imm32(v)
JumpDisp(disp) == IF IsImm8(disp - 2) THEN Jump8(disp - 2) ELSE Jump32(disp - 5)
JumpDisp32(disp) == Jump32(disp - 5)

Branch8(cc, v, sign) == << Cc(cc, sign) >> \o Imm8(v)
Branch32(cc, v, sign) == << \h0F, Cc(cc, sign) + \h10 >> \o Imm32(v)
BranchDisp(cc, disp, sign) ==
  IF IsImm8(disp - 2) THEN Branch8(cc, disp - 2, sign)
                      ELSE Branch32(cc, disp - 6, sign)
BranchDisp32(cc, disp, sign) == Branch32(cc, disp - 6, sign)

SetReg(cc, r, sign) == << \h0F, Cc(cc, sign) + \h20 >> \o RegEmit(0, r)
\* x86_call_imm: its argument is evaluated after the opcode is stored.
CallImm(disp) == << \hE8 >> \o Imm32(disp)

\* x86_patch: rewrites the displacement of the jump at `at` to lead to
\* `target`; an assertion fails for other code or when a byte is too small.
Overwrite(code, at, bytes) ==
  [i \in DOMAIN code |-> IF i \in at .. at + Len(bytes) - 1
                         THEN bytes[i - at + 1] ELSE code[i]]
IsJcc8(b) == b \in \h70..\h7F
CanPatch8(b) == IsJcc8(b) \/ b \in {\hE0, \hE1, \hE2, \hEB}

Patch(code, at, target) ==
  LET op == code[at]
      pos == IF op = \h0F THEN at + 2 ELSE at + 1 IN
  IF op \in {\hE8, \hE9} \/ (op = \h0F /\ code[at + 1] \in \h70..\h8F)
    THEN Overwrite(code, pos, Imm32(target - pos - 4))
    ELSE IF CanPatch8(op) /\ IsImm8(target - pos - 1)
    THEN Overwrite(code, pos, Imm8(target - pos - 1))
    ELSE << >>

-----------------------------------------------------------------------------
(* SSE2.  The first operand is the register of the ModRM byte.           *)

Sse(prefix, op, r, m) == << prefix, \h0F, op >> \o Operand(r, m)

SseOps == [add |-> \h58, mul |-> \h59, sub |-> \h5C, div |-> \h5E,
           and |-> \h54, xor |-> \h57, comi |-> \h2F, shuf |-> \hC6]
SseAluSd(op, r, m) == Sse(\hF2, SseOps[op], r, m)
SseAluPd(op, r, m) == Sse(\h66, SseOps[op], r, m)
SseAluPdImm(op, r, m, v) == SseAluPd(op, r, m) \o Imm8(v)

MovsdLoad(r, m) == Sse(\hF2, \h10, r, m)
MovsdReg(d, r) == Sse(\hF2, \h11, r, Reg(d))
MovlpdLoad(r, m) == Sse(\h66, \h12, r, m)
MovlpdStore(m, r) == Sse(\h66, \h13, r, m)
MovssLoad(r, m) == Sse(\hF3, \h10, r, m)
MovssStore(m, r) == Sse(\hF3, \h11, r, m)
Cvtsd2ss(d, m) == Sse(\hF2, \h5A, d, m)
Cvtss2sd(d, m) == Sse(\hF3, \h5A, d, m)
Cvttsd2si(d, m) == Sse(\hF2, \h2C, d, m)
Cvtsi2sd(d, m) == Sse(\hF2, \h2A, d, m)

-----------------------------------------------------------------------------
(* One request of the emitters.  `disp` is the way from the first byte   *)
(* to the label of a jump.                                               *)

Encode(x, disp) ==
  CASE x.i = "store"  -> MovStore(x.m, x.r, x.size)
    [] x.i = "load"   -> MovLoad(x.r, x.m, x.size)
    [] x.i = "imm"    -> MovImm(x.m, x.v, x.size)
    [] x.i = "movi"   -> MovRegImm(x.r, x.v[1])
    [] x.i = "widen"  -> Widen(x.r, x.m, x.size, x.sign)
    [] x.i = "xchg"   -> Xchg(x.d, x.r, x.size)
    [] x.i = "lea"    -> Lea(x.r, x.m)
    [] x.i = "push"   -> Push(x.r)
    [] x.i = "pushm"  -> PushMem(x.m)
    [] x.i = "pushi"  -> PushImm(x.v)
    [] x.i = "pop"    -> Pop(x.r)
    [] x.i = "fld"    -> Fld(x.m, x.double)
    [] x.i = "fst"    -> Fst(x.m, x.double, x.pop)
    [] x.i = "alu"    -> Alu(x.op, x.r, x.m)
    [] x.i = "alui"   -> AluImm(x.op, x.r, x.v)
    [] x.i = "test"   -> Test(x.d, x.r)
    [] x.i = "testi"  -> TestImm(x.r, x.v)
    [] x.i = "shift"  -> Shift(x.op, x.r)
    [] x.i = "shifti" -> ShiftImm(x.op, x.r, x.v)
    [] x.i = "mul"    -> Mul(x.r, x.sign)
    [] x.i = "div"    -> Div(x.m, x.sign)
    [] x.i = "not"    -> Not(x.r)
    [] x.i = "neg"    -> Neg(x.r)
    [] x.i = "nop"    -> Nop
    [] x.i = "cdq"    -> Cdq
    [] x.i = "pushf"  -> Pushfd
    [] x.i = "popf"   -> Popfd
    [] x.i = "ret"    -> Ret
    [] x.i = "set"    -> SetReg(x.cc, x.r, x.sign)
    [] x.i = "jmpr"   -> JumpReg(x.r)
    [] x.i = "callr"  -> CallReg(x.r)
    [] x.i = "callm"  -> CallMem(x.m)
    [] x.i = "jmp"    -> JumpDisp(disp)
    [] x.i = "jmp32"  -> JumpDisp32(disp)
    [] x.i = "jcc"    -> BranchDisp(x.cc, disp, x.sign)
    [] x.i \in {"jcc32", "jccsse"} -> BranchDisp32(x.cc, disp, x.sign)
    [] x.i = "call"   -> CallImm((disp - 1) - 4)

EncodeSse(x) ==
  CASE x.i = "sd"      -> SseAluSd(x.op, x.r, x.m)
    [] x.i = "pd"      -> SseAluPd(x.op, x.r, x.m)
    [] x.i = "pdi"     -> SseAluPdImm(x.op, x.r, x.m, x.v)
    [] x.i = "movsd"   -> MovsdLoad(x.r, x.m)
    [] x.i = "movsdr"  -> MovsdReg(x.d, x.r)
    [] x.i = "movlpd"  -> MovlpdLoad(x.r, x.m)
    [] x.i = "movlpds" -> MovlpdStore(x.m, x.r)
    [] x.i = "movss"   -> MovssLoad(x.r, x.m)
    [] x.i = "movsss"  -> MovssStore(x.m, x.r)
    [] x.i = "sd2ss"   -> Cvtsd2ss(x.r, x.m)
    [] x.i = "ss2sd"   -> Cvtss2sd(x.r, x.m)
    [] x.i = "sd2si"   -> Cvttsd2si(x.r, x.m)
    [] x.i = "si2sd"   -> Cvtsi2sd(x.r, x.m)
    [] x.i = "pushx"   -> AluImm("sub", ESP, 8) \o MovlpdStore(Base(ESP, 0), x.r)
    [] x.i = "popx"    -> MovlpdLoad(x.r, Base(ESP, 0)) \o AluImm("add", ESP, 8)
=============================================================================
