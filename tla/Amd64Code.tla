----------------------------- MODULE Amd64Code -----------------------------
(*************************************************************************)
(* The encoders of amd64-codegen.h: the i386 instruction of X86Code      *)
(* under a REX prefix that holds the operand width and the fourth bits   *)
(* of the registers.  Three orders occur in the header and are kept: a   *)
(* mandatory prefix (66, F2, F3) before the REX byte, most one-line      *)
(* macros that emit the REX byte and then the x86 macro, and SSE macros  *)
(* that put it between the prefix and 0F.                                *)
(*************************************************************************)
EXTENDS Integers, Sequences

X86 == INSTANCE X86Code

RAX == 0
RSP == 4

\* As Rex, if r8 counted among the registers without a fourth bit.
RexOffByOne(width, reg, index, base) ==
  LET bits == (IF width > 4 THEN 8 ELSE 0) + (IF reg > 7 THEN 4 ELSE 0)
                + (IF index > 8 THEN 2 ELSE 0) + (IF base > 7 THEN 1 ELSE 0)
  IN  IF bits # 0 \/ width = 1 THEN << 64 + bits >> ELSE << >>
Rex(width, reg, index, base) ==
  LET bits == (IF width > 4 THEN 8 ELSE 0) + (IF reg > 7 THEN 4 ELSE 0)
                + (IF index > 7 THEN 2 ELSE 0) + (IF base > 7 THEN 1 ELSE 0)
  IN  IF bits # 0 \/ width = 1 THEN << 64 + bits >> ELSE << >>

BaseOf(m) == CASE m.k = "reg" -> m.r
               [] m.k = "abs" -> 0
               [] OTHER       -> m.base
IndexOf(m) == IF m.k = "index" THEN m.index ELSE 0
RexFor(width, r, m) == Rex(width, r, IndexOf(m), BaseOf(m))

\* The operand an x86 macro is given: registers without their fourth bit.
Low(m) ==
  CASE m.k = "reg"   -> X86!Reg(m.r % 8)
    [] m.k = "abs"   -> m
    [] m.k = "base"  -> X86!Base(m.base % 8, m.disp)
    [] m.k = "index" -> X86!Index(m.base % 8, m.disp, m.index % 8, m.shift)

\* amd64_mem_emit: an absolute address needs the SIB byte, since the i386
\* form is relative to the instruction pointer.
Absolute(r, m) ==
  X86!AddressByte(0, r, 4) \o X86!AddressByte(0, 4, 5) \o X86!Imm32(m.disp)
Operand(r, m) == IF m.k = "abs" THEN Absolute(r, m) ELSE X86!Operand(r, Low(m))
\* The SSE macros and lea hand the index form its registers as they are.
RawOperand(r, m) == IF m.k = "index" THEN X86!Operand(r, m) ELSE Operand(r, m)

Half(size) == IF size = 2 THEN << \h66 >> ELSE << >>

-----------------------------------------------------------------------------
(* Moves.                                                                *)

MovForm(r, m, size, byte, wide) ==
  LET code == IF size = 1 THEN byte ELSE wide IN
  IF m.k = "index"
    THEN RexFor(size, r, m) \o Half(size) \o << code >> \o Operand(r, m)
    ELSE Half(size) \o RexFor(size, r, m) \o << code >> \o Operand(r, m)
MovStore(m, r, size) == MovForm(r, m, size, \h88, \h89)
MovLoad(r, m, size) == MovForm(r, m, size, \h8A, \h8B)

MovImm(m, v, size) ==
  LET op == << IF size = 1 THEN \hC6 ELSE \hC7 >>
              \o Operand(0, m) \o X86!ImmOf(v, size)
  IN IF m.k = "base"
       THEN Half(size) \o RexFor(IF size = 1 THEN 0 ELSE size, 0, m) \o op
       ELSE RexFor(size, 0, m) \o Half(size) \o op

\* A value is given in 32-bit words, the low one first.
Imm64(v) == X86!Imm32(v[1]) \o X86!Imm32(v[2])
MovRegImm(r, v) == Rex(8, 0, 0, r) \o << \hB8 + (r % 8) >> \o Imm64(v)

Movsxd(r, m) == RexFor(8, r, m) \o << \h63 >> \o Operand(r, m)
\* amd64_movzx and amd64_movsx
Widen(r, m, size, sign) ==
  IF sign /\ size = 4 THEN Movsxd(r, m)
  ELSE IF size \in {4, 8} THEN MovLoad(r, m, size)
  ELSE (IF m.k = "reg" THEN Half(size) ELSE << >>) \o RexFor(8, r, m)
         \o << \h0F, (IF sign THEN \hBE ELSE \hB6) + (size - 1) >> \o Operand(r, m)

Xchg(d, r, size) ==
  Rex(size, d, 0, r) \o X86!Xchg(d % 8, r % 8, IF size = 8 THEN 4 ELSE size)
LeaBase(r, m) == RexFor(8, r, m) \o << \h8D >> \o Operand(r, m)
LeaIndex(r, m) == RexFor(8, r, m) \o << \h8D >> \o RawOperand(r, m)
Lea(r, m) == IF m.k = "index" THEN LeaIndex(r, m) ELSE LeaBase(r, m)

Push(r) == Rex(0, 0, 0, r) \o << \h50 + (r % 8) >>
Pop(r) == Rex(0, 0, 0, r) \o << \h58 + (r % 8) >>
PushMem(m) == RexFor(0, 0, m) \o << \hFF >> \o Operand(6, m)

-----------------------------------------------------------------------------
(* Arithmetic.                                                           *)

Alu(op, r, m) ==
  RexFor(8, r, m) \o << X86!AluOps[op] * 8 + 3 >> \o Operand(r, m)

AluImm(op, r, v) ==
  IF X86!IsImm8(v)
    THEN Rex(8, 0, 0, r) \o << \h83 >>
           \o X86!RegEmit(X86!AluOps[op], r) \o X86!Imm8(v)
  ELSE IF r = RAX
    THEN Rex(8, 0, 0, 0) \o << X86!AluOps[op] * 8 + 5 >> \o X86!Imm32(v)
    ELSE Rex(8, 0, 0, r) \o << \h81 >>
           \o X86!RegEmit(X86!AluOps[op], r) \o X86!Imm32(v)

Test(d, r) == Rex(8, d, 0, r) \o X86!Test(d % 8, r % 8)
TestImm(r, v) == Rex(8, 0, 0, r) \o X86!TestImm(r % 8, v)
Shift(op, r) == Rex(8, 0, 0, r) \o X86!Shift(op, r % 8)
ShiftImm(op, r, v) == Rex(8, 0, 0, r) \o X86!ShiftImm(op, r % 8, v)
Mul(r, sign) == Rex(8, 0, 0, r) \o X86!Mul(r % 8, sign)
Div(m, sign) == RexFor(8, 0, m) \o X86!Div(Low(m), sign)
Not(r) == Rex(8, 0, 0, r) \o X86!Not(r % 8)
Neg(r) == Rex(8, 0, 0, r) \o X86!Neg(r % 8)
Cdq == Rex(8, 0, 0, 0) \o X86!Cdq
Pushfd == Rex(8, 0, 0, 0) \o X86!Pushfd
Popfd == Rex(8, 0, 0, 0) \o X86!Popfd

-----------------------------------------------------------------------------
(* Jumps.  A branch carries a REX byte, and its displacement is read     *)
(* after that byte is out.                                               *)

SetReg(cc, r, sign) == Rex(1, 0, 0, r) \o X86!SetReg(cc, r % 8, sign)
JumpReg(r) == Rex(0, 0, 0, r) \o X86!JumpReg(r % 8)
CallReg(r) == Rex(0, 0, 0, r) \o X86!CallReg(r % 8)
CallMem(m) == RexFor(0, 0, m) \o X86!CallMem(Low(m))
JumpDisp(disp) == Rex(0, 0, 0, 0) \o X86!JumpDisp(disp)
JumpDisp32(disp) == Rex(0, 0, 0, 0) \o X86!JumpDisp32(disp)
BranchDisp(cc, disp, sign) ==
  LET rex == Rex(8, 0, 0, 0)
  IN  rex \o X86!BranchDisp(cc, disp - Len(rex), sign)
\* As BranchDisp32, if the displacement were read before the REX byte.
BranchDisp32Early(cc, disp, sign) ==
  Rex(8, 0, 0, 0) \o X86!BranchDisp32(cc, disp, sign)
BranchDisp32(cc, disp, sign) ==
  LET rex == Rex(8, 0, 0, 0)
  IN  rex \o X86!BranchDisp32(cc, disp - Len(rex), sign)

\* amd64_patch: the same cases as x86_patch after a REX byte.
RexAt(code, at) == IF code[at] \div 16 = 4 THEN 1 ELSE 0
Patch(code, at, target) == X86!Patch(code, at + RexAt(code, at), target)

-----------------------------------------------------------------------------
(* SSE2.                                                                 *)

Sse(prefix, op, r, m, width) ==
  << prefix >> \o RexFor(width, r, m) \o << \h0F, op >> \o RawOperand(r, m)
\* The width the one-line forms ask for: 8 under an index.
IndexWidth(m) == IF m.k = "index" THEN 8 ELSE 0
AluWidth(m) == IF m.k = "abs" THEN 8 ELSE 0

SseAluSd(op, r, m) == Sse(\hF2, X86!SseOps[op], r, m, AluWidth(m))
SseAluPd(op, r, m) == Sse(\h66, X86!SseOps[op], r, m, AluWidth(m))
SseAluPdImm(op, r, m, v) == Sse(\h66, X86!SseOps[op], r, m, 0) \o X86!Imm8(v)

MovsdLoad(r, m) == Sse(\hF2, \h10, r, m, 0)
MovlpdLoad(r, m) == Sse(\h66, \h12, r, m, IndexWidth(m))
MovlpdStore(m, r) == Sse(\h66, \h13, r, m, IndexWidth(m))
MovssLoad(r, m) == Sse(\hF3, \h10, r, m, 0)
MovssStore(m, r) == Sse(\hF3, \h11, r, m, IndexWidth(m))
Cvtsd2ss(d, m) == Sse(\hF2, \h5A, d, m, 0)
Cvtss2sd(d, m) == Sse(\hF3, \h5A, d, m, IndexWidth(m))
Cvttsd2si(d, m) == Sse(\hF2, \h2C, d, m, 8)
Cvtsi2sd(d, m) == Sse(\hF2, \h2A, d, m, 8)
Movd(d, r, size) == Sse(\h66, \h6E, d, X86!Reg(r), size)

-----------------------------------------------------------------------------

Encode(x, disp) ==
  CASE x.i = "store"  -> MovStore(x.m, x.r, x.size)
    [] x.i = "load"   -> MovLoad(x.r, x.m, x.size)
    [] x.i = "imm"    -> MovImm(x.m, x.v, x.size)
    [] x.i = "movi"   -> MovRegImm(x.r, x.v)
    [] x.i = "widen"  -> Widen(x.r, x.m, x.size, x.sign)
    [] x.i = "xchg"   -> Xchg(x.d, x.r, x.size)
    [] x.i = "lea"    -> Lea(x.r, x.m)
    [] x.i = "push"   -> Push(x.r)
    [] x.i = "pushm"  -> PushMem(x.m)
    [] x.i = "pop"    -> Pop(x.r)
    [] x.i = "alu"    -> Alu(x.op, x.r, x.m)
    [] x.i = "alui"   -> AluImm(x.op, x.r, x.v)
    [] x.i = "test"   -> Test(x.d, x.r)
    [] x.i = "testi"  -> TestImm(x.r, x.v)
    [] x.i = "shift"  -> Shift(x.op, x.r)
    [] x.i = "shifti" -> ShiftImm(x.op, x.r, x.v)
    [] x.i = "mul"    -> Mul(x.r, x.sign)
    [] x.i = "div"    -> Div(x.m, x.sign)
    [] x.i = "not"    -> Not(x.r)
    [] x.i = "neg"    -> Neg(x.r)
    [] x.i = "nop"    -> X86!Nop
    [] x.i = "cdq"    -> Cdq
    [] x.i = "pushf"  -> Pushfd
    [] x.i = "popf"   -> Popfd
    [] x.i = "ret"    -> X86!Ret
    [] x.i = "set"    -> SetReg(x.cc, x.r, x.sign)
    [] x.i = "jmpr"   -> JumpReg(x.r)
    [] x.i = "callr"  -> CallReg(x.r)
    [] x.i = "callm"  -> CallMem(x.m)
    [] x.i = "jmp"    -> JumpDisp(disp)
    [] x.i = "jmp32"  -> JumpDisp32(disp)
    [] x.i = "jcc"    -> BranchDisp(x.cc, disp, x.sign)
    [] x.i = "jcc32"  -> BranchDisp32(x.cc, disp, x.sign)
    [] x.i = "jccsse" -> X86!BranchDisp32(x.cc, disp, x.sign)
    [] x.i = "call"   -> X86!CallImm((disp - 1) - 4)

EncodeSse(x) ==
  CASE x.i = "sd"      -> SseAluSd(x.op, x.r, x.m)
    [] x.i = "pd"      -> SseAluPd(x.op, x.r, x.m)
    [] x.i = "pdi"     -> SseAluPdImm(x.op, x.r, x.m, x.v)
    [] x.i = "movsd"   -> MovsdLoad(x.r, x.m)
    [] x.i = "movlpd"  -> MovlpdLoad(x.r, x.m)
    [] x.i = "movlpds" -> MovlpdStore(x.m, x.r)
    [] x.i = "movss"   -> MovssLoad(x.r, x.m)
    [] x.i = "movsss"  -> MovssStore(x.m, x.r)
    [] x.i = "sd2ss"   -> Cvtsd2ss(x.r, x.m)
    [] x.i = "ss2sd"   -> Cvtss2sd(x.r, x.m)
    [] x.i = "sd2si"   -> Cvttsd2si(x.r, x.m)
    [] x.i = "si2sd"   -> Cvtsi2sd(x.r, x.m)
    [] x.i = "movd"    -> Movd(x.r, x.s, x.size)
    [] x.i = "pushx"   -> AluImm("sub", RSP, 8) \o MovlpdStore(X86!Base(RSP, 0), x.r)
    [] x.i = "popx"    -> MovlpdLoad(x.r, X86!Base(RSP, 0)) \o AluImm("add", RSP, 8)
=============================================================================
