------------------------------ MODULE Machine ------------------------------
(***************************************************************************)
(* The x86 instructions the emitter uses for integer operations, as far as *)
(* the emitter relies on them: registers, the flags, and the words of the  *)
(* stack around the stack pointer.                                         *)
(*                                                                         *)
(* An instruction is a record; i names it, f is its function or condition, *)
(* d its destination, s its source, x an index register scaled by 2^e, and *)
(* k its immediate value or displacement.                                  *)
(***************************************************************************)
EXTENDS Operations

CONSTANTS
    B,     \* bits of the part of a register that SETcc writes (8)
    Slots  \* words of the stack, by their distance from the top at the start

ASSUME SlotsAssumption == B \in 1 .. I /\ 0 \in Slots /\ Slots \subseteq Int

VARIABLES
    reg,    \* the registers
    fl,     \* the flags: c carry, o overflow, z zero, s sign
    sp,     \* the stack pointer, in words; 0 at the start, pushing counts down
    mem,    \* the words of the stack
    out,    \* the stores to memory of the program so far
    taken,  \* the last conditional jump was taken
    state   \* "running", or "trapped" by an error of a division

machineVars == <<reg, fl, sp, mem, out, taken, state>>

(* What is on the stack of a caller the emitter knows nothing about        *)
Foreign == 77

MachineInit(file) ==
    /\ reg = file
    /\ fl = [c |-> FALSE, o |-> FALSE, z |-> FALSE, s |-> FALSE]
    /\ sp = 0
    /\ mem = [w \in Slots |-> Foreign]
    /\ out = <<>>
    /\ taken = FALSE
    /\ state = "running"

Ins == [i |-> "nop", f |-> "", d |-> None, s |-> None, x |-> None, e |-> 0, k |-> 0]
MovReg(d, s) == [Ins EXCEPT !.i = "mov", !.d = d, !.s = s]
MovImm(d, k) == [Ins EXCEPT !.i = "movi", !.d = d, !.k = k]
Xchg(d, s) == [Ins EXCEPT !.i = "xchg", !.d = d, !.s = s]
Load(d, k) == [Ins EXCEPT !.i = "load", !.d = d, !.k = k]
Save(s, k) == [Ins EXCEPT !.i = "save", !.s = s, !.k = k]
AluReg(f, d, s) == [Ins EXCEPT !.i = "alu", !.f = f, !.d = d, !.s = s]
AluImm(f, d, k) == [Ins EXCEPT !.i = "alui", !.f = f, !.d = d, !.k = k]
AluStack(f, d, k) == [Ins EXCEPT !.i = "alum", !.f = f, !.d = d, !.k = k]
Lea(d, s, x, e, k) ==
    [Ins EXCEPT !.i = "lea", !.d = d, !.s = s, !.x = x, !.e = e, !.k = k]
Neg(d) == [Ins EXCEPT !.i = "neg", !.d = d]
Not(d) == [Ins EXCEPT !.i = "not", !.d = d]
ShiftImm(f, d, k) == [Ins EXCEPT !.i = "shi", !.f = f, !.d = d, !.k = k]
ShiftCx(f, d) == [Ins EXCEPT !.i = "shc", !.f = f, !.d = d]
Mul(s, f) == [Ins EXCEPT !.i = "mul", !.s = s, !.f = f]
Div(s, f) == [Ins EXCEPT !.i = "div", !.s = s, !.f = f]
DivStack(f) == [Ins EXCEPT !.i = "divm", !.f = f]
Cdq == [Ins EXCEPT !.i = "cdq"]
Push(s) == [Ins EXCEPT !.i = "push", !.s = s]
Pop(d) == [Ins EXCEPT !.i = "pop", !.d = d]
AddSp(k) == [Ins EXCEPT !.i = "addsp", !.k = k]
SetReg(f, d) == [Ins EXCEPT !.i = "set", !.f = f, !.d = d]
Branch(f) == [Ins EXCEPT !.i = "jcc", !.f = f]
PutReg(s, x, k, d) == [Ins EXCEPT !.i = "put", !.d = d, !.s = s, !.x = x, !.k = k]
PutImm(s, x, k, e) == [Ins EXCEPT !.i = "puti", !.e = e, !.s = s, !.x = x, !.k = k]

---------------------------------------------------------------------------
OldFlags == UNCHANGED fl
Quiet == UNCHANGED <<sp, mem, out, taken, state>>
Write(d, n) == reg' = [reg EXCEPT ![d] = Wrap(n)]

(* MOV, XCHG, MOV from and to a word at a distance from SP                 *)
DoMove(ins) ==
    /\ \/ ins.i = "mov" /\ Write(ins.d, reg[ins.s]) /\ UNCHANGED mem
       \/ ins.i = "movi" /\ Write(ins.d, ins.k) /\ UNCHANGED mem
       \/ /\ ins.i = "xchg" /\ UNCHANGED mem
          /\ reg' = [reg EXCEPT ![ins.d] = reg[ins.s], ![ins.s] = reg[ins.d]]
       \/ ins.i = "load" /\ Write(ins.d, mem[sp + ins.k]) /\ UNCHANGED mem
       \/ ins.i = "save" /\ mem' = [mem EXCEPT ![sp + ins.k] = reg[ins.s]] /\ UNCHANGED reg
    /\ UNCHANGED <<fl, sp, out, taken, state>>

(* PUSH, POP, ADD to SP                                                    *)
DoStack(ins) ==
    /\ \/ /\ ins.i = "push" /\ sp' = sp - 1 /\ UNCHANGED reg
          /\ mem' = [mem EXCEPT ![sp - 1] = reg[ins.s]]
       \/ ins.i = "pop" /\ sp' = sp + 1 /\ Write(ins.d, mem[sp]) /\ UNCHANGED mem
       \/ ins.i = "addsp" /\ sp' = sp + ins.k /\ UNCHANGED <<reg, mem>>
    /\ UNCHANGED <<fl, out, taken, state>>

(* Two-operand arithmetic and its flags; CMP and TEST keep the destination *)
Carry == IF fl.c THEN 1 ELSE 0

AluValue(f, a, b) ==
    CASE f = "add" -> a + b
      [] f = "adc" -> a + b + Carry
      [] f \in {"sub", "cmp"} -> a - b
      [] f = "sbb" -> a - b - Carry
      [] f \in {"and", "test"} -> OfBits(Bits(a) \cap Bits(b))
      [] f = "or" -> OfBits(Bits(a) \cup Bits(b))
      [] f = "xor" -> OfBits(SymDiff(Bits(a), Bits(b)))

AluCarry(f, a, b) ==
    CASE f = "add" -> Unsigned(a) + Unsigned(b) >= 2^W
      [] f = "adc" -> Unsigned(a) + Unsigned(b) + Carry >= 2^W
      [] f \in {"sub", "cmp"} -> Unsigned(a) < Unsigned(b)
      [] f = "sbb" -> Unsigned(a) < Unsigned(b) + Carry
      [] f \in {"and", "or", "xor", "test"} -> FALSE

DoAlu(ins) ==
    LET a == reg[ins.d]
        b == CASE ins.i = "alu" -> reg[ins.s]
               [] ins.i = "alui" -> Short(ins.k)
               [] ins.i = "alum" -> mem[sp + ins.k]
        n == AluValue(ins.f, a, b)
    IN  /\ ins.i \in {"alu", "alui", "alum"}
        /\ fl' = [c |-> AluCarry(ins.f, a, b), o |-> n \notin Word,
                  z |-> Wrap(n) = 0, s |-> Wrap(n) < 0]
        /\ IF ins.f \in {"cmp", "test"} THEN UNCHANGED reg ELSE Write(ins.d, n)
        /\ Quiet

(* LEA, NEG, NOT                                                           *)
Value(r) == IF r = None THEN 0 ELSE reg[r]
Address(ins) == Value(ins.s) + Value(ins.x) * 2^ins.e + Short(ins.k)

DoUnary(ins) ==
    /\ \/ ins.i = "lea" /\ Write(ins.d, Address(ins)) /\ OldFlags
       \/ ins.i = "not" /\ Write(ins.d, -reg[ins.d] - 1) /\ OldFlags
       \/ /\ ins.i = "neg" /\ Write(ins.d, -reg[ins.d])
          /\ fl' = [c |-> reg[ins.d] # 0, o |-> -reg[ins.d] \notin Word,
                    z |-> reg[ins.d] = 0, s |-> Wrap(-reg[ins.d]) < 0]
    /\ Quiet

(* SHL, SHR, SAR by a constant or by CX.  The processor uses as many bits  *)
(* of the count as number the bits of a register.  No instruction of the   *)
(* emitter reads the flags of a shift, a multiplication or a division.     *)
DoShift(ins) ==
    LET count == (IF ins.i = "shi" THEN ins.k ELSE reg["cx"]) % W
    IN  /\ ins.i \in {"shi", "shc"}
        /\ Write(ins.d, CASE ins.f = "shl" -> reg[ins.d] * 2^count
                            [] ins.f = "shr" -> Unsigned(reg[ins.d]) \div 2^count
                            [] ins.f = "sar" -> reg[ins.d] \div 2^count)
        /\ OldFlags /\ Quiet

(* MUL and IMUL: AX and DX get the two halves of the product.  CDQ spreads *)
(* the sign of AX over DX.  DIV and IDIV divide the two by their operand   *)
(* and trap when the quotient does not fit.                                *)
DoMul(ins) ==
    LET product == As(ins.f = "signed", reg["ax"]) * As(ins.f = "signed", reg[ins.s])
    IN  /\ ins.i = "mul"
        /\ reg' = [reg EXCEPT !["ax"] = Wrap(product), !["dx"] = Wrap(product \div 2^W)]
        /\ OldFlags /\ Quiet

DoDiv(ins) ==
    LET signed == ins.f = "signed"
        n == As(signed, reg["dx"]) * 2^W + Unsigned(reg["ax"])
        d == As(signed, IF ins.i = "div" THEN reg[ins.s] ELSE mem[sp])
        fits == d # 0 /\ Quotient(n, d) \in IF signed THEN Word ELSE 0 .. 2^W - 1
    IN  /\ ins.i \in {"div", "divm"}
        /\ IF fits THEN /\ reg' = [reg EXCEPT !["ax"] = Wrap(Quotient(n, d)),
                                              !["dx"] = Wrap(Remainder(n, d))]
                        /\ UNCHANGED state
                   ELSE state' = "trapped" /\ UNCHANGED reg
        /\ UNCHANGED <<fl, sp, mem, out, taken>>

DoCdq(ins) ==
    ins.i = "cdq" /\ Write("dx", IF reg["ax"] < 0 THEN -1 ELSE 0) /\ OldFlags /\ Quiet

(* SETcc writes the low bits of its register only                          *)
True(cond) ==
    CASE cond = "eq" -> fl.z
      [] cond = "ne" -> ~fl.z
      [] cond = "lt" -> fl.s # fl.o
      [] cond = "ge" -> fl.s = fl.o
      [] cond = "le" -> fl.z \/ fl.s # fl.o
      [] cond = "gt" -> ~fl.z /\ fl.s = fl.o
      [] cond = "ult" -> fl.c
      [] cond = "uge" -> ~fl.c
      [] cond = "ule" -> fl.c \/ fl.z
      [] cond = "ugt" -> ~fl.c /\ ~fl.z
      [] cond = "o" -> fl.o
      [] cond = "no" -> ~fl.o

DoCondition(ins) ==
    /\ \/ /\ ins.i = "set" /\ UNCHANGED taken
          /\ Write(ins.d, (reg[ins.d] \div 2^B) * 2^B + (IF True(ins.f) THEN 1 ELSE 0))
       \/ ins.i = "jcc" /\ taken' = True(ins.f) /\ UNCHANGED reg
    /\ UNCHANGED <<fl, sp, mem, out, state>>

(* A store to memory of the program                                        *)
DoStore(ins) ==
    /\ ins.i \in {"put", "puti"}
    /\ out' = Append(out, <<Wrap(Address([ins EXCEPT !.e = 0])),
                            IF ins.i = "put" THEN reg[ins.d] ELSE Short(ins.e)>>)
    /\ UNCHANGED <<reg, fl, sp, mem, taken, state>>
=============================================================================
