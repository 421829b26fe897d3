------------------------------ MODULE Emitter ------------------------------
(***************************************************************************)
(* The code the emitter makes of integer operations (common86-specific.h), *)
(* and its execution.  One register is used for each virtual register, so  *)
(* that every choice the allocator can make of operands in the same        *)
(* register, or in one that an instruction needs for itself, is a program. *)
(*                                                                         *)
(* The code of an operation runs as soon as it is emitted: nothing the     *)
(* emitter looks at changes in between, and the list has no branch back.   *)
(***************************************************************************)
EXTENDS Rewrites, Machine

CONSTANTS
    GpRegs,      \* al->gp_regs, in their order
    CalleeSaved  \* those that are callee_saved

ASSUME GpRegsAssumption == Range(GpRegs) = Reg /\ CalleeSaved \subseteq Reg

VARIABLE code  \* the instructions still to run of the operation before pos

vars == <<rewriteVars, machineVars, code>>

Init == RewriteInit /\ MachineInit(prog.file) /\ code = <<>>

---------------------------------------------------------------------------
(* jit_reg_in_use and jit_get_unused_reg, for the operation at position p  *)
(* Slip: the operands of the operation itself are forgotten.               *)
InUseAfter(p) == live[p].out
InUse(p) == live[p].in \cup live[p].out
UnusedReg(p) == SelectSeq(GpRegs, LAMBDA r : r \notin InUse(p) \cup CalleeSaved)

When(condition, instructions) == IF condition THEN instructions ELSE <<>>
MovUnlessSame(d, s) == When(d # s, <<MovReg(d, s)>>)

(* Registers that an operation needs for itself are pushed before and      *)
(* popped after it, in the opposite order                                  *)
(* Slip: the second register is not popped.                               *)
PreservingFirst(r1, r2, body) ==
    (r1 \o r2) \o body \o [i \in 1 .. Len(r1) |-> [r1[i] EXCEPT !.i = "pop", !.d = r1[i].s]]
Preserving(r1, r2, body) ==
    (r1 \o r2) \o body \o [i \in 1 .. Len(r2) |-> [r2[i] EXCEPT !.i = "pop", !.d = r2[i].s]]
                       \o [i \in 1 .. Len(r1) |-> [r1[i] EXCEPT !.i = "pop", !.d = r1[i].s]]

(***************************************************************************)
(* The functions emit_..._op.  d, s and x are the three operands; x is     *)
(* None for an immediate value, which is k.                                *)
(***************************************************************************)
EmitAlu(f, op) ==
    LET d == op.r[1]  s == op.r[2]  x == op.r[3]
    IN  CASE x = None -> MovUnlessSame(d, s) \o <<AluImm(f, d, op.k)>>
          [] x # None /\ d = s -> <<AluReg(f, d, x)>>
          [] x # None /\ d # s /\ d = x -> <<AluReg(f, d, s)>>
          [] x # None /\ d # s /\ d # x -> <<MovReg(d, s), AluReg(f, d, x)>>

EmitAdd(op) ==
    IF op.r[1] \notin {op.r[2], op.r[3]}
    THEN <<Lea(op.r[1], op.r[2], op.r[3], 0, op.k)>>
    ELSE EmitAlu("add", op)

EmitSub(op) ==
    LET d == op.r[1]  s == op.r[2]  x == op.r[3]
    IN  CASE x = None /\ d # s -> <<Lea(d, s, None, 0, -op.k)>>
          [] x = None /\ d = s -> <<AluImm("sub", d, op.k)>>
          [] x # None /\ d = s -> <<AluReg("sub", d, x)>>
          [] x # None /\ d # s /\ d = x -> <<AluReg("sub", d, s), Neg(d)>>
          [] x # None /\ d # s /\ d # x -> <<MovReg(d, s), AluReg("sub", d, x)>>

(* Slip: a subtraction with borrow is emitted like a sum.                  *)
EmitSubxCommutes(f, op) == EmitAlu(f, op)
EmitSubx(f, op) ==
    LET d == op.r[1]  s == op.r[2]  x == op.r[3]
    IN  CASE x = None -> MovUnlessSame(d, s) \o <<AluImm(f, d, op.k)>>
          [] x # None /\ d = s -> <<AluReg(f, d, x)>>
          [] x # None /\ d # s /\ d = x ->
                <<Save(x, -1), MovReg(d, s), AluStack(f, d, -1)>>
          [] x # None /\ d # s /\ d # x -> <<MovReg(d, s), AluReg(f, d, x)>>

EmitRsb(op) ==
    LET d == op.r[1]  s == op.r[2]  x == op.r[3]
    IN  CASE x = None /\ d = s -> <<AluImm("add", d, -op.k), Neg(d)>>
          [] x = None /\ d # s -> <<Lea(d, s, None, 0, -op.k), Neg(d)>>
          [] x # None /\ d = s -> <<AluReg("sub", d, x), Neg(d)>>
          [] x # None /\ d # s /\ d = x -> <<AluReg("sub", d, s)>>
          [] x # None /\ d # s /\ d # x -> <<MovReg(d, x), AluReg("sub", d, s)>>

Signs(op) == IF op.sign THEN "signed" ELSE "unsigned"
Saving(p, r, d) == When(d # r /\ r \in InUse(p), <<Push(r)>>)

(* emit_mul_op: products by small constants are shifts and LEAs, the       *)
(* others go through AX and DX                                             *)
EmitMul(op, p, high) ==
    LET d == op.r[1]  s == op.r[2]  x == op.r[3]
        product == CASE x = None -> MovUnlessSame("ax", s) \o <<MovImm("dx", op.k), Mul("dx", Signs(op))>>
                     [] x # None /\ s = "ax" -> <<Mul(x, Signs(op))>>
                     [] x # None /\ s # "ax" /\ x = "ax" -> <<Mul(s, Signs(op))>>
                     [] x # None /\ s # "ax" /\ x # "ax" -> <<MovReg("ax", s), Mul(x, Signs(op))>>
    IN  CASE ~high /\ x = None /\ op.k = 2 ->
                IF d = s THEN <<ShiftImm("shl", d, 1)>> ELSE <<Lea(d, s, s, 0, 0)>>
          [] ~high /\ x = None /\ op.k = 3 -> <<Lea(d, s, s, 1, 0)>>
          [] ~high /\ x = None /\ op.k = 5 -> <<Lea(d, s, s, 2, 0)>>
          [] ~high /\ x = None /\ op.k = 9 -> <<Lea(d, s, s, 3, 0)>>
          [] ~high /\ x = None /\ op.k = 4 -> MovUnlessSame(d, s) \o <<ShiftImm("shl", d, 2)>>
          [] ~high /\ x = None /\ op.k = 8 -> MovUnlessSame(d, s) \o <<ShiftImm("shl", d, 3)>>
          [] high \/ x # None \/ op.k \notin {2, 3, 4, 5, 8, 9} ->
                Preserving(Saving(p, "ax", d), Saving(p, "dx", d),
                           product \o MovUnlessSame(d, IF high THEN "dx" ELSE "ax"))

(* emit_div_op: divisions by 2, 4 and 8 are shifts and masks, except the   *)
(* signed remainder, which comes after a useless move; the others go       *)
(* through AX and DX                                                       *)
Log2(k) == CHOOSE n \in 1 .. 3 : 2^n = k

EmitDiv(op, p, modulo) ==
    LET d == op.r[1]  s == op.r[2]  x == op.r[3]
        power == x = None /\ op.k \in {2, 4, 8}
        extend == IF op.sign THEN <<Cdq>> ELSE <<AluReg("xor", "dx", "dx")>>
        dividend == MovUnlessSame("ax", s) \o extend
        bx == When(d # "bx", <<Push("bx")>>)
        quotient ==
          CASE x = None ->
                 dividend \o Preserving(bx, <<>>, <<MovImm("bx", op.k), Div("bx", Signs(op))>>)
            [] x \in {"ax", "dx"} -> <<Push(x)>> \o dividend \o <<DivStack(Signs(op)), AddSp(1)>>
            [] x \notin {None, "ax", "dx"} -> dividend \o <<Div(x, Signs(op))>>
    IN  CASE power /\ ~modulo -> MovUnlessSame(d, s)
                                 \o <<ShiftImm(IF op.sign THEN "sar" ELSE "shr", d, Log2(op.k))>>
          [] power /\ modulo /\ ~op.sign -> MovUnlessSame(d, s) \o <<AluImm("and", d, op.k - 1)>>
          [] ~power \/ (modulo /\ op.sign) ->
                When(power, MovUnlessSame(d, s))
                \o Preserving(Saving(p, "ax", d), Saving(p, "dx", d),
                              quotient \o MovUnlessSame(d, IF modulo THEN "dx" ELSE "ax"))

(* emit_shift_op: the processor shifts by a constant or by CX, so that CX  *)
(* is borrowed, or another register when CX is the destination             *)
EmitShift(f, op, p) ==
    LET d == op.r[1]  s == op.r[2]  x == op.r[3]
        tmp == IF UnusedReg(p) = <<>> THEN "ax" ELSE Head(UnusedReg(p))
    IN  CASE x = None -> MovUnlessSame(d, s) \o <<ShiftImm(f, d, op.k)>>
          [] x # None /\ d # "cx" ->
                Preserving(When(x # "cx" /\ "cx" \in InUse(p), <<Push("cx")>>), <<>>,
                           MovUnlessSame("cx", x)
                           \o When(d # s, IF s = "cx" THEN <<Load(d, 0)>> ELSE <<MovReg(d, s)>>)
                           \o <<ShiftCx(f, d)>>)
          [] x # None /\ d = "cx" ->
                Preserving(When(tmp \in InUse(p), <<Push(tmp)>>), <<>>,
                           MovUnlessSame(tmp, s) \o MovUnlessSame("cx", x)
                           \o <<ShiftCx(f, tmp), MovReg(d, tmp)>>)

(* CMP or TEST, and the condition of the code with its sign                *)
Compare(f, op) == IF op.r[3] = None THEN <<AluImm(f, op.r[2], op.k)>>
                                    ELSE <<AluReg(f, op.r[2], op.r[3])>>

Condition(op) ==
    LET c == CASE op.code \in {"LT", "BLT"} -> <<"lt", "ult">>
               [] op.code \in {"LE", "BLE"} -> <<"le", "ule">>
               [] op.code \in {"GT", "BGT"} -> <<"gt", "ugt">>
               [] op.code \in {"GE", "BGE"} -> <<"ge", "uge">>
               [] op.code \in {"EQ", "BEQ", "BMC"} -> <<"eq", "eq">>
               [] op.code \in {"NE", "BNE", "BMS"} -> <<"ne", "ne">>
               [] op.code \in {"BOADD", "BOSUB"} -> <<"o", "o">>
               [] op.code \in {"BNOADD", "BNOSUB"} -> <<"no", "no">>
    IN  IF op.sign THEN c[1] ELSE c[2]

(* emit_cond_op: SI has no low byte to set, so AX takes its place          *)
EmitCond(op) ==
    LET d == op.r[1]
        Set(r) == <<MovImm(r, 0), SetReg(Condition(op), r)>>
    IN  Compare("cmp", op) \o IF d # "si" THEN Set(d)
                              ELSE <<Xchg("ax", d)>> \o Set("ax") \o <<Xchg("ax", d)>>
---------------------------------------------------------------------------
(* jit_gen_op: Gen is its switch on GET_OP(op), GenCode the one on op->code *)
GenCode(op) ==
    LET d == op.r[1]  s == op.r[2]  x == op.r[3]
    IN  CASE op.code = "NOP" -> <<>>
          [] op.code = "MOV" -> IF ~op.imm THEN MovUnlessSame(d, s)
                                ELSE IF op.k = 0 THEN <<AluReg("xor", d, d)>>
                                ELSE <<MovImm(d, op.k)>>
          [] op.code = "ST" -> <<PutReg(d, None, op.k, s)>>
          [] op.code = "STX" -> <<PutReg(d, s, op.k, x)>>
          [] op.code = "X86_STI" -> <<PutImm(d, None, op.k, op.e)>>
          [] op.code = "X86_STXI" -> <<PutImm(d, s, op.k, op.e)>>
          [] op.code = "X86_ADDMUL" -> IF op.imm THEN <<Lea(d, None, s, op.e, op.k)>>
                                                 ELSE <<Lea(d, s, x, op.e, 0)>>
          [] op.code = "X86_ADDIMM" -> <<Lea(d, s, x, 0, op.e)>>

Gen(op, p) ==
    LET d == op.r[1]  s == op.r[2]
    IN  CASE op.code = "NEG" -> MovUnlessSame(d, s) \o <<Neg(d)>>
          [] op.code = "NOT" -> MovUnlessSame(d, s) \o <<Not(d)>>
          [] op.code = "ADD" -> EmitAdd(op)
          [] op.code = "ADDC" -> EmitAlu("add", op)
          [] op.code = "ADDX" -> EmitAlu("adc", op)
          [] op.code = "AND" -> EmitAlu("and", op)
          [] op.code = "OR" -> EmitAlu("or", op)
          [] op.code = "XOR" -> EmitAlu("xor", op)
          [] op.code = "SUB" -> EmitSub(op)
          [] op.code = "SUBC" -> EmitSubx("sub", op)
          [] op.code = "SUBX" -> EmitSubx("sbb", op)
          [] op.code = "RSB" -> EmitRsb(op)
          [] op.code \in {"MUL", "HMUL"} -> EmitMul(op, p, op.code = "HMUL")
          [] op.code \in {"DIV", "MOD"} -> EmitDiv(op, p, op.code = "MOD")
          [] op.code = "LSH" -> EmitShift("shl", op, p)
          [] op.code = "RSH" -> EmitShift(IF op.sign THEN "sar" ELSE "shr", op, p)
          [] op.code \in Compares -> EmitCond(op)
          [] op.code \in CompareBranches -> Compare("cmp", op) \o <<Branch(Condition(op))>>
          [] op.code \in {"BMS", "BMC"} -> Compare("test", op) \o <<Branch(Condition(op))>>
          [] op.code \in {"BOADD", "BNOADD"} -> Compare("add", op) \o <<Branch(Condition(op))>>
          [] op.code \in {"BOSUB", "BNOSUB"} -> Compare("sub", op) \o <<Branch(Condition(op))>>
          [] OTHER -> GenCode(op)

Emit ==
    /\ pass = "emit" /\ pos <= Len(ops)
    /\ code = <<>> /\ state = "running"
    /\ code' = Gen(ops[pos], pos)
    /\ pos' = pos + 1
    /\ UNCHANGED <<prog, ops, live, pass, machineVars>>

(* One instruction                                                         *)
Instruction(Do(_)) ==
    /\ code # <<>> /\ state = "running"
    /\ Do(Head(code))
    /\ code' = Tail(code)
    /\ UNCHANGED rewriteVars

Next ==
    \/ Rewrite /\ UNCHANGED <<machineVars, code>>
    \/ Emit
    \/ Instruction(DoMove)
    \/ Instruction(DoStack)
    \/ Instruction(DoAlu)
    \/ Instruction(DoUnary)
    \/ Instruction(DoShift)
    \/ Instruction(DoMul)
    \/ Instruction(DoDiv)
    \/ Instruction(DoCdq)
    \/ Instruction(DoCondition)
    \/ Instruction(DoStore)

Spec == Init /\ [][Next]_vars

---------------------------------------------------------------------------
(***************************************************************************)
(* Every rewriting of jitlib-core.c and x86-common-stuff.c, one at a time  *)
(* and in whatever combination the flags allow, leaves a list that does    *)
(* what the program says: it stores the same values at the same addresses, *)
(* branches the same way, and leaves the same values in the registers that *)
(* are read later.  The liveness sets it decides by may be stale.          *)
(***************************************************************************)
SameEffect == SameOn(prog.exit, RunFrom(ops, prog.file), RunFrom(prog.ops, prog.file))

(***************************************************************************)
(* After the code of each operation (common86-specific.h) the registers    *)
(* that are live hold what the instruction set says, whichever registers   *)
(* the operands share, whatever AX, CX, DX and BX are borrowed for; the    *)
(* carry reaches the next operation; no division traps.                    *)
(***************************************************************************)
AsDocumented ==
    pass = "emit" /\ code = <<>> /\ pos > 1 =>
        /\ state = "running"
        /\ SameOn(live[pos - 1].out, [reg |-> reg, out |-> out, taken |-> taken],
                  RunFrom(SubSeq(ops, 1, pos - 1), prog.file))

(***************************************************************************)
(* What an operation pushed (emit_mul_op, emit_div_op, emit_shift_op) it   *)
(* popped, and it wrote nothing at or above the place where it began.      *)
(***************************************************************************)
Balanced ==
    /\ code = <<>> => sp = 0
    /\ sp <= 0
    /\ \A w \in Slots : w >= 0 => mem[w] = Foreign

(***************************************************************************)
(* An instruction that reads the stack reads a word its operation put      *)
(* there: emit_shift_op takes a value from the top of the stack, and       *)
(* emit_subx_op from below it, only after putting it there.                *)
(***************************************************************************)
OwnWords ==
    code # <<>> =>
        /\ Head(code).i \in {"pop", "divm"} => sp < 0
        /\ Head(code).i \in {"load", "alum"} => sp + Head(code).k < 0

(* The shifts that read a word of another: value and count are both in CX, *)
(* or the count is moved to CX as a long immediate value, so that          *)
(* emit_shift_op does not push CX and yet takes the value from the top of  *)
(* the stack.  ShiftsApart is the condition for OwnWords: no program has   *)
(* one.                                                                    *)
BothInCX(op) ==
    /\ op.code \in {"LSH", "RSH"}
    /\ op.r[1] # "cx" /\ op.r[2] = "cx"
    /\ op.r[3] = "cx" \/ (op.imm /\ RImm = "cx")

ShiftsApart == \A p \in Programs : \A i \in DOMAIN p.ops : ~BothInCX(p.ops[i])
=============================================================================
