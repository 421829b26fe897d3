------------------------------ MODULE Rewrites ------------------------------
(***************************************************************************)
(* What jit_generate_code does to a list of operations before registers    *)
(* are assigned: long immediate values are moved to a register             *)
(* (jitlib-core.c), unused assignments are dropped, and adjacent           *)
(* operations are joined into the stores, additions and multiplications    *)
(* that one machine instruction can do (x86-common-stuff.c).               *)
(***************************************************************************)
EXTENDS Operations

CONSTANTS
    RImm,      \* R_IMM, the register for immediate values that do not fit
    Programs   \* records: ops, a list; file, what the registers hold before
               \* it; exit, the registers read after it; opt, the optimizations:
               \* "unused" for JIT_OPT_OMIT_UNUSED_ASSIGNEMENTS and "join" for
               \* JIT_OPT_JOIN_ADDMUL

ASSUME ImmAssumption == RImm \in Reg
ASSUME ProgramsAssumption == \A p \in Programs : p.ops \in Seq(Op)

VARIABLES
    prog,  \* the program as it was written
    ops,   \* jit->ops
    live,  \* live_in and live_out of each operation, as the last analysis left them
    pass,  \* the pass that runs
    pos    \* op of its loop

rewriteVars == <<prog, ops, live, pass, pos>>

Passes == <<"imms", "unused", "st", "addmul", "addimm", "emit">>
At(p) == pass = p /\ pos <= Len(ops)

RewriteInit ==
    /\ prog \in Programs
    /\ ListDefined(prog.ops, prog.file)
    /\ ops = prog.ops
    /\ live = <<>>
    /\ pass = "imms"
    /\ pos = 1

(***************************************************************************)
(* The end of an iteration that leaves the list as `list' and goes on n    *)
(* operations later, or to the next pass.  The liveness analysis runs      *)
(* after the immediate values were corrected, and again when something was *)
(* joined: then, and only then, the list has an operation of two codes.    *)
(***************************************************************************)
Changed(list) == \E i \in 1 .. Len(list) : list[i].code \in Joined
Analysed(list) == pass = "imms" \/ (pass = "addimm" /\ Changed(list))
Follows == Passes[1 + CHOOSE i \in 1 .. Len(Passes) : Passes[i] = pass]

Leave(list, n) ==
    /\ ops' = list
    /\ IF pos + n <= Len(list)
       THEN pos' = pos + n /\ UNCHANGED <<pass, live>>
       ELSE /\ pos' = 1 /\ pass' = Follows
            /\ live' = IF Analysed(list) THEN Liveness(list, prog.exit) ELSE live
    /\ UNCHANGED prog

Step(list) == Leave(list, 1)

(* Two operations at once                                                  *)
Two(p, first, second) == [ops EXCEPT ![p] = first, ![p + 1] = second]

---------------------------------------------------------------------------
(* jit_imm_overflow                                                        *)
ImmOverflow(op) == op.k \notin IF op.sign THEN Imm ELSE 0 .. 2^(I - 1) - 1

(* The position of the operand that k stands for                           *)
ImmArg(op) == IF op.code \in {"ST", "STX"} THEN 1 ELSE 3

(* One iteration of jit_correct_long_imms                                  *)
CorrectLongImm ==
    /\ At("imms")
    /\ LET op == ops[pos] IN
       IF op.imm /\ op.code # "MOV" /\ ImmOverflow(op)
       THEN Leave(SubSeq(ops, 1, pos - 1)
                  \o << [NOP EXCEPT !.code = "MOV", !.imm = TRUE, !.k = op.k, !.r[1] = RImm],
                        [op EXCEPT !.imm = FALSE, !.k = 0, !.r[ImmArg(op)] = RImm] >>
                  \o SubSeq(ops, pos + 1, Len(ops)), 2)
       ELSE Step(ops)

(* One iteration of jit_optimize_unused_assignments                        *)
Unused(op, after) ==
    HasTarget(op) /\ op.code \notin {"ADDC", "ADDX", "SUBC", "SUBX"} /\ op.r[1] \notin after

DropUnused ==
    /\ At("unused")
    /\ Step(IF "unused" \in prog.opt /\ Unused(ops[pos], live[pos].out)
            THEN [ops EXCEPT ![pos] = NOP] ELSE ops)

(* One iteration of jit_optimize_st_ops: the value of a store was moved to *)
(* its register just before, and is not used later                         *)
Constant(op, value) == op.code = "MOV" /\ op.imm /\ op.r[1] = value /\ op.k \in Imm

StoresConstant(op, i, after) ==
    /\ pos > 1
    /\ Constant(ops[pos - 1], op.r[i])
    /\ op.r[i] \notin after

JoinStore ==
    /\ At("st")
    /\ LET op == ops[pos]
           Store(code, i) ==
             Two(pos - 1, NOP, [op EXCEPT !.code = code, !.e = ops[pos - 1].k, !.r[i] = None])
       IN \/ op.code = "ST" /\ StoresConstant(op, 2, live[pos].out) /\ Step(Store("X86_STI", 2))
          \/ op.code = "STX" /\ StoresConstant(op, 3, live[pos].out) /\ Step(Store("X86_STXI", 3))
          \/ /\ op.code = "ST" => ~StoresConstant(op, 2, live[pos].out)
             /\ op.code = "STX" => ~StoresConstant(op, 3, live[pos].out)
             /\ Step(ops)
---------------------------------------------------------------------------
(***************************************************************************)
(* get_related_op: the next operation, if it overwrites the result of op   *)
(* or the result is not used after it.  Whether it uses any register is    *)
(* true of every operation the callers look for.  The sets are those of    *)
(* the analysis before the passes.                                         *)
(***************************************************************************)
(* Slip: the result is joined away although it is used later.              *)
RelatedAny(op) == pos < Len(ops)
Related(op) ==
    /\ pos < Len(ops)
    /\ \/ ops[pos + 1].r[1] = op.r[1]
       \/ op.r[1] \notin live[pos + 1].out

Signed(op, code, imm) == op.code = code /\ op.imm = imm /\ op.sign

(* is_suitable_mul, and the shift make_addmuli and join_muli_addr give it  *)
SuitableMul(op) == \/ Signed(op, "MUL", TRUE) /\ op.k \in {2, 4, 8}
                   \/ Signed(op, "LSH", TRUE) /\ op.k \in {1, 2, 3}
ShiftIndex(op) == IF op.code = "LSH" THEN op.k ELSE CHOOSE n \in 1 .. 3 : 2^n = op.k

(* The joined operation, if there is one: of a multiplication and the       *)
(* addition of a constant (join_muli_addi), the setting of the bits it      *)
(* leaves clear (join_muli_ori), or the addition of a register              *)
(* (join_muli_addr)                                                         *)
AddMulI(op, next) == [next EXCEPT !.code = "X86_ADDMUL", !.r[2] = op.r[2],
                                  !.e = ShiftIndex(op)]

AddMulR(op, next) ==
    LET other == IF next.r[2] = op.r[1] THEN next.r[3] ELSE next.r[2]
    IN  [next EXCEPT !.code = "X86_ADDMUL", !.e = ShiftIndex(op),
                     !.r = <<next.r[1], other, op.r[2]>>]

JoinedMul(op, next) ==
    IF ~SuitableMul(op) THEN {}
    ELSE CASE Signed(next, "ADD", TRUE) /\ next.k \in Imm -> {AddMulI(op, next)}
           [] Signed(next, "OR", TRUE) /\ next.k \in 1 .. (2^ShiftIndex(op) - 1) ->
                 {AddMulI(op, next)}
           [] Signed(next, "ADD", FALSE) /\ next.r[2] # next.r[3] -> {AddMulR(op, next)}
           [] OTHER -> {}

(* The joined operation of two additions: join_addr_addi, which is called   *)
(* for a subtraction of a constant too, and join_addi_addr                  *)
Addi(op) == Signed(op, "ADD", TRUE) \/ Signed(op, "SUB", TRUE)

AddrAddi(op, next) == [next EXCEPT !.code = "X86_ADDIMM", !.imm = FALSE, !.k = 0,
                                   !.e = next.k, !.r = <<next.r[1], op.r[2], op.r[3]>>]

AddiAddr(op, next) ==
    LET k == IF op.code = "SUB" THEN -op.k ELSE op.k
        Renamed(r) == IF r = op.r[1] THEN op.r[2] ELSE r
    IN  [next EXCEPT !.code = "X86_ADDIMM",
                     !.e = IF next.r[2] = next.r[3] THEN 2 * k ELSE k,
                     !.r = <<next.r[1], Renamed(next.r[2]), Renamed(next.r[3])>>]

JoinedAdd(op, next) ==
    CASE Signed(op, "ADD", FALSE) /\ Addi(next) /\ next.k \in Imm -> {AddrAddi(op, next)}
      [] Addi(op) /\ Signed(next, "ADD", FALSE) /\ op.k \in Imm -> {AddiAddr(op, next)}
      [] OTHER -> {}

(* One iteration of jit_optimize_join_addmul or jit_optimize_join_addimm:  *)
(* the first of the two operations becomes a NOP (make_nop)                *)
Join(joined) ==
    LET found == IF "join" \in prog.opt /\ Related(ops[pos]) THEN joined ELSE {}
    IN  \/ \E both \in found : Step(Two(pos, NOP, both))
        \/ found = {} /\ Step(ops)

JoinAddMul == At("addmul") /\ Join(JoinedMul(ops[pos], ops[pos + 1]))
JoinAddImm == At("addimm") /\ Join(JoinedAdd(ops[pos], ops[pos + 1]))

---------------------------------------------------------------------------
Rewrite == CorrectLongImm \/ DropUnused \/ JoinStore \/ JoinAddMul \/ JoinAddImm
=============================================================================
