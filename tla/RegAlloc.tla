------------------------------ MODULE RegAlloc ------------------------------
(***************************************************************************)
(* The linear-scan register allocator of myjit/reg-allocator.h and rmap.h, *)
(* for AMD64; on i386 the operand of a CALL is placed like any other.      *)
(*                                                                         *)
(* jit_assign_regs makes three passes over the operations of a function.   *)
(* assign_regs gives every operation a register map, copied from the       *)
(* operation before it in the list, and prepends the moves (UREG, LREG,    *)
(* SYNCREG, RENAMEREG) that bring the operands into registers.  Then       *)
(* branch_adjustment and jump_adjustment insert the moves that reconcile   *)
(* the maps of the two ends of every branch and jump.                      *)
(*                                                                         *)
(* The scores by which a register is chosen are abstracted: any register   *)
(* the code could rank first may be taken.  AllocatedCode.tla executes     *)
(* what this module produces.                                              *)
(***************************************************************************)
EXTENDS Integers, FiniteSets, SequencesExt

CONSTANTS
    VReg,         \* virtual registers, argument registers included
    HReg,         \* the allocator's hardware registers
    NoReg,        \* "not associated" in a register map
    Fp,           \* the floating-point ones among VReg and HReg
    GpArgRegs,    \* al->gp_arg_regs
    FpArgRegs,    \* al->fp_arg_regs
    RetReg,       \* al->ret_reg
    FpRetReg,     \* al->fpret_reg
    CalleeSaved,  \* the registers with callee_saved set
    Programs      \* functions to allocate registers for

ASSUME RegisterAssumption ==
    /\ IsFiniteSet(VReg)
    /\ IsFiniteSet(HReg)
    /\ NoReg \notin HReg
    /\ CalleeSaved \subseteq HReg
    /\ GpArgRegs \in Seq(HReg \ Fp) /\ IsInjective(GpArgRegs)
    /\ FpArgRegs \in Seq(HReg \cap Fp) /\ IsInjective(FpArgRegs)
    /\ ToSet(GpArgRegs) \cap CalleeSaved = {}
    /\ RetReg \in HReg \ Fp
    /\ FpRetReg \in HReg \cap Fp

(***************************************************************************)
(* OP is every operation without a case of its own in assign_regs (a label *)
(* or patch is an OP without operands); BRANCH and OVERFLOW are what       *)
(* is_cond_branch_op recognises, OVERFLOW those that add or subtract, and  *)
(* BMS the two branches on bit masks; GETARG_CONV is a GETARG of a narrow  *)
(* argument; NOP what the fast path makes of a GETARG.                     *)
(***************************************************************************)
Kinds == {"PROLOG", "OP", "GETARG", "GETARG_CONV", "NOP", "PREPARE", "PUTARG",
          "FPUTARG", "CALL", "RETVAL", "FRETVAL", "BRANCH", "OVERFLOW",
          "BMS", "JMPI", "JMPR", "REF_CODE", "FULL_SPILL", "FORCE_SPILL", "RET"}

(* is_cond_branch_op *)
Branches == {"BRANCH", "OVERFLOW"}

(***************************************************************************)
(* jmp is the position of jmp_addr (0 is NULL); args the register operands *)
(* in operand order, for a PROLOG the argument registers in the order they *)
(* were declared; use and def what the liveness analysis takes from them   *)
(* (a GETARG uses the argument register it names; an OVERFLOW is given as  *)
(* SPEC(IMM, REG, REG), and so uses the operand it also writes).           *)
(***************************************************************************)
Op == [kind : Kinds, jmp : Nat, args : Seq(VReg),
       use : SUBSET VReg, def : SUBSET VReg]

IsLabel(op) == op.kind = "OP" /\ op.args = <<>>

(* A function begins with its PROLOG; jumps lead to labels, and a label    *)
(* whose address is taken has a FULL_SPILL before it                       *)
(* (jit_prepare_spills_on_jmpr_targets).                                   *)
JumpsFormed(p, o) ==
    LET op == p[o] IN
    /\ op.kind = "PROLOG" <=> o = 1
    /\ op.kind \in Branches \cup {"BMS", "JMPI", "REF_CODE"} <=> op.jmp # 0
    /\ op.jmp # 0 => op.jmp \in 2 .. Len(p) /\ IsLabel(p[op.jmp])
    /\ op.kind = "REF_CODE" => p[op.jmp - 1].kind = "FULL_SPILL"

(* The operations of jitlib.h whose SPEC has no TREG; no SPEC has two.     *)
NoTarget == Branches \cup {"BMS", "PREPARE", "PUTARG", "FPUTARG", "CALL", "JMPI",
                           "JMPR", "FULL_SPILL", "FORCE_SPILL", "RET"}

OperandsFormed(p, o) ==
    LET op == p[o] IN
    /\ op.kind = "PROLOG" =>
         op.use = {} /\ op.def = ToSet(op.args) /\ IsInjective(op.args)
    /\ op.kind # "PROLOG" => \A u, v \in op.def : u = v
    /\ op.kind \in NoTarget => op.def = {}
    /\ op.kind \in {"PREPARE", "FULL_SPILL", "JMPI"} => op.args = <<>>
    /\ op.kind \in {"RETVAL", "FRETVAL"} => op.use = {}
    /\ op.kind = "OVERFLOW" => op.args # <<>>
    /\ op.kind \in {"GETARG", "GETARG_CONV"} =>
         /\ Len(op.args) = 1 /\ op.def = ToSet(op.args)
         /\ \E v \in ToSet(p[1].args) :
              op.use = {v} /\ (v \in Fp <=> op.args[1] \in Fp)
    /\ op.kind \notin {"PROLOG", "GETARG", "GETARG_CONV", "NOP"} =>
         op.use \cup op.def = ToSet(op.args)

(* PREPARE, PUTARGs and CALL are contiguous (jit_prepare_reg_counts aborts *)
(* otherwise), and a RETVAL follows its CALL.                              *)
CallsFormed(p, o) ==
    LET op   == p[o]
        prev == IF o = 1 THEN "" ELSE p[o - 1].kind
    IN
    /\ op.kind \in {"PREPARE", "PUTARG", "FPUTARG"} =>
         p[o + 1].kind \in {"PUTARG", "FPUTARG", "CALL"}
    /\ op.kind \in {"PUTARG", "FPUTARG", "CALL"} =>
         prev \in {"PREPARE", "PUTARG", "FPUTARG"}
    /\ op.kind \in {"RETVAL", "FRETVAL"} =>
         /\ prev = "CALL" /\ Len(op.args) = 1
         /\ op.args[1] \in Fp <=> op.kind = "FRETVAL"

(* One function as the earlier phases leave it. *)
WellFormed(p) ==
    /\ p \in Seq(Op)
    /\ Len(p) > 0
    /\ p[Len(p)].kind \in {"RET", "JMPI", "JMPR"}
    /\ \A o \in DOMAIN p :
         JumpsFormed(p, o) /\ OperandsFormed(p, o) /\ CallsFormed(p, o)

ASSUME ProgramsAssumption == \A p \in Programs : WellFormed(p)

VARIABLES
    prog,      \* the operations
    live_in,   \* op->live_in, as the liveness analysis left it
    live_out,  \* op->live_out
    phase,     \* the pass of jit_assign_regs
    cur,       \* its op
    operand,   \* the operand assign_regs is at; 0 before the first
    regmap,    \* op->regmap
    r_arg,     \* the registers put into op->r_arg, by virtual register
    before,    \* the moves prepended to the operation
    inverted,  \* the branches branch_adjustment has turned around
    detour     \* the moves prepended to the JMP inserted behind such a branch

allocVars == <<prog, live_in, live_out, phase, cur, operand, regmap, r_arg,
               before, inverted, detour>>

Ops == DOMAIN prog

-----------------------------------------------------------------------------
(* Liveness: the least solution, which FlowAnalysis.tla shows              *)
(* jit_flw_analysis computes.                                              *)

Succ(p, o) ==
    (IF p[o].jmp # 0 /\ p[o].kind # "REF_CODE" THEN {p[o].jmp} ELSE {})
    \cup (IF p[o].kind = "JMPR"
            THEN {p[k].jmp : k \in {i \in DOMAIN p : p[i].kind = "REF_CODE"}}
            ELSE {})
    \cup (IF p[o].kind \notin {"JMPR", "JMPI", "RET"} THEN {o + 1} ELSE {})

(* Read before written on some path of at most Len(p) steps; all of these  *)
(* are in VReg, which lets the type of the result be read off.             *)
LiveIn(p) ==
    LET R[k \in 0 .. Len(p)] ==
          IF k = 0
          THEN [o \in DOMAIN p |-> p[o].use]
          ELSE [o \in DOMAIN p |-> p[o].use \cup
                  ((UNION {R[k - 1][s] : s \in Succ(p, o)}) \ p[o].def)]
    IN [o \in DOMAIN p |-> VReg \cap R[Len(p)][o]]

LiveOut(p) ==
    LET in == LiveIn(p)
    IN [o \in DOMAIN p |-> UNION {in[s] : s \in Succ(p, o)}]

-----------------------------------------------------------------------------
(* Register maps and moves.                                                *)

Map == [VReg -> HReg \cup {NoReg}]
EmptyMap == [v \in VReg |-> NoReg]

(* A virtual register's slot is written (UREG, SYNCREG) or read (LREG);    *)
(* RENAMEREG copies one hardware register to another.                      *)
Move == [move : {"UREG", "LREG"}, v : VReg, h : HReg]
        \cup [move : {"RENAMEREG"}, to : HReg, h : HReg]

Ureg(v, h) == [move |-> "UREG", v |-> v, h |-> h]
Lreg(v, h) == [move |-> "LREG", v |-> v, h |-> h]
Rename(to, h) == [move |-> "RENAMEREG", to |-> to, h |-> h]

(* The moves of a loop over registers; the order they come in is that of   *)
(* the register table or of the tree, and cannot be seen.                  *)
Unload(V, map) == SetToSeq({Ureg(v, map[v]) : v \in V})
Load(V, map) == SetToSeq({Lreg(v, map[v]) : v \in V})

Owners(map, h) == {v \in VReg : map[v] = h}
Mapped(map) == {v \in VReg : map[v] # NoReg}
Without(map, V) == [v \in VReg |-> IF v \in V THEN NoReg ELSE map[v]]

SameClass(v, h) == (v \in Fp) <=> (h \in Fp)

(* What candidate_score refuses with INT_MIN: a register one of the        *)
(* operands of this very operation is in.                                  *)
Pinned(o, map, h) == Owners(map, h) \cap ToSet(prog[o].args) # {}

(* Slip: the registers of the operation's own operands are candidates too. *)
CandidatesUnpinned(o, v, map) ==
    LET class == {h \in HReg : SameClass(v, h)}
        free  == {h \in class : Owners(map, h) = {}}
    IN IF free # {} THEN free ELSE class

(***************************************************************************)
(* rmap_spill_candidate: a register that is associated with nothing beats  *)
(* every other one; failing that, one that is not pinned.                  *)
(***************************************************************************)
Candidates(o, v, map) ==
    LET class == {h \in HReg : SameClass(v, h)}
        free  == {h \in class : Owners(map, h) = {}}
    IN IF free # {} THEN free ELSE {h \in class : ~Pinned(o, map, h)}

-----------------------------------------------------------------------------
(* Function calls.                                                         *)

(* The PUTARGs of the call a PREPARE begins (or a CALL ends), in order.    *)
PutArgs(p, prepare) ==
    LET call == CHOOSE c \in prepare .. Len(p) :
                  /\ p[c].kind = "CALL"
                  /\ \A k \in prepare .. (c - 1) : p[k].kind # "CALL"
    IN [k \in 1 .. (call - prepare - 1) |-> prepare + k]

PrepareOf(p, call) ==
    CHOOSE q \in 1 .. call : /\ p[q].kind = "PREPARE"
                             /\ \A k \in (q + 1) .. call : p[k].kind # "PREPARE"

(* op->arg[0] and op->arg[1] of a PREPARE.                                 *)
ArgCount(p, prepare, kind) ==
    Cardinality({o \in ToSet(PutArgs(p, prepare)) : p[o].kind = kind})

(* The first n of the registers in regs. *)
FirstRegs(regs, n) == {regs[q] : q \in {i \in DOMAIN regs : i <= n}}

(***************************************************************************)
(* assign_regs_for_args: the k-th argument of a class is in the k-th       *)
(* argument register of the class, if there is one.                        *)
(***************************************************************************)
Rank(params, i) ==
    Cardinality({j \in 1 .. i : params[j] \in Fp <=> params[i] \in Fp})

ArgRegsOf(v) == IF v \in Fp THEN FpArgRegs ELSE GpArgRegs

ParamMap(params) ==
    [v \in VReg |->
       IF \E i \in DOMAIN params : params[i] = v /\ Rank(params, i) \in DOMAIN ArgRegsOf(v)
       THEN ArgRegsOf(v)[Rank(params, CHOOSE i \in DOMAIN params : params[i] = v)]
       ELSE NoReg]

-----------------------------------------------------------------------------
Init ==
    /\ prog \in Programs
    /\ live_in = LiveIn(prog)
    /\ live_out = LiveOut(prog)
    /\ phase = "assign"
    /\ cur = 1
    /\ operand = 0
    /\ regmap = [o \in DOMAIN prog |-> EmptyMap]
    /\ r_arg = [o \in DOMAIN prog |-> EmptyMap]
    /\ before = [o \in DOMAIN prog |-> <<>>]
    /\ inverted = {}
    /\ detour = [o \in DOMAIN prog |-> <<>>]

Kind == prog[cur].kind
Args == prog[cur].args

(* rmap_clone(op->prev->regmap) *)
Inherited == regmap[cur - 1]

Beginning(kinds) ==
    /\ phase = "assign"
    /\ operand = 0
    /\ cur <= Len(prog)
    /\ Kind \in kinds

(* Slip: operand is not set back to 0 for the next operation. *)
GiveKeepsOperand(map, moves, k) ==
    /\ regmap' = [regmap EXCEPT ![cur] = map]
    /\ before' = [before EXCEPT ![cur] = @ \o moves]
    /\ operand' = k
    /\ cur' = IF k <= Len(Args) THEN cur ELSE cur + 1
    /\ UNCHANGED <<live_in, live_out, phase, inverted, detour>>

(* The operation gets its map and moves; with k the loop over the operands *)
(* continues at operand k, which past the last one means the next op.      *)
Give(map, moves, k) ==
    /\ regmap' = [regmap EXCEPT ![cur] = map]
    /\ before' = [before EXCEPT ![cur] = @ \o moves]
    /\ operand' = IF k <= Len(Args) THEN k ELSE 0
    /\ cur' = IF k <= Len(Args) THEN cur ELSE cur + 1
    /\ UNCHANGED <<live_in, live_out, phase, inverted, detour>>

Skip == Len(Args) + 1

AssignProlog ==
    /\ Beginning({"PROLOG"})
    /\ Give(ParamMap(Args), <<>>, Skip)
    /\ UNCHANGED <<prog, r_arg>>

AssignPlain ==
    /\ Beginning({"OP", "GETARG_CONV", "BMS", "JMPI", "REF_CODE", "RET"} \cup Branches)
    /\ Give(Inherited, <<>>, 1)
    /\ UNCHANGED <<prog, r_arg>>

(* PUTARG and FPUTARG take care of their operand when the call is emitted. *)
AssignPutArg ==
    /\ Beginning({"PUTARG", "FPUTARG"})
    /\ Give(Inherited, <<>>, Skip)
    /\ UNCHANGED <<prog, r_arg>>

(* Slip: the register is taken over although the argument is still needed. *)
TakesOverLive(o, map) ==
    LET x == CHOOSE u \in prog[o].use : TRUE
    IN prog[o].kind = "GETARG" /\ map[x] # NoReg

(***************************************************************************)
(* assign_getarg: when the argument is not needed any more and needs no    *)
(* conversion, the result takes over its register and no code is emitted.  *)
(***************************************************************************)
TakesOver(o, map) ==
    LET x == CHOOSE u \in prog[o].use : TRUE
    IN prog[o].kind = "GETARG" /\ x \notin live_out[o] /\ map[x] # NoReg

AssignGetArg ==
    /\ Beginning({"GETARG"})
    /\ ~TakesOver(cur, Inherited)
    /\ Give(Inherited, <<>>, 1)
    /\ UNCHANGED <<prog, r_arg>>

AssignGetArgFast ==
    /\ Beginning({"GETARG"})
    /\ TakesOver(cur, Inherited)
    /\ LET x == CHOOSE u \in prog[cur].use : TRUE
           d == Args[1]
       IN /\ Give([Inherited EXCEPT ![x] = NoReg, ![d] = Inherited[x]], <<>>, Skip)
          /\ r_arg' = [r_arg EXCEPT ![cur][d] = Inherited[x]]
    /\ prog' = [prog EXCEPT ![cur].kind = "NOP"]

(* Slip: the copy is left out when no register can take the value over.    *)
RetRegNotSynced(o, map) ==
    LET r     == CHOOSE v \in Owners(map, RetReg) : TRUE
        takers == {h \in CalleeSaved \ Fp : Owners(map, h) = {}}
    IN IF Owners(map, RetReg) = {} \/ takers = {}
       THEN {<<map, <<>>>>}
       ELSE {<<[map EXCEPT ![r] = h], <<Rename(h, RetReg)>>>> : h \in takers}

(***************************************************************************)
(* The first part of prepare_registers_for_call: a live value in the       *)
(* return register moves to a free callee-saved register if there is one,  *)
(* and is else copied to memory.  The new map and moves are one of these.  *)
(***************************************************************************)
RetRegCleared(o, map) ==
    LET r     == CHOOSE v \in Owners(map, RetReg) : TRUE
        alive == r \in live_in[o] \cup live_out[o]
        takers == {h \in CalleeSaved \ Fp : Owners(map, h) = {}}
    IN IF Owners(map, RetReg) = {} \/ ~alive
       THEN {<<map, <<>>>>}
       ELSE IF takers # {}
            THEN {<<[map EXCEPT ![r] = h], <<Rename(h, RetReg)>>>> : h \in takers}
            ELSE {<<map, <<Ureg(r, RetReg)>>>>}

(***************************************************************************)
(* The rest: the floating-point return register is copied to memory, and   *)
(* the registers this call passes arguments in are vacated, the live ones  *)
(* unloaded (the floating-point return register was, just before).  Slip:  *)
(* the last argument register is forgotten.                                *)
(***************************************************************************)
FpRetSync(map) == Unload(Owners(map, FpRetReg), map)

PassingOneLess(o) ==
    FirstRegs(GpArgRegs, ArgCount(prog, o, "PUTARG") - 1)
    \cup FirstRegs(FpArgRegs, ArgCount(prog, o, "FPUTARG") - 1)

Passing(o) == FirstRegs(GpArgRegs, ArgCount(prog, o, "PUTARG"))
              \cup FirstRegs(FpArgRegs, ArgCount(prog, o, "FPUTARG"))

AssignPrepare ==
    /\ Beginning({"PREPARE"})
    /\ \E ret \in RetRegCleared(cur, Inherited) :
         LET map    == ret[1]
             gone   == {v \in VReg : map[v] \in Passing(cur)}
             unload == {v \in gone : v \in live_out[cur] /\ map[v] # FpRetReg}
         IN Give(Without(map, gone),
                 ret[2] \o FpRetSync(map) \o Unload(unload, map), Skip)
    /\ UNCHANGED <<prog, r_arg>>

(* Slip: the map keeps what it had in the return registers. *)
AssignCallKeeps ==
    /\ Beginning({"CALL"})
    /\ Give(Inherited, <<>>, Skip)
    /\ UNCHANGED <<prog, r_arg>>

(* assign_call: whatever was in the return registers is not there any more.*)
AssignCall ==
    /\ Beginning({"CALL"})
    /\ Give(Without(Inherited, Owners(Inherited, RetReg) \cup Owners(Inherited, FpRetReg)),
            <<>>, Skip)
    /\ UNCHANGED <<prog, r_arg>>

(* assign_ret_reg *)
AssignRetVal ==
    /\ Beginning({"RETVAL", "FRETVAL"})
    /\ LET h == IF Kind = "RETVAL" THEN RetReg ELSE FpRetReg
       IN /\ Give([Inherited EXCEPT ![Args[1]] = h], <<>>, Skip)
          /\ r_arg' = [r_arg EXCEPT ![cur][Args[1]] = h]
    /\ UNCHANGED prog

-----------------------------------------------------------------------------
(* Spills asked for, and JMP|REG.                                          *)

(* assign_jmp: memory gets a copy of everything the targets may need. *)
AssignJmpr ==
    /\ Beginning({"JMPR"})
    /\ Give(Inherited, Unload(Mapped(Inherited) \cap live_out[cur], Inherited), 1)
    /\ UNCHANGED <<prog, r_arg>>

(***************************************************************************)
(* spill_all_registers.  in_use tells whether control can fall into the    *)
(* operation; operations nothing leads to were deleted before, so it does  *)
(* unless the operation before it never falls through.                     *)
(***************************************************************************)
InUse(o) == prog[o - 1].kind \notin {"RET", "JMPI", "JMPR"}

AssignFullSpill ==
    /\ Beginning({"FULL_SPILL"})
    /\ LET gone == Mapped(Inherited) \cap live_out[cur]
       IN Give(Without(Inherited, gone),
               IF InUse(cur) THEN Unload(gone, Inherited) ELSE <<>>, Skip)
    /\ UNCHANGED <<prog, r_arg>>

(* force_spill *)
AssignForceSpill ==
    /\ Beginning({"FORCE_SPILL"})
    /\ LET gone == ToSet(Args) \cap Mapped(Inherited)
       IN Give(Without(Inherited, gone), Unload(gone, Inherited), Skip)
    /\ UNCHANGED <<prog, r_arg>>

-----------------------------------------------------------------------------
(* associate_register, once per register operand in operand order.         *)

AtOperand == phase = "assign" /\ operand # 0

OperandAssociated ==
    /\ AtOperand
    /\ LET v == Args[operand]
       IN /\ regmap[cur][v] # NoReg
          /\ r_arg' = [r_arg EXCEPT ![cur][v] = regmap[cur][v]]
    /\ Give(regmap[cur], <<>>, operand + 1)
    /\ UNCHANGED prog

(* Slip: what was in the register is never saved. *)
DisplacedDropped(o, map, h) == {}

(* The registers make_free_reg unloads when it takes h. *)
Displaced(o, map, h) == Owners(map, h) \cap live_in[o]

(***************************************************************************)
(* make_free_reg: the register that was in h is unloaded if it is live.    *)
(* The operand's own value is loaded if the operation may need it.         *)
(***************************************************************************)
OperandToRegister ==
    /\ AtOperand
    /\ LET v   == Args[operand]
           map == regmap[cur]
       IN /\ map[v] = NoReg
          /\ \E h \in Candidates(cur, v, map) :
               /\ Give([Without(map, Owners(map, h)) EXCEPT ![v] = h],
                       Unload(Displaced(cur, map, h), map)
                         \o (IF v \in live_in[cur] THEN <<Lreg(v, h)>> ELSE <<>>),
                       operand + 1)
               /\ r_arg' = [r_arg EXCEPT ![cur][v] = h]
    /\ UNCHANGED prog

-----------------------------------------------------------------------------
(* The two passes over branches and jumps.                                 *)

(* Slip: only what both maps hold is compared. *)
SameMapsSubset(o, t) ==
    \A v \in live_in[t] : regmap[t][v] # NoReg => regmap[o][v] = regmap[t][v]

(* rmap_equal: registers not live at the target do not matter. *)
SameMaps(o, t) == \A v \in live_in[t] : regmap[o][v] = regmap[t][v]

(* Slip: the loads come first. *)
ReconcileLoadsFirst(o, t) ==
    LET differ == {v \in VReg : regmap[o][v] # regmap[t][v]}
    IN Load(differ \cap Mapped(regmap[t]) \cap live_out[o], regmap[t])
       \o Unload(differ \cap Mapped(regmap[o]) \cap live_in[t], regmap[o])

(***************************************************************************)
(* rmap_sync, both ways: what the target does not expect where it is goes  *)
(* to memory, then what it expects elsewhere is loaded.                    *)
(***************************************************************************)
Reconcile(o, t) ==
    LET differ == {v \in VReg : regmap[o][v] # regmap[t][v]}
    IN Unload(differ \cap Mapped(regmap[o]) \cap live_in[t], regmap[o])
       \o Load(differ \cap Mapped(regmap[t]) \cap live_out[o], regmap[t])

StartAdjusting ==
    /\ phase = "assign"
    /\ cur > Len(prog)
    /\ phase' = "branches"
    /\ UNCHANGED <<prog, live_in, live_out, cur, operand, regmap, r_arg, before,
                   inverted, detour>>

(* branch_adjustment, for every operation: the branches are independent. *)
AdjustBranches ==
    /\ phase = "branches"
    /\ inverted' = {o \in Ops : prog[o].kind \in Branches /\ ~SameMaps(o, prog[o].jmp)}
    /\ phase' = "jumps"
    /\ UNCHANGED <<prog, live_in, live_out, cur, operand, regmap, r_arg, before,
                   detour>>

(* jump_adjustment, for every JMP|IMM, those just inserted included. *)
AdjustJumps ==
    /\ phase = "jumps"
    /\ before' = [o \in Ops |->
                    IF prog[o].kind = "JMPI"
                    THEN before[o] \o Reconcile(o, prog[o].jmp) ELSE before[o]]
    /\ detour' = [o \in Ops |->
                    IF o \in inverted THEN Reconcile(o, prog[o].jmp) ELSE <<>>]
    /\ phase' = "allocated"
    /\ UNCHANGED <<prog, live_in, live_out, cur, operand, regmap, r_arg, inverted>>

Next ==
    \/ AssignProlog
    \/ AssignPlain
    \/ AssignPutArg
    \/ AssignGetArg
    \/ AssignGetArgFast
    \/ AssignPrepare
    \/ AssignCall
    \/ AssignRetVal
    \/ AssignJmpr
    \/ AssignFullSpill
    \/ AssignForceSpill
    \/ OperandAssociated
    \/ OperandToRegister
    \/ StartAdjusting
    \/ AdjustBranches
    \/ AdjustJumps

Spec == Init /\ [][Next]_allocVars

-----------------------------------------------------------------------------
TypeOK ==
    /\ WellFormed(prog)
    /\ live_in \in [Ops -> SUBSET VReg]
    /\ live_out \in [Ops -> SUBSET VReg]
    /\ phase \in {"assign", "branches", "jumps", "allocated"}
    /\ cur \in 1 .. (Len(prog) + 1)
    /\ operand \in Nat
    /\ operand # 0 => cur <= Len(prog) /\ operand <= Len(Args)
    /\ regmap \in [Ops -> Map]
    /\ r_arg \in [Ops -> Map]
    /\ before \in [Ops -> Seq(Move)]
    /\ inverted \subseteq Ops
    /\ detour \in [Ops -> Seq(Move)]

(***************************************************************************)
(* A hardware register is never associated with two virtual ones, whatever *)
(* takes it (an operand, a return value, a GETARG, a rename): the code     *)
(* looks the owner of a register up with rmap_is_associated, which finds   *)
(* one.  And a register is only ever given to a virtual one of its class.  *)
(***************************************************************************)
OneOwner ==
    \A o \in Ops : \A v \in Mapped(regmap[o]) :
        /\ Owners(regmap[o], regmap[o][v]) = {v}
        /\ SameClass(v, regmap[o][v])

(***************************************************************************)
(* When the operands of an operation have been placed, each is in the      *)
(* register r_arg names: no operand was put out by a later one.            *)
(***************************************************************************)
OperandsStay ==
    \A o \in Ops : \A v \in VReg :
        r_arg[o][v] # NoReg => regmap[o][v] = r_arg[o][v]

(***************************************************************************)
(* The comment above branch_adjustment: "There must be same register       *)
(* mappings at both ends of the conditional jump", for every conditional   *)
(* jump of the instruction set, unless the branch was turned around.       *)
(***************************************************************************)
BranchMapsAgree ==
    phase = "allocated" =>
        \A o \in Ops : prog[o].kind \in Branches \cup {"BMS"} =>
            o \in inverted \/ SameMaps(o, prog[o].jmp)

=============================================================================
