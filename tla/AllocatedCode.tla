---------------------------- MODULE AllocatedCode ----------------------------
(***************************************************************************)
(* The code generated from what RegAlloc.tla produces, run on every path   *)
(* of the function: where the value of each virtual register is while      *)
(* moves, operations and calls are executed.                               *)
(*                                                                         *)
(* Values themselves are abstracted: a hardware register holds the current *)
(* value of a set of virtual registers, and the stack slot of a virtual    *)
(* register either holds its current value or an outdated one.             *)
(*                                                                         *)
(* The emitters are those of common86-specific.h and amd64-specific.h.     *)
(***************************************************************************)
EXTENDS RegAlloc

VARIABLES
    at,      \* the operation control is at; 0 before, -1 after the function
    todo,    \* moves still to be executed before control goes on
    leaving, \* these moves are those of an inserted JMP
    inreg,   \* the virtual registers whose current value is in a register
    inmem,   \* the virtual registers whose slot holds their current value
    saved    \* what emit_push_caller_saved_regs has pushed

runVars == <<at, todo, leaving, inreg, inmem, saved>>
vars == <<allocVars, runVars>>

-----------------------------------------------------------------------------
(* Before the call nothing is in registers, and the slot of a local is its *)
(* (undefined) value.                                                      *)
RunInit ==
    /\ at = 0
    /\ todo = <<>>
    /\ leaving = FALSE
    /\ inreg = [h \in HReg |-> {}]
    /\ inmem = VReg
    /\ saved = [h \in {} |-> {}]

SystemInit == Init /\ RunInit

Allocate == Next /\ UNCHANGED runVars

(* Control arrives at o, the moves prepended to o come first. *)
Goto(o) ==
    /\ at' = o
    /\ todo' = before[o]
    /\ leaving' = FALSE

Running == phase = "allocated" /\ at > 0
Executing(kinds) == Running /\ todo = <<>> /\ ~leaving /\ prog[at].kind \in kinds

(* v gets a new value, in h: every other copy is outdated. *)
Define(v, h) ==
    /\ inreg' = [k \in HReg |-> IF k = h THEN {v} ELSE inreg[k] \ {v}]
    /\ inmem' = inmem \ {v}

(***************************************************************************)
(* The caller has put the arguments into their registers; the slot of an   *)
(* argument has not been written.                                          *)
(***************************************************************************)
Enter ==
    /\ phase = "allocated"
    /\ at = 0
    /\ inreg' = [h \in HReg |-> Owners(regmap[1], h)]
    /\ inmem' = VReg \ Mapped(regmap[1])
    /\ Goto(1)
    /\ UNCHANGED <<allocVars, saved>>

-----------------------------------------------------------------------------
(* Moves.                                                                  *)

Moving(move) == Running /\ todo # <<>> /\ Head(todo).move = move
Moved == todo' = Tail(todo) /\ UNCHANGED <<allocVars, at, leaving, saved>>

(* emit_ureg *)
StoreSlot ==
    /\ Moving("UREG")
    /\ LET m == Head(todo)
       IN inmem' = IF m.v \in inreg[m.h] THEN inmem \cup {m.v} ELSE inmem \ {m.v}
    /\ Moved
    /\ UNCHANGED inreg

(* emit_lreg *)
LoadSlot ==
    /\ Moving("LREG")
    /\ LET m == Head(todo)
       IN inreg' = [inreg EXCEPT ![m.h] = {m.v} \cap inmem]
    /\ Moved
    /\ UNCHANGED inmem

RenameReg ==
    /\ Moving("RENAMEREG")
    /\ inreg' = [inreg EXCEPT ![Head(todo).to] = inreg[Head(todo).h]]
    /\ Moved
    /\ UNCHANGED inmem

-----------------------------------------------------------------------------
(* Operations.                                                             *)

(* Every operation that computes its result from its operands, and NOP,    *)
(* where the result is what the argument's register holds.                 *)
ExecOp ==
    /\ Executing({"PROLOG", "OP", "REF_CODE", "GETARG", "GETARG_CONV", "NOP",
                  "RETVAL", "FRETVAL", "FULL_SPILL", "FORCE_SPILL", "PUTARG",
                  "FPUTARG"})
    /\ IF prog[at].def = {} \/ prog[at].kind = "PROLOG"
       THEN UNCHANGED <<inreg, inmem>>
       ELSE LET d == CHOOSE v \in prog[at].def : TRUE
            IN Define(d, r_arg[at][d])
    /\ Goto(at + 1)
    /\ UNCHANGED <<allocVars, saved>>

(***************************************************************************)
(* emit_push_caller_saved_regs looks ahead to the CALL: the registers that *)
(* are caller-saved, not for return values, and hold something live there. *)
(***************************************************************************)
Pushed(call) ==
    {h \in HReg \ CalleeSaved :
        /\ h \notin {RetReg, FpRetReg}
        /\ Owners(regmap[call], h) \cap live_in[call] # {}}

CallOf(prepare) == prepare + Len(PutArgs(prog, prepare)) + 1

ExecPrepare ==
    /\ Executing({"PREPARE"})
    /\ saved' = [h \in Pushed(CallOf(at)) |-> inreg[h]]
    /\ Goto(at + 1)
    /\ UNCHANGED <<allocVars, inreg, inmem>>

(* The callee may change every register it need not preserve; then         *)
(* emit_pop_caller_saved_regs restores those pushed.                       *)
ExecCall ==
    /\ Executing({"CALL"})
    /\ inreg' = [h \in HReg |-> IF h \in DOMAIN saved THEN saved[h]
                               ELSE IF h \in CalleeSaved THEN inreg[h]
                               ELSE {}]
    /\ saved' = [h \in {} |-> {}]
    /\ Goto(at + 1)
    /\ UNCHANGED <<allocVars, inmem>>

(* emit_branch_overflow_op adds or subtracts in place, before the jump.     *)
Compare ==
    IF prog[at].kind = "OVERFLOW"
    THEN Define(prog[at].args[1], r_arg[at][prog[at].args[1]])
    ELSE UNCHANGED <<inreg, inmem>>

(* A branch that was turned around goes by the moves of the inserted JMP.  *)
TakeBranch ==
    /\ Executing(Branches \cup {"BMS"})
    /\ Compare
    /\ IF at \in inverted
       THEN at' = at /\ todo' = detour[at] /\ leaving' = TRUE
       ELSE Goto(prog[at].jmp)
    /\ UNCHANGED <<allocVars, saved>>

Leave ==
    /\ Running
    /\ leaving
    /\ todo = <<>>
    /\ Goto(prog[at].jmp)
    /\ UNCHANGED <<allocVars, inreg, inmem, saved>>

FallThrough ==
    /\ Executing(Branches \cup {"BMS"})
    /\ Compare
    /\ Goto(at + 1)
    /\ UNCHANGED <<allocVars, saved>>

Jump ==
    /\ Executing({"JMPI"})
    /\ Goto(prog[at].jmp)
    /\ UNCHANGED <<allocVars, inreg, inmem, saved>>

(* Any label of the function whose address is taken. *)
JumpToAddress ==
    /\ Executing({"JMPR"})
    /\ \E t \in Succ(prog, at) : Goto(t)
    /\ UNCHANGED <<allocVars, inreg, inmem, saved>>

(* Slip: the frame is left, but control goes on behind the function. *)
ReturnFallsThrough ==
    /\ Executing({"RET"})
    /\ at' = at + 1
    /\ UNCHANGED <<allocVars, todo, leaving, inreg, inmem, saved>>

Return ==
    /\ Executing({"RET"})
    /\ at' = -1
    /\ UNCHANGED <<allocVars, todo, leaving, inreg, inmem, saved>>

RunNext ==
    \/ Enter
    \/ StoreSlot
    \/ LoadSlot
    \/ RenameReg
    \/ ExecOp
    \/ ExecPrepare
    \/ ExecCall
    \/ TakeBranch
    \/ Leave
    \/ FallThrough
    \/ Jump
    \/ JumpToAddress
    \/ Return

SystemNext == Allocate \/ RunNext

SystemSpec == SystemInit /\ [][SystemNext]_vars

-----------------------------------------------------------------------------
(* What a call reads (emit_arguments, emit_funcall).                       *)

(* The place of the k-th argument: its register, or NoReg for the stack.   *)
Destination(args, k) ==
    LET kind == prog[args[k]].kind
        rank == Cardinality({j \in 1 .. k : prog[args[j]].kind = kind})
        regs == IF kind = "PUTARG" THEN GpArgRegs ELSE FpArgRegs
    IN IF rank \in DOMAIN regs THEN regs[rank] ELSE NoReg

(***************************************************************************)
(* emit_arguments goes from the last argument to the first.  When it comes *)
(* to the k-th, the registers of the later ones are set; an immediate that *)
(* is passed on the stack, or in a floating-point register, went through   *)
(* the return register.                                                    *)
(***************************************************************************)
Overwritten(args, k) ==
    LET later == (k + 1) .. Len(args)
        byRet == {j \in later : /\ prog[args[j]].args = <<>>
                                /\ \/ prog[args[j]].kind = "FPUTARG"
                                   \/ Destination(args, j) = NoReg}
    IN {Destination(args, j) : j \in later}
       \cup (IF byRet = {} THEN {} ELSE {RetReg})

(* A register operand is read where the map says it is; is_spilled asks    *)
(* the map of the PREPARE.                                                 *)
InPlace(v, map) == IF map[v] = NoReg THEN v \in inmem ELSE v \in inreg[map[v]]

ArgumentInPlace(args, k, prepare) ==
    \A v \in prog[args[k]].use :
        /\ InPlace(v, regmap[prepare])
        /\ regmap[prepare][v] # NoReg =>
             regmap[prepare][v] \notin Overwritten(args, k)

(* emit_funcall: the address called through is read after the arguments    *)
(* are in place and the number of those in floating-point registers is in  *)
(* the return register, by the map of the CALL.                            *)
CalleeInPlace(args, call) ==
    \A v \in prog[call].use :
        /\ InPlace(v, regmap[call])
        /\ regmap[call][v] \notin (Overwritten(args, 0) \ {NoReg}) \cup {RetReg}

-----------------------------------------------------------------------------
(* Control leaves the function by a return only, and moves name a register *)
(* of each sort.                                                           *)
RunTypeOK ==
    /\ at \in {-1, 0} \cup Ops
    /\ todo \in Seq(Move)
    /\ leaving \in BOOLEAN
    /\ inreg \in [HReg -> SUBSET VReg]
    /\ inmem \in SUBSET VReg
    /\ DOMAIN saved \subseteq HReg
    /\ saved \in [DOMAIN saved -> SUBSET VReg]

(***************************************************************************)
(* On every path of the function, whatever registers the scores favour,    *)
(* an operation finds the current value of each operand in the register    *)
(* that was put into its r_arg (associate_register), and a GETARG finds    *)
(* its argument in its register or its slot (emit_get_arg).  PUTARG and    *)
(* CALL have a property of their own; FORCE_SPILL emits nothing.           *)
(***************************************************************************)
ReadsCurrent ==
    Executing(Kinds \ {"PUTARG", "FPUTARG", "CALL", "FORCE_SPILL"}) =>
        \A v \in prog[at].use :
            CASE prog[at].kind \in {"GETARG", "GETARG_CONV"} -> InPlace(v, regmap[at])
              [] prog[at].kind = "NOP" -> v \in inreg[r_arg[at][prog[at].args[1]]]
              [] OTHER -> v \in inreg[r_arg[at][v]]

(***************************************************************************)
(* A call passes the current value of every register argument, although    *)
(* the arguments are moved into registers that may have been in use, and   *)
(* calls the address its operand holds (emit_arguments, emit_funcall).     *)
(***************************************************************************)
CallsReadCurrent ==
    Executing({"CALL"}) =>
        LET prepare == PrepareOf(prog, at)
            args    == PutArgs(prog, prepare)
        IN /\ \A k \in DOMAIN args : ArgumentInPlace(args, k, prepare)
           /\ CalleeInPlace(args, at)

(***************************************************************************)
(* Wherever control comes from (the operation before, a branch, a turned   *)
(* around branch, a JMP|REG, a call that clobbers registers), every live   *)
(* register is where the map the operation inherits says it is.            *)
(***************************************************************************)
NoValueLost ==
    (Running /\ todo = before[at] /\ ~leaving /\ at > 1) =>
        \A v \in live_in[at] : InPlace(v, regmap[at - 1])

(***************************************************************************)
(* A slot is never overwritten with an outdated value, and a live register *)
(* is never loaded from an outdated slot (all UREG, SYNCREG and LREG the   *)
(* allocator inserts).                                                     *)
(***************************************************************************)
MovesCurrent ==
    (Running /\ todo # <<>>) =>
        LET m == Head(todo)
            live == IF leaving THEN live_in[prog[at].jmp] ELSE live_in[at]
        IN CASE m.move = "UREG" /\ m.v \in live -> m.v \in inreg[m.h]
             [] m.move = "LREG" /\ m.v \in live -> m.v \in inmem
             [] OTHER -> TRUE

=============================================================================
