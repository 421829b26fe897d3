----------------------------- MODULE StackFrame -----------------------------
(***************************************************************************)
(* The stack of generated functions on AMD64: amd64-specific.h,            *)
(* common86-specific.h, and the passes of jitlib-core.c and                *)
(* x86-common-stuff.c that lay the frame out.                              *)
(*                                                                         *)
(* The emitter computes every displacement and correction while it walks   *)
(* the list of operations; what it pushed so far it counts in push_count.  *)
(* The code it leaves runs along branches.  Here both happen: the passes   *)
(* and the emitter fill `code', then one function runs on a stack whose    *)
(* words remember what was put there.                                      *)
(*                                                                         *)
(* Unit of measure is the 8-byte word.  Word 0 holds the return address,   *)
(* positive numbers go down the stack, negative ones are the caller's.     *)
(***************************************************************************)
EXTENDS Integers, Sequences, FiniteSets

CONSTANTS
    GpArgRegCnt,  \* al->gp_arg_reg_cnt
    FpArgRegCnt,  \* al->fp_arg_reg_cnt
    Units         \* lists of functions that are compiled together

ASSUME CountAssumption == GpArgRegCnt \in Nat /\ FpArgRegCnt \in Nat

(***************************************************************************)
(* UREG is UREG or SYNCREG; ST and LD are loads and stores of the program  *)
(* to memory it got from jit_allocai; GETARG one that reads memory; OTHER  *)
(* does not touch the stack.                                               *)
(***************************************************************************)
Kinds == {"PROLOG", "UREG", "LREG", "ST", "LD", "GETARG", "PREPARE", "PUTARG",
          "FPUTARG", "CALL", "BRANCH", "RET", "FRET", "OTHER"}

(* What has a place in the frame: R(n), FR(n), the n-th argument of the    *)
(* function, and the n-th block of memory.                                 *)
Cell == [class : {"gp", "fp", "arg", "mem"}, n : Nat]

(***************************************************************************)
(* x is the cell an operation is about.  live is, for a PREPARE, how many  *)
(* caller-saved registers are live at its CALL; jmp the target of a BRANCH *)
(***************************************************************************)
Op == [kind : Kinds, x : Cell, live : Nat, jmp : Nat]

(* gp and fp count the registers the function names; params are its        *)
(* DECL_ARGs; allocas the sizes in bytes given to jit_allocai; saved the   *)
(* number of callee-saved registers its code uses (uses_hw_reg).           *)
Function == [gp : Nat, fp : Nat, params : Seq({"gp", "fp"}), allocas : Seq(Nat),
             saved : Nat, body : Seq(Op)]

Params(f) == 0 .. (Len(f.params) - 1)

(* gp_pos and fp_pos of jit_prepare_arguments *)
Before(f, i, class) == Cardinality({k \in 1 .. i : f.params[k] = class})
GpPos(f, i) == Before(f, i, "gp")
FpPos(f, i) == Before(f, i, "fp")

PassedByReg(f, i) ==
    IF f.params[i + 1] = "gp" THEN GpPos(f, i) < GpArgRegCnt
                              ELSE FpPos(f, i) < FpArgRegCnt

InCall(op) == op.kind \in {"PREPARE", "PUTARG", "FPUTARG"}

(* A function that reads an argument names the register it reads it into.  *)
WellFormedFunction(f) ==
    /\ Len(f.body) > 0
    /\ f.body[Len(f.body)].kind \in {"RET", "FRET"}
    /\ \A o \in DOMAIN f.body :
        LET op == f.body[o] IN
        /\ op.kind = "PROLOG" <=> o = 1
        /\ op.kind = "BRANCH" =>
             /\ op.jmp \in 2 .. Len(f.body)
             /\ f.body[op.jmp].kind \notin {"PUTARG", "FPUTARG", "CALL"}
        /\ op.kind \in {"UREG", "LREG"} =>
             \/ op.x.class = "gp" /\ op.x.n < f.gp
             \/ op.x.class = "fp" /\ op.x.n < f.fp
             \/ /\ op.x.class = "arg" /\ op.x.n \in Params(f) /\ f.gp + f.fp > 0
                /\ PassedByReg(f, op.x.n)
        /\ op.kind \in {"ST", "LD"} =>
             op.x.class = "mem" /\ op.x.n \in DOMAIN f.allocas
        /\ op.kind = "GETARG" =>
             op.x.class = "arg" /\ op.x.n \in Params(f) /\ f.gp + f.fp > 0
        /\ InCall(op) => f.body[o + 1].kind \in {"PUTARG", "FPUTARG", "CALL"}
        /\ op.kind \in {"PUTARG", "FPUTARG", "CALL"} => InCall(f.body[o - 1])

WellFormed(u) ==
    /\ u \in Seq(Function)
    /\ Len(u) > 0
    /\ \A k \in DOMAIN u : WellFormedFunction(u[k])

ASSUME UnitsAssumption == \A u \in Units : WellFormed(u)

VARIABLES
    unit,       \* the functions
    phase,
    info,       \* func_info of each
    fn, cur,    \* the function and operation the emitter is at
    push_count, \* jit->push_count
    prepared,   \* jit->prepared_args
    code,       \* the words subtracted from and added to SP by each operation,
                \* and the displacement it reads or writes at
    at,         \* the operation that runs
    calling,    \* its CALL has passed the arguments and is about to jump
    sp, bp,     \* the words of SP and BP
    stack,      \* what the words below the return address hold
    stored      \* the cells something has been stored in

emitVars == <<info, fn, cur, push_count, prepared, code>>
runVars == <<at, calling, sp, bp, stack, stored>>
vars == <<unit, phase, emitVars, runVars>>

Max2(a, b) == IF a > b THEN a ELSE b

(* jit_value_align(words * 8, 16) / 8 *)
Align(words) == words + (words % 2)

(* The block jit_allocai returns, and all memory of the kind up to it.     *)
BlockSize(bytes) == 2 * ((bytes + 15) \div 16)

AllocaEnd(f) ==
    LET End[k \in 0 .. Len(f.allocas)] ==
          IF k = 0 THEN 0 ELSE End[k - 1] + BlockSize(f.allocas[k])
    IN End

AllocaMem(f) == AllocaEnd(f)[Len(f.allocas)]

-----------------------------------------------------------------------------
(* Displacements, in words below BP.                                       *)

(***************************************************************************)
(* GET_GPREG_POS, GET_FPREG_POS, GET_ARG_SPILL_POS and the value           *)
(* jit_allocai returned, with the memory `alloca' taken to be first.  Slip:*)
(* floating-point registers begin where the general ones do.               *)
(***************************************************************************)
RegPosFpFirst(f, gp_reg_count, alloca, x) ==
    CASE x.class = "gp" -> x.n + 1 + alloca
      [] x.class = "fp" -> x.n + 1 + alloca
      [] x.class = "arg" -> x.n + gp_reg_count + f.fp + alloca
      [] x.class = "mem" -> AllocaEnd(f)[x.n]

RegPos(f, gp_reg_count, alloca, x) ==
    CASE x.class = "gp" -> x.n + 1 + alloca
      [] x.class = "fp" -> gp_reg_count + x.n + 1 + alloca
      [] x.class = "arg" -> x.n + gp_reg_count + f.fp + alloca
      [] x.class = "mem" -> AllocaEnd(f)[x.n]

(* The words of a cell whose displacement is pos. *)
Words(f, x, pos) ==
    IF x.class = "mem" THEN (pos - BlockSize(f.allocas[x.n]) + 1) .. pos ELSE {pos}

(* stack_pos of jit_init_arg_params, in words above the return address. *)
StackPos(f, i) ==
    IF f.params[i + 1] = "gp"
    THEN (GpPos(f, i) - GpArgRegCnt) + Max2(0, FpPos(f, i) - FpArgRegCnt)
    ELSE (FpPos(f, i) - FpArgRegCnt) + Max2(0, GpPos(f, i) - GpArgRegCnt)

-----------------------------------------------------------------------------
NoArgs == [gp |-> 0, fp |-> 0, stack_size |-> 0]
NoCode == [sub |-> 0, add |-> 0, base |-> "none", pos |-> 0]

Init ==
    /\ unit \in Units
    /\ phase = "count"
    /\ info = [k \in DOMAIN unit |->
                 [gp_reg_count |-> 0, has_prolog |-> TRUE, spill_pos |-> <<>>]]
    /\ fn = 1
    /\ cur = 1
    /\ push_count = 0
    /\ prepared = NoArgs
    /\ code = [k \in DOMAIN unit |-> [o \in DOMAIN unit[k].body |-> NoCode]]
    /\ at = 0
    /\ calling = FALSE
    /\ sp = 0
    /\ bp = 0
    /\ stack = <<>>
    /\ stored = {}

(* jit_prepare_reg_counts: an even number of registers altogether. *)
CountRegisters ==
    /\ phase = "count"
    /\ info' = [k \in DOMAIN unit |->
                  [info[k] EXCEPT !.gp_reg_count =
                     unit[k].gp + ((unit[k].gp + unit[k].fp) % 2)]]
    /\ phase' = "arguments"
    /\ UNCHANGED <<unit, fn, cur, push_count, prepared, code, runVars>>

(***************************************************************************)
(* jit_prepare_arguments, with jit_init_arg_params for every DECL_ARG.     *)
(* jit->current_func is still the function that was added last.            *)
(***************************************************************************)
PrepareArguments ==
    /\ phase = "arguments"
    /\ LET current == unit[Len(unit)]
           SpillPos(k, i) ==
             IF PassedByReg(unit[k], i)
             THEN RegPos(unit[k], info[k].gp_reg_count, AllocaMem(current),
                         [class |-> "arg", n |-> i])
             ELSE -(2 + StackPos(unit[k], i))
       IN info' = [k \in DOMAIN unit |->
                     [info[k] EXCEPT !.spill_pos =
                        [i \in Params(unit[k]) |-> SpillPos(k, i)]]]
    /\ phase' = "frameptr"
    /\ UNCHANGED <<unit, fn, cur, push_count, prepared, code, runVars>>

UsesFrame(f) ==
    \/ f.allocas # <<>>
    \/ \E o \in DOMAIN f.body : f.body[o].kind \in {"UREG", "LREG"}

(* jit_optimize_frame_ptr; uses_frame_ptr is never cleared once it is set. *)
OmitFramePointers ==
    /\ phase = "frameptr"
    /\ info' = [k \in DOMAIN unit |->
                  [info[k] EXCEPT !.has_prolog = \E j \in 1 .. k : UsesFrame(unit[j])]]
    /\ phase' = "emit"
    /\ UNCHANGED <<unit, fn, cur, push_count, prepared, code, runVars>>

-----------------------------------------------------------------------------
(* The emitter.                                                            *)

Func == unit[fn]
Info == info[fn]
Emitting(kinds) ==
    /\ phase = "emit"
    /\ fn <= Len(unit)
    /\ Func.body[cur].kind \in kinds

Emitted(instr) ==
    /\ code' = [code EXCEPT ![fn][cur] = instr]
    /\ IF cur < Len(Func.body)
       THEN cur' = cur + 1 /\ fn' = fn
       ELSE cur' = 1 /\ fn' = fn + 1
    /\ UNCHANGED <<unit, phase, info, runVars>>

(* stack_mem of emit_prolog_op *)
FrameSize(f, i) ==
    Align(AllocaMem(f) + i.gp_reg_count + f.fp + Len(f.params))

(* emit_prolog_op, emit_push_callee_saved_regs *)
EmitProlog ==
    /\ Emitting({"PROLOG"})
    /\ push_count' = Align(Func.saved)
    /\ Emitted([NoCode EXCEPT !.sub = IF Info.has_prolog THEN FrameSize(Func, Info) ELSE 0])
    /\ UNCHANGED prepared

(* emit_ureg, emit_lreg and the program's own accesses *)
EmitAccess ==
    /\ Emitting({"UREG", "LREG", "ST", "LD"})
    /\ Emitted([NoCode EXCEPT !.base = "bp",
                  !.pos = RegPos(Func, Info.gp_reg_count, AllocaMem(Func), Func.body[cur].x)])
    /\ UNCHANGED <<push_count, prepared>>

(* emit_get_arg, when the argument is in memory. *)
EmitGetArg ==
    /\ Emitting({"GETARG"})
    /\ LET i == Func.body[cur].x.n
       IN Emitted(IF PassedByReg(Func, i) \/ Info.has_prolog
                  THEN [NoCode EXCEPT !.base = "bp", !.pos = Info.spill_pos[i]]
                  ELSE [NoCode EXCEPT !.base = "sp",
                          !.pos = -(1 + StackPos(Func, i) + push_count)])
    /\ UNCHANGED <<push_count, prepared>>

(* funcall_prepare, emit_push_caller_saved_regs *)
EmitPrepare ==
    /\ Emitting({"PREPARE"})
    /\ prepared' = NoArgs
    /\ push_count' = push_count + Func.body[cur].live
    /\ Emitted([NoCode EXCEPT !.sub = Func.body[cur].live])

(* funcall_put_arg, funcall_fput_arg *)
EmitPutArg ==
    /\ Emitting({"PUTARG", "FPUTARG"})
    /\ LET class == IF Func.body[cur].kind = "PUTARG" THEN "gp" ELSE "fp"
           count == prepared[class] + 1
           regs  == IF class = "gp" THEN GpArgRegCnt ELSE FpArgRegCnt
       IN prepared' = [prepared EXCEPT
                         ![class] = count,
                         !.stack_size = IF count > regs THEN @ + 1 ELSE @]
    /\ Emitted(NoCode)
    /\ UNCHANGED push_count

(* Slip: arguments on the stack do not count. *)
CorrectionPushesOnly(args, pushes, has_prolog) ==
    IF has_prolog THEN pushes % 2 ELSE (pushes + 1) % 2

(* The word emit_arguments skips so that the call finds SP aligned.        *)
Correction(args, pushes, has_prolog) ==
    LET pushed == pushes + Max2(args.gp - GpArgRegCnt, 0) + Max2(args.fp - FpArgRegCnt, 0)
    IN IF has_prolog THEN pushed % 2 ELSE (pushed + 1) % 2

(* The PREPARE of the CALL at o. *)
PrepareOf(f, o) ==
    CHOOSE q \in 1 .. o : /\ f.body[q].kind = "PREPARE"
                          /\ \A k \in (q + 1) .. o : f.body[k].kind # "PREPARE"

Live(f, call) == f.body[PrepareOf(f, call)].live

(* emit_funcall, emit_arguments, emit_pop_caller_saved_regs *)
EmitCall ==
    /\ Emitting({"CALL"})
    /\ LET correction == Correction(prepared, push_count, Info.has_prolog)
       IN Emitted([NoCode EXCEPT !.sub = correction,
                                 !.add = correction + prepared.stack_size])
    /\ push_count' = push_count - Live(Func, cur)
    /\ UNCHANGED prepared

(* Slip: the registers are looked for right at SP. *)
EmitRetUnaligned ==
    /\ Emitting({"RET", "FRET"})
    /\ push_count' = IF Func.body[cur].kind = "FRET" THEN push_count - Func.saved
                                                     ELSE push_count
    /\ Emitted([NoCode EXCEPT !.add = Align(Func.saved), !.pos = 0])
    /\ UNCHANGED prepared

(***************************************************************************)
(* RET, and emit_fret_op, which takes what emit_pop_callee_saved_regs      *)
(* returns (the registers) from what emit_push_callee_saved_regs had       *)
(* returned (the words).  pos is the padding under the saved registers.    *)
(***************************************************************************)
EmitRet ==
    /\ Emitting({"RET", "FRET"})
    /\ push_count' = IF Func.body[cur].kind = "FRET" THEN push_count - Func.saved
                                                     ELSE push_count
    /\ Emitted([NoCode EXCEPT !.add = Align(Func.saved),
                              !.pos = Align(Func.saved) - Func.saved])
    /\ UNCHANGED prepared

EmitOther ==
    /\ Emitting({"BRANCH", "OTHER"})
    /\ Emitted(NoCode)
    /\ UNCHANGED <<push_count, prepared>>

(* The code is complete; one of the functions will be called. *)
Call ==
    /\ phase = "emit"
    /\ fn > Len(unit)
    /\ phase' = "run"
    /\ fn' \in DOMAIN unit
    /\ at' = 1
    /\ UNCHANGED <<unit, info, cur, push_count, prepared, code, calling, sp, bp,
                   stack, stored>>

-----------------------------------------------------------------------------
(* The generated code.  The stack is a sequence of what is in its words:   *)
(* cells, saved registers, the caller's BP, arguments passed, or nothing.  *)

Nothing == <<"nothing", 0>>
Running(kinds) == phase = "run" /\ at > 0 /\ Func.body[at].kind \in kinds
Instr == code[fn][at]
X == Func.body[at].x

(* The words [class, 1], [class, 2], ... *)
Several(class, n) == [i \in 1 .. n |-> <<class, i>>]
Blank(n) == [i \in 1 .. n |-> Nothing]

Ran(next) == at' = next /\ UNCHANGED <<unit, phase, emitVars>>

(* The registers are stored below SP first, the padding is under them.     *)
RunProlog ==
    /\ Running({"PROLOG"})
    /\ stack' = (IF Info.has_prolog THEN <<<<"bp", 0>>>> ELSE <<>>)
                  \o Blank(Instr.sub) \o Several("saved", Func.saved)
                  \o Blank(Align(Func.saved) - Func.saved)
    /\ bp' = IF Info.has_prolog THEN 1 ELSE 0
    /\ sp' = Len(stack')
    /\ Ran(at + 1)
    /\ UNCHANGED <<calling, stored>>

(* The word an operation reads or writes (the last one of a block). *)
Accessed == (IF Instr.base = "bp" THEN bp ELSE sp) + Instr.pos

RunStore ==
    /\ Running({"UREG", "ST"})
    /\ stack' = [w \in DOMAIN stack |->
                   IF w \in Words(Func, X, Accessed) THEN <<X.class, X.n>> ELSE stack[w]]
    /\ stored' = stored \cup {X}
    /\ Ran(at + 1)
    /\ UNCHANGED <<calling, sp, bp>>

RunLoad ==
    /\ Running({"LREG", "LD", "GETARG", "PUTARG", "FPUTARG", "OTHER"})
    /\ Ran(at + 1)
    /\ UNCHANGED <<calling, sp, bp, stack, stored>>

RunPrepare ==
    /\ Running({"PREPARE"})
    /\ stack' = stack \o Several("live", Instr.sub)
    /\ sp' = sp + Instr.sub
    /\ Ran(at + 1)
    /\ UNCHANGED <<calling, bp, stored>>

(* The arguments of the CALL at o, first to last. *)
ArgKinds(f, o) ==
    [k \in 1 .. (o - PrepareOf(f, o) - 1) |->
       IF f.body[PrepareOf(f, o) + k].kind = "PUTARG" THEN "gp" ELSE "fp"]

(* Slip: from first to last. *)
OnStackForward(kinds) ==
    LET callee  == [params |-> kinds]
        stacked == {k \in DOMAIN kinds : ~PassedByReg(callee, k - 1)}
        Nth[n \in 0 .. Cardinality(stacked)] ==
          IF n = 0 THEN 0
          ELSE CHOOSE k \in stacked :
                 /\ k > Nth[n - 1]
                 /\ \A j \in stacked : j > Nth[n - 1] => k <= j
    IN [n \in 1 .. Cardinality(stacked) |-> <<"out", Nth[n] - 1>>]

(* What emit_arguments pushes, going from the last argument to the first.  *)
OnStack(kinds) ==
    LET callee  == [params |-> kinds]
        stacked == {k \in DOMAIN kinds : ~PassedByReg(callee, k - 1)}
        Nth[n \in 0 .. Cardinality(stacked)] ==
          IF n = 0 THEN Len(kinds) + 1
          ELSE CHOOSE k \in stacked :
                 /\ k < Nth[n - 1]
                 /\ \A j \in stacked : j < Nth[n - 1] => k >= j
    IN [n \in 1 .. Cardinality(stacked) |-> <<"out", Nth[n] - 1>>]

RunArguments ==
    /\ Running({"CALL"})
    /\ ~calling
    /\ stack' = stack \o Blank(Instr.sub) \o OnStack(ArgKinds(Func, at))
    /\ sp' = Len(stack')
    /\ calling' = TRUE
    /\ Ran(at)
    /\ UNCHANGED <<bp, stored>>

(* The callee returns; the live registers are restored from where SP is.   *)
RunReturned ==
    /\ Running({"CALL"})
    /\ calling
    /\ sp' = sp - Instr.add - Live(Func, at)
    /\ stack' = SubSeq(stack, 1, sp')
    /\ calling' = FALSE
    /\ Ran(at + 1)
    /\ UNCHANGED <<bp, stored>>

RunBranch ==
    /\ Running({"BRANCH"})
    /\ \E next \in {at + 1, Func.body[at].jmp} : Ran(next)
    /\ UNCHANGED <<calling, sp, bp, stack, stored>>

(* After the RET SP is where its caller had it if it left the frame from   *)
(* word 0, and the code ends.                                              *)
RunRet ==
    /\ Running({"RET", "FRET"})
    /\ sp' = IF Info.has_prolog THEN bp - 1 ELSE sp - Instr.add
    /\ Ran(-1)
    /\ UNCHANGED <<calling, bp, stack, stored>>

Next ==
    \/ CountRegisters
    \/ PrepareArguments
    \/ OmitFramePointers
    \/ EmitProlog
    \/ EmitAccess
    \/ EmitGetArg
    \/ EmitPrepare
    \/ EmitPutArg
    \/ EmitCall
    \/ EmitRet
    \/ EmitOther
    \/ Call
    \/ RunProlog
    \/ RunStore
    \/ RunLoad
    \/ RunPrepare
    \/ RunArguments
    \/ RunReturned
    \/ RunBranch
    \/ RunRet

Spec == Init /\ [][Next]_vars

-----------------------------------------------------------------------------
(***************************************************************************)
(* emit_funcall: "correctly aligns stack to 16 bytes".  When a call is     *)
(* made, on whatever path, SP is a multiple of 16: with the return address *)
(* in word 0 (SP was a multiple of 16 before it was pushed) SP is at an    *)
(* odd word.                                                               *)
(***************************************************************************)
CallsAligned == calling => sp % 2 = 1

(***************************************************************************)
(* What a function of the library passes on the stack is where a function  *)
(* of the library, declared with these arguments, looks for it: the k-th   *)
(* word above its return address (emit_arguments, jit_init_arg_params).    *)
(***************************************************************************)
ArgumentsArrive ==
    calling =>
        LET callee == [params |-> ArgKinds(Func, at)]
        IN \A i \in Params(callee) : ~PassedByReg(callee, i) =>
             /\ sp - StackPos(callee, i) \in DOMAIN stack
             /\ stack[sp - StackPos(callee, i)] = <<"out", i>>

(***************************************************************************)
(* A stored value is found where it was put: no other register, argument,  *)
(* block of jit_allocai, saved register or call has overwritten it when it *)
(* is read back, and a GETARG reads where the argument was stored or where *)
(* the caller has put it.                                                  *)
(***************************************************************************)
ReadsBack ==
    Running({"LREG", "LD", "GETARG"}) =>
        IF X.class = "arg" /\ ~PassedByReg(Func, X.n)
        THEN Accessed = -(1 + StackPos(Func, X.n))
        ELSE X \in stored =>
               \A w \in Words(Func, X, Accessed) :
                 w \in DOMAIN stack /\ stack[w] = <<X.class, X.n>>

(***************************************************************************)
(* Registers come back from the words they were saved in, whatever was     *)
(* stored or called in between, and a return finds its return address: the *)
(* caller-saved ones after the arguments and the correction are dropped,   *)
(* the callee-saved ones above the padding.                                *)
(***************************************************************************)
RegistersRestored ==
    /\ calling =>
         LET n   == Live(Func, at)
             top == sp - Instr.add
         IN top >= n /\ \A i \in 1 .. n : stack[top - n + i] = <<"live", i>>
    /\ Running({"RET", "FRET"}) =>
         LET n   == Func.saved
             top == sp - Instr.pos
         IN /\ top >= n
            /\ \A i \in 1 .. n : stack[top - n + i] = <<"saved", i>>
            /\ IF Info.has_prolog THEN stack[bp] = <<"bp", 0>> ELSE sp = Instr.add

=============================================================================
