---------------------------- MODULE FlowAnalysis ----------------------------
(***************************************************************************)
(* Liveness analysis of myjit/flow-analysis.h.                             *)
(*                                                                         *)
(* jit_flw_analysis walks the list of operations, and for every PROLOG     *)
(* finds the last operation of that function and calls analyze_function.   *)
(* analyze_function sweeps from the last operation back to the PROLOG,     *)
(* again and again, until one whole sweep reports no change.  The sets are *)
(* updated in place and a change is noticed by comparing set SIZES only.   *)
(*                                                                         *)
(* The program is a state variable that never changes, so one run of TLC   *)
(* covers every program of Programs and the theorems quantify over all.    *)
(***************************************************************************)
EXTENDS Integers, Sequences, FiniteSets

CONSTANTS
    Reg,       \* the virtual registers (argument registers included)
    Programs   \* the lists of operations the analysis may be run on

(***************************************************************************)
(* What the analysis tells apart in an opcode.  RET stands for RET and     *)
(* FRET, JMPI for JMP|IMM, JMPR for JMP|REG; OTHER is everything else:     *)
(* with jmp # 0 a conditional branch, a local call or REF_DATA.            *)
(***************************************************************************)
Kinds == {"PROLOG", "RET", "JMPI", "JMPR", "REF_CODE", "DATA_REF_CODE", "OTHER"}

(***************************************************************************)
(* An operation: jmp is the position of jmp_addr (0 is NULL), use the REG  *)
(* arguments (and what GETARG reads), def the TREG arguments; for a PROLOG *)
(* def is the set of argument registers flw_analyze_prolog removes.        *)
(***************************************************************************)
Op == [kind : Kinds, jmp : Nat, use : SUBSET Reg, def : SUBSET Reg]

(***************************************************************************)
(* Lists the builder of the library can produce: jump targets are in the   *)
(* list, RET and PROLOG have no target, JMPI, REF_CODE and DATA_REF_CODE   *)
(* have one, and a PROLOG reads no register (SPEC(IMM, NO, NO)).           *)
(***************************************************************************)
WellFormed(p) ==
    /\ p \in Seq(Op)
    /\ \A o \in DOMAIN p :
        /\ p[o].jmp \in {0} \cup DOMAIN p
        /\ p[o].kind \in {"RET", "PROLOG", "JMPR"} => p[o].jmp = 0
        /\ p[o].kind \in {"JMPI", "REF_CODE", "DATA_REF_CODE"} => p[o].jmp # 0
        /\ p[o].kind = "PROLOG" => p[o].use = {}

ASSUME RegAssumption == IsFiniteSet(Reg)

ASSUME ProgramsAssumption == \A p \in Programs : WellFormed(p)

VARIABLES
    prog,       \* jit->ops
    live_in,    \* op->live_in
    live_out,   \* op->live_out
    pc,         \* which loop the analysis is in
    cur,        \* op of jit_flw_analysis
    first,      \* first_op of analyze_function
    last,       \* last_op of analyze_function
    pos,        \* op of analyze_function's sweep
    changed     \* its changed flag

vars == <<prog, live_in, live_out, pc, cur, first, last, pos, changed>>

Ops == DOMAIN prog
IsRef(o) == prog[o].kind \in {"REF_CODE", "DATA_REF_CODE"}

-----------------------------------------------------------------------------
(* flw_analyze_op.                                                         *)

(***************************************************************************)
(* The operations whose live_in is added to live_out: the target of a jump *)
(* that is not a reference, for JMP|REG the targets of the references      *)
(* between the PROLOG and the end of its function (initialize_code_refs),  *)
(* and the next operation unless control cannot fall through.              *)
(***************************************************************************)
CodeRefs(f, l) == {prog[k].jmp : k \in {i \in (f + 1) .. l : IsRef(i)}}

(* Slips this function could have: a conditional branch that does not fall *)
(* through, and an unconditional jump that does.                           *)
SourcesBranchOnly(o, f, l) ==
    IF prog[o].jmp # 0 /\ ~IsRef(o) THEN {prog[o].jmp}
    ELSE (IF prog[o].kind = "JMPR" THEN CodeRefs(f, l) ELSE {})
         \cup (IF prog[o].kind \notin {"JMPR", "RET"} /\ o < Len(prog)
                 THEN {o + 1} ELSE {})

SourcesJumpFallsThrough(o, f, l) ==
    (IF prog[o].jmp # 0 /\ ~IsRef(o) THEN {prog[o].jmp} ELSE {})
    \cup (IF prog[o].kind = "JMPR" THEN CodeRefs(f, l) ELSE {})
    \cup (IF prog[o].kind \notin {"JMPR", "RET"} /\ o < Len(prog)
            THEN {o + 1} ELSE {})

Sources(o, f, l) ==
    (IF prog[o].jmp # 0 /\ ~IsRef(o) THEN {prog[o].jmp} ELSE {})
    \cup (IF prog[o].kind = "JMPR" THEN CodeRefs(f, l) ELSE {})
    \cup (IF prog[o].kind \notin {"JMPR", "JMPI", "RET"} /\ o < Len(prog)
            THEN {o + 1} ELSE {})

NewOut(o, f, l) ==
    IF prog[o].kind = "RET"
    THEN {}
    ELSE live_out[o] \cup UNION {live_in[s] : s \in Sources(o, f, l)}

(* Slips: kills after uses, and no kills at all. *)
NewInKillsLast(o, out) == (live_in[o] \cup out \cup prog[o].use) \ prog[o].def
NewInNoKill(o, out) == live_in[o] \cup out \cup prog[o].use

(* A PROLOG loses its argument registers after the uses were added; as it  *)
(* has no uses the order cannot be seen.                                   *)
NewIn(o, out) == ((live_in[o] \cup out) \ prog[o].def) \cup prog[o].use

(***************************************************************************)
(* What the code takes for "nothing has changed": both sizes are as before.*)
(***************************************************************************)
SameSize(o, in, out) ==
    /\ Cardinality(out) = Cardinality(live_out[o])
    /\ Cardinality(in) = Cardinality(live_in[o])

-----------------------------------------------------------------------------
(* jit_flw_initialize gives every operation the registers it reads.        *)
Init ==
    /\ prog \in Programs
    /\ live_in = [o \in DOMAIN prog |-> prog[o].use]
    /\ live_out = [o \in DOMAIN prog |-> {}]
    /\ pc = "seek"
    /\ cur = 1
    /\ first = 0
    /\ last = 0
    /\ pos = 0
    /\ changed = FALSE

(* jit_flw_analysis: look for the next PROLOG. *)
SkipOp ==
    /\ pc = "seek"
    /\ cur <= Len(prog)
    /\ prog[cur].kind # "PROLOG"
    /\ cur' = cur + 1
    /\ UNCHANGED <<prog, live_in, live_out, pc, first, last, pos, changed>>

FoundProlog ==
    /\ pc = "seek"
    /\ cur <= Len(prog)
    /\ prog[cur].kind = "PROLOG"
    /\ first' = cur
    /\ pc' = "scan"
    /\ UNCHANGED <<prog, live_in, live_out, cur, last, pos, changed>>

(* The inner loop: advance to the last operation of the function. *)
ScanOp ==
    /\ pc = "scan"
    /\ cur < Len(prog)
    /\ prog[cur + 1].kind # "PROLOG"
    /\ cur' = cur + 1
    /\ UNCHANGED <<prog, live_in, live_out, pc, first, last, pos, changed>>

BeginFunction ==
    /\ pc = "scan"
    /\ cur < Len(prog) => prog[cur + 1].kind = "PROLOG"
    /\ last' = cur
    /\ pos' = cur
    /\ changed' = FALSE
    /\ pc' = "sweep"
    /\ UNCHANGED <<prog, live_in, live_out, cur, first>>

(* One call of flw_analyze_op in the sweep of analyze_function. *)
AnalyzeOp ==
    /\ pc = "sweep"
    /\ pos >= first
    /\ LET out == NewOut(pos, first, last)
           in  == NewIn(pos, out)
       IN /\ live_out' = [live_out EXCEPT ![pos] = out]
          /\ live_in' = [live_in EXCEPT ![pos] = in]
          /\ changed' = (changed \/ ~SameSize(pos, in, out))
    /\ pos' = pos - 1
    /\ UNCHANGED <<prog, pc, cur, first, last>>

(* Slip: changed is cleared once, before the loop. *)
SweepAgainStale ==
    /\ pc = "sweep"
    /\ pos < first
    /\ changed
    /\ pos' = last
    /\ UNCHANGED <<prog, live_in, live_out, pc, cur, first, last, changed>>

(* do ... while (changed) *)
SweepAgain ==
    /\ pc = "sweep"
    /\ pos < first
    /\ changed
    /\ pos' = last
    /\ changed' = FALSE
    /\ UNCHANGED <<prog, live_in, live_out, pc, cur, first, last>>

(* Slip: op is advanced both by the inner and the outer loop. *)
EndFunctionSkips ==
    /\ pc = "sweep"
    /\ pos < first
    /\ ~changed
    /\ cur' = last + 2
    /\ pc' = "seek"
    /\ UNCHANGED <<prog, live_in, live_out, first, last, pos, changed>>

EndFunction ==
    /\ pc = "sweep"
    /\ pos < first
    /\ ~changed
    /\ cur' = last + 1
    /\ pc' = "seek"
    /\ UNCHANGED <<prog, live_in, live_out, first, last, pos, changed>>

Finish ==
    /\ pc = "seek"
    /\ cur > Len(prog)
    /\ pc' = "done"
    /\ UNCHANGED <<prog, live_in, live_out, cur, first, last, pos, changed>>

Next ==
    \/ SkipOp
    \/ FoundProlog
    \/ ScanOp
    \/ BeginFunction
    \/ AnalyzeOp
    \/ SweepAgain
    \/ EndFunction
    \/ Finish

Spec == Init /\ [][Next]_vars

(* The analysis is one call that runs to its end: its steps are never      *)
(* suspended for ever.                                                     *)
FairSpec == Spec /\ WF_vars(Next)

-----------------------------------------------------------------------------
(* The control flow the liveness is about.                                 *)

(* No PROLOG separates the two operations: they belong to one function (or *)
(* both come before the first).                                            *)
SameFunction(a, b) ==
    \A k \in Ops : prog[k].kind = "PROLOG" => (k <= a <=> k <= b)

InFunction(o) == \E k \in Ops : prog[k].kind = "PROLOG" /\ k <= o

(* Where control may go from o if JMP|REG may use the references refs.     *)
Flow(o, refs) ==
    (IF prog[o].jmp # 0 /\ ~IsRef(o) THEN {prog[o].jmp} ELSE {})
    \cup (IF prog[o].kind = "JMPR" THEN {prog[k].jmp : k \in refs} ELSE {})
    \cup (IF prog[o].kind \notin {"JMPR", "JMPI", "RET"} /\ o < Len(prog)
            THEN {o + 1} ELSE {})

AllRefs == {k \in Ops : IsRef(k)}

(* The flow the code promises to follow: JMP|REG goes by the references    *)
(* its own function holds; LocalSucc also stays inside the function.       *)
LocalFlow(o) == Flow(o, {k \in AllRefs : SameFunction(o, k)})
LocalSucc(o) == {s \in LocalFlow(o) : SameFunction(o, s)}

(***************************************************************************)
(* The reference definition: the registers that are read, before they are  *)
(* written, on some path of at most k operations from o along Succ.        *)
(***************************************************************************)
ReadOnPath(Succ(_)) ==
    LET R[k \in 0 .. Len(prog)] ==
          IF k = 0
          THEN [o \in Ops |-> prog[o].use]
          ELSE [o \in Ops |->
                  prog[o].use \cup
                  ((UNION {R[k - 1][s] : s \in Succ(o)}) \ prog[o].def)]
    IN R[Len(prog)]

-----------------------------------------------------------------------------
TypeOK ==
    /\ WellFormed(prog)
    /\ live_in \in [Ops -> SUBSET Reg]
    /\ live_out \in [Ops -> SUBSET Reg]
    /\ pc \in {"seek", "scan", "sweep", "done"}
    /\ cur \in 1 .. (Len(prog) + 1)
    /\ first \in 0 .. Len(prog)
    /\ last \in 0 .. Len(prog)
    /\ pos \in 0 .. Len(prog)
    /\ changed \in BOOLEAN

(***************************************************************************)
(* When the analysis has ended, an operation of a function satisfies its   *)
(* dataflow equation against all its successors in that function, although *)
(* sweeps update the sets in place and stop as soon as no set grew in size *)
(* (do ... while (changed) of analyze_function).                           *)
(***************************************************************************)
Closed(o) ==
    /\ \A s \in LocalSucc(o) : live_in[s] \subseteq live_out[o]
    /\ live_in[o] = (live_out[o] \ prog[o].def) \cup prog[o].use

Sound == pc = "done" => \A o \in Ops : InFunction(o) => Closed(o)

(***************************************************************************)
(* The result is what it should be by the path definition: every register  *)
(* some path of the function may read before writing it is live, and every *)
(* live register is so read on a path of the whole list (calls and         *)
(* functions that fall through into the next included).                    *)
(***************************************************************************)
LiveExact ==
    pc = "done" =>
        LET must == ReadOnPath(LocalSucc)
            may  == ReadOnPath(LocalFlow)
        IN \A o \in Ops : InFunction(o) =>
             /\ must[o] \subseteq live_in[o]
             /\ live_in[o] \subseteq may[o]

(***************************************************************************)
(* No register is live without need: the result is contained in every      *)
(* assignment of sets that solves the dataflow equations, so the           *)
(* allocator is not made to keep values nobody reads.                      *)
(***************************************************************************)
Solution(X) ==
    \A o \in Ops :
        /\ prog[o].use \subseteq X[o]
        /\ \A s \in LocalFlow(o) : X[s] \ prog[o].def \subseteq X[o]

Least ==
    pc = "done" =>
        \A X \in [Ops -> SUBSET Reg] :
            Solution(X) => \A o \in Ops : live_in[o] \subseteq X[o]

(***************************************************************************)
(* What makes comparing sizes enough to notice a change: a sweep never     *)
(* takes a register out of a live set, whatever it kills on the way.       *)
(***************************************************************************)
Grows ==
    [][\A o \in Ops : /\ live_in[o] \subseteq live_in'[o]
                      /\ live_out[o] \subseteq live_out'[o]]_vars

(***************************************************************************)
(* analyze_function's do ... while terminates, for every function of the   *)
(* list.                                                                   *)
(***************************************************************************)
Terminates == <>(pc = "done")

(***************************************************************************)
(* What doc/build/src/03-Instruction-set says of branch tables: addresses  *)
(* of code may be emitted as data, and data are best placed at the end of  *)
(* the code.  Then every target in the function of a JMP|REG, whose table  *)
(* may be anywhere in the list, must find its registers live at the jump.  *)
(***************************************************************************)
TablesAnywhere ==
    pc = "done" =>
        \A o \in Ops : prog[o].kind = "JMPR" /\ InFunction(o) =>
            \A s \in Flow(o, AllRefs) : SameFunction(o, s) =>
                live_in[s] \subseteq live_out[o]

=============================================================================
