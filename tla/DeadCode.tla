------------------------------ MODULE DeadCode ------------------------------
(***************************************************************************)
(* Dead-code analysis of myjit/flow-analysis.h.                            *)
(*                                                                         *)
(* mark_livecode is a recursive function: it walks along op->next, calls   *)
(* itself on op->jmp_addr, and returns at an operation already marked or   *)
(* one that does not fall through.  The activations still open are a       *)
(* stack here, each represented by its op.  Directives are marked next,    *)
(* and unless only the warnings of jit_check_code are wanted, operations   *)
(* without a mark are deleted (freed) before code is emitted.              *)
(***************************************************************************)
EXTENDS Integers, Sequences, FiniteSets

CONSTANT Programs   \* the lists of operations

(***************************************************************************)
(* JMP is JMP|IMM and JMP|REG; RET is RET and FRET; DATA is DATA_BYTE,     *)
(* CODE_ALIGN, CODESTART, COMMENT and MARK; OTHER every other operation,   *)
(* JIT_DATA_BYTES among them.                                              *)
(***************************************************************************)
Kinds == {"PROLOG", "RET", "JMP", "REF", "DATA_REF_CODE", "DATA_REF_DATA",
          "DATA", "LABEL", "PATCH", "FULL_SPILL", "OTHER"}

(***************************************************************************)
(* jmp is jmp_addr (0 is NULL) after jit_expand_patches_and_labels: a      *)
(* label, or the PATCH that patches the operation.                         *)
(***************************************************************************)
Op == [kind : Kinds, jmp : Nat]

WellFormed(p) ==
    /\ p \in Seq(Op)
    /\ \A o \in DOMAIN p :
        /\ p[o].jmp \in {0} \cup DOMAIN p
        /\ p[o].jmp # 0 =>
             \/ p[p[o].jmp].kind = "LABEL" /\ p[o].jmp < o
             \/ p[p[o].jmp].kind = "PATCH" /\ p[o].jmp > o
        /\ p[o].kind \in {"REF", "DATA_REF_CODE", "DATA_REF_DATA"} => p[o].jmp # 0
        /\ p[o].kind \in {"PROLOG", "RET", "DATA", "LABEL", "PATCH", "FULL_SPILL"}
             => p[o].jmp = 0
        /\ p[o].kind = "PATCH" =>
             Cardinality({k \in DOMAIN p : p[k].jmp = o}) = 1

ASSUME ProgramsAssumption == \A p \in Programs : WellFormed(p)

VARIABLES
    prog,    \* jit->ops as built
    remove,  \* the parameter remove_dead_code
    pc,      \* which loop
    cur,     \* its op
    stack,   \* the open activations of mark_livecode, innermost first
    in_use,  \* the operations whose in_use is set
    list     \* the operations still in the list

vars == <<prog, remove, pc, cur, stack, in_use, list>>

Ops == DOMAIN prog

(* Slip: the end of the list is not noticed. *)
NextOfNoEnd(o) == o + 1

(* op->next, 0 at the end of the list *)
NextOf(o) == IF o < Len(prog) THEN o + 1 ELSE 0

(* What the open activations have yet to walk over. *)
Open == {stack[i] : i \in DOMAIN stack}

Stops == {"RET", "JMP"}

Directives == {"DATA", "DATA_REF_CODE", "DATA_REF_DATA", "LABEL", "PATCH"}

DirectiveOps == {o \in Ops : prog[o].kind \in Directives}

-----------------------------------------------------------------------------
Init ==
    /\ prog \in Programs
    /\ remove \in BOOLEAN
    /\ pc = "mark"
    /\ cur = 1
    /\ stack = <<>>
    /\ in_use = {}
    /\ list = DOMAIN prog

(* Slip: addresses of code in data do not count. *)
RootsPrologOnly(o) == IF prog[o].kind = "PROLOG" THEN <<o>> ELSE <<>>

(* Where mark_livecode is called from outside. *)
Roots(o) ==
    CASE prog[o].kind = "PROLOG" -> <<o>>
      [] prog[o].kind = "DATA_REF_CODE" -> <<prog[o].jmp>>
      [] OTHER -> <<>>

SeekRoot ==
    /\ pc = "mark"
    /\ stack = <<>>
    /\ cur <= Len(prog)
    /\ stack' = Roots(cur)
    /\ cur' = cur + 1
    /\ UNCHANGED <<prog, remove, pc, in_use, list>>

(* while (op) ... if (op->in_use) return; *)
MarkReturns ==
    /\ stack # <<>>
    /\ Head(stack) \in in_use \cup {0}
    /\ stack' = Tail(stack)
    /\ UNCHANGED <<prog, remove, pc, cur, in_use, list>>

(* Slip: operations are marked, but the mark is not tested. *)
MarkOpAgain ==
    /\ stack # <<>>
    /\ Head(stack) # 0
    /\ LET o    == Head(stack)
           rest == IF prog[o].kind \in Stops THEN 0 ELSE NextOf(o)
           call == IF prog[o].jmp # 0 THEN <<prog[o].jmp>> ELSE <<>>
       IN stack' = call \o <<rest>> \o Tail(stack)
    /\ in_use' = in_use \cup {Head(stack)}
    /\ UNCHANGED <<prog, remove, pc, cur, list>>

(* Slip: return mark_livecode(op->jmp_addr). *)
MarkOpTailCall ==
    /\ stack # <<>>
    /\ Head(stack) \notin in_use \cup {0}
    /\ LET o    == Head(stack)
           rest == IF prog[o].kind \in Stops THEN 0 ELSE NextOf(o)
           next == IF prog[o].jmp # 0 THEN prog[o].jmp ELSE rest
       IN stack' = <<next>> \o Tail(stack)
    /\ in_use' = in_use \cup {Head(stack)}
    /\ UNCHANGED <<prog, remove, pc, cur, list>>

(* One turn of the loop; the recursive call runs before it goes on.        *)
MarkOp ==
    /\ stack # <<>>
    /\ Head(stack) \notin in_use \cup {0}
    /\ LET o    == Head(stack)
           rest == IF prog[o].kind \in Stops THEN 0 ELSE NextOf(o)
           call == IF prog[o].jmp # 0 THEN <<prog[o].jmp>> ELSE <<>>
       IN stack' = call \o <<rest>> \o Tail(stack)
    /\ in_use' = in_use \cup {Head(stack)}
    /\ UNCHANGED <<prog, remove, pc, cur, list>>

(* The marks of the directives, which do not depend on one another.        *)
MarkDirectives ==
    /\ pc = "mark"
    /\ stack = <<>>
    /\ cur > Len(prog)
    /\ in_use' = in_use \cup DirectiveOps
    /\ cur' = 1
    /\ pc' = IF remove THEN "delete" ELSE "done"
    /\ UNCHANGED <<prog, remove, stack, list>>

(* Slip: FULL_SPILL is kept by "continue", which does not go on. *)
DeleteOrKeepStuck ==
    /\ pc = "delete"
    /\ cur <= Len(prog)
    /\ list' = IF cur \in in_use \/ prog[cur].kind = "FULL_SPILL"
               THEN list ELSE list \ {cur}
    /\ cur' = IF cur \notin in_use /\ prog[cur].kind = "FULL_SPILL"
              THEN cur ELSE cur + 1
    /\ UNCHANGED <<prog, remove, pc, stack, in_use>>

(* FULL_SPILL is kept: its mark only tells whether control reaches it.     *)
DeleteOrKeep ==
    /\ pc = "delete"
    /\ cur <= Len(prog)
    /\ list' = IF cur \in in_use \/ prog[cur].kind = "FULL_SPILL"
               THEN list ELSE list \ {cur}
    /\ cur' = cur + 1
    /\ UNCHANGED <<prog, remove, pc, stack, in_use>>

(* The end of the list: the analysis is over, and code can be emitted.     *)
Finish ==
    /\ pc = "delete"
    /\ cur > Len(prog)
    /\ pc' = "done"
    /\ UNCHANGED <<prog, remove, cur, stack, in_use, list>>

Next ==
    \/ SeekRoot
    \/ MarkReturns
    \/ MarkOp
    \/ MarkDirectives
    \/ DeleteOrKeep
    \/ Finish

Spec == Init /\ [][Next]_vars

(* One call of the library, which runs to its end. *)
FairSpec == Spec /\ WF_vars(Next)

-----------------------------------------------------------------------------
(* What the analysis is about: the operations that can be reached from a   *)
(* function's entry, or through an address that is taken, are those that   *)
(* no set closed under control flow leaves out.                            *)

Follows(o) ==
    (IF prog[o].kind \notin Stops /\ o < Len(prog) THEN {o + 1} ELSE {})
    \cup (IF prog[o].jmp # 0 THEN {prog[o].jmp} ELSE {})

Entries ==
    {o \in Ops : prog[o].kind = "PROLOG"}
    \cup {prog[o].jmp : o \in {k \in Ops : prog[k].kind = "DATA_REF_CODE"}}

Closed(S) == Entries \subseteq S /\ \A o \in S : Follows(o) \subseteq S

Reachable ==
    LET closed == {S \in SUBSET Ops : Closed(S)}
    IN {o \in Ops : \A S \in closed : o \in S}

TypeOK ==
    /\ WellFormed(prog)
    /\ remove \in BOOLEAN
    /\ pc \in {"mark", "delete", "done"}
    /\ cur \in 1 .. (Len(prog) + 1)
    /\ stack \in Seq({0} \cup Ops)
    /\ in_use \subseteq Ops
    /\ list \subseteq Ops
    /\ pc # "mark" => stack = <<>>

(***************************************************************************)
(* Nothing reachable is deleted: neither code nor, although JIT_DATA_BYTES *)
(* is no directive of jit_dead_code_analysis, data whose address is taken, *)
(* directly or through a table of addresses.  And nothing else keeps its   *)
(* mark, so JIT_WARN_DEAD_CODE of code-check.c is exact, nor, but for      *)
(* FULL_SPILL and directives, its place in the list.                       *)
(***************************************************************************)
ExactlyReachable ==
    pc = "done" =>
        /\ in_use = Reachable \cup DirectiveOps
        /\ IF remove THEN list = in_use \cup {o \in Ops : prog[o].kind = "FULL_SPILL"}
                     ELSE list = Ops

(***************************************************************************)
(* The walk stops at operations that are marked, and the recursion does    *)
(* not mark what an open activation has yet to walk over as done: whatever *)
(* follows a marked operation is marked, or will be by an open activation. *)
(***************************************************************************)
NothingSkipped ==
    \A o \in in_use : pc = "mark" =>
        Follows(o) \subseteq in_use \cup Open

(***************************************************************************)
(* The recursion of mark_livecode is never deeper than the operations it   *)
(* has marked, so the list bounds the stack of the program.                *)
(***************************************************************************)
DepthBounded == Len(stack) <= Cardinality(in_use) + 1

(***************************************************************************)
(* mark_livecode returns for every list, loops and all, and with it the    *)
(* analysis.                                                               *)
(***************************************************************************)
Terminates == <>(pc = "done")

=============================================================================
