------------------------- MODULE FlowAnalysisProofs -------------------------
(***************************************************************************)
(* What the liveness analysis guarantees for every list of operations and  *)
(* every finite set of registers.                                          *)
(*                                                                         *)
(* The inductive invariant has four parts: where the loops are (Control),  *)
(* an equation every live_in satisfies at all times (InEquation), what a   *)
(* sweep without a change has established (Swept), and that finished       *)
(* functions stay closed (Finished).                                       *)
(***************************************************************************)
EXTENDS FlowAnalysis, Iteration

(* Where the loops are: the current function runs from first and holds no  *)
(* second PROLOG; while seeking, everything before the first PROLOG is     *)
(* skipped one by one, and afterwards cur is a PROLOG or past the end.     *)
Control ==
    /\ pc \in {"scan", "sweep"} =>
         /\ first \in Ops
         /\ prog[first].kind = "PROLOG"
         /\ first <= cur
         /\ cur <= Len(prog)
         /\ \A k \in (first + 1) .. cur : prog[k].kind # "PROLOG"
    /\ pc = "sweep" =>
         /\ cur = last
         /\ last < Len(prog) => prog[last + 1].kind = "PROLOG"
         /\ first - 1 <= pos
         /\ pos <= last
    /\ pc = "seek" /\ cur <= Len(prog) =>
         \/ prog[cur].kind = "PROLOG"
         \/ \A k \in 1 .. cur : prog[k].kind # "PROLOG"
    /\ pc = "done" => cur > Len(prog)

InEquation ==
    \A o \in Ops :
        /\ live_in[o] = (live_out[o] \ prog[o].def) \cup prog[o].use
        /\ prog[o].kind = "RET" => live_out[o] = {}

OutClosed(o) == \A s \in LocalSucc(o) : live_in[s] \subseteq live_out[o]

Swept ==
    pc = "sweep" /\ ~changed => \A o \in (pos + 1) .. last : OutClosed(o)

Bound == IF pc \in {"scan", "sweep"} THEN first ELSE cur

Finished == \A o \in Ops : InFunction(o) /\ o < Bound => OutClosed(o)

IInv == TypeOK /\ Control /\ InEquation /\ Swept /\ Finished

-----------------------------------------------------------------------------
(* Facts about lists of operations.                                        *)

LEMMA OpsFacts ==
    ASSUME WellFormed(prog)
    PROVE  /\ Len(prog) \in Nat
           /\ Ops = 1 .. Len(prog)
           /\ \A o \in Ops :
                /\ prog[o].kind \in Kinds
                /\ prog[o].use \subseteq Reg
                /\ prog[o].def \subseteq Reg
                /\ prog[o].jmp \in {0} \cup Ops
                /\ prog[o].kind \in {"RET", "PROLOG", "JMPR"} => prog[o].jmp = 0
                /\ IsRef(o) => prog[o].jmp \in Ops
                /\ prog[o].kind = "PROLOG" => prog[o].use = {}
<1>1. Len(prog) \in Nat /\ Ops = 1 .. Len(prog)
  BY DEF WellFormed, Ops
<1>2. ASSUME NEW o \in Ops PROVE prog[o] \in Op
  BY <1>1 DEF WellFormed, Ops
<1>3. QED
  BY <1>1, <1>2 DEF WellFormed, Ops, Op, IsRef

(* The sources flw_analyze_op reads are operations of the list.            *)
LEMMA SourcesAreOps ==
    ASSUME WellFormed(prog), NEW o \in Ops, NEW f \in Ops,
           NEW l \in Ops
    PROVE  Sources(o, f, l) \subseteq Ops
<1>1. CodeRefs(f, l) \subseteq Ops
  BY OpsFacts DEF CodeRefs
<1>2. QED
  BY <1>1, OpsFacts DEF Sources

(* In the function that runs from f to l, the sources flw_analyze_op reads *)
(* are exactly the flow of the operation: no reference of the function is  *)
(* missed and none of another function is taken.                           *)
LEMMA SourcesAreFlow ==
    ASSUME WellFormed(prog), NEW f \in Ops, NEW l \in Ops, NEW o \in f .. l,
           prog[f].kind = "PROLOG",
           \A k \in (f + 1) .. l : prog[k].kind # "PROLOG",
           l < Len(prog) => prog[l + 1].kind = "PROLOG"
    PROVE  Sources(o, f, l) = LocalFlow(o)
<1>1. o \in Ops
  BY OpsFacts
<1>2. \A k \in (f + 1) .. l : SameFunction(o, k)
  BY OpsFacts DEF SameFunction
<1>3. \A k \in AllRefs : SameFunction(o, k) => k \in (f + 1) .. l
  <2>1. SUFFICES ASSUME NEW k \in AllRefs, SameFunction(o, k)
                 PROVE  k \in (f + 1) .. l
    OBVIOUS
  <2>2. k \in Ops /\ prog[k].kind # "PROLOG"
    BY DEF AllRefs, IsRef
  <2>3. f <= k
    BY <2>1, OpsFacts DEF SameFunction
  <2>4. k <= l
    <3>1. CASE l < Len(prog)
      <4>1. l + 1 \in Ops /\ ~(l + 1 <= o)
        BY <3>1, OpsFacts
      <4>2. QED
        BY <2>1, <2>2, <3>1, <4>1, OpsFacts DEF SameFunction
    <3>2. CASE ~(l < Len(prog))
      BY <2>2, <3>2, OpsFacts
    <3>3. QED
      BY <3>1, <3>2
  <2>5. QED
    BY <2>2, <2>3, <2>4, OpsFacts
<1>4. {i \in (f + 1) .. l : IsRef(i)} = {k \in AllRefs : SameFunction(o, k)}
  BY <1>2, <1>3, OpsFacts DEF AllRefs
<1>5. CodeRefs(f, l) = {prog[k].jmp : k \in {j \in AllRefs : SameFunction(o, j)}}
  BY <1>4 DEF CodeRefs
<1>6. QED
  BY <1>5 DEF Sources, LocalFlow, Flow

(* Control flow stays in the list.                                         *)
LEMMA FlowInOps ==
    ASSUME WellFormed(prog), NEW o \in Ops
    PROVE  LocalFlow(o) \subseteq Ops
BY OpsFacts DEF LocalFlow, Flow, AllRefs

(* A RET, and no other kind that flw_analyze_op treats apart, has no       *)
(* successor.                                                              *)
LEMMA RetHasNoFlow ==
    ASSUME WellFormed(prog), NEW o \in Ops, prog[o].kind = "RET"
    PROVE  LocalSucc(o) = {}
BY OpsFacts DEF LocalSucc, LocalFlow, Flow

(* A finite set that grew to the same size did not grow.                   *)
LEMMA SameSizeSameSet ==
    ASSUME NEW S \in SUBSET Reg, NEW T \in SUBSET Reg, S \subseteq T,
           Cardinality(T) = Cardinality(S)
    PROVE  S = T
BY RegAssumption, FS_Subset DEF RegAssumption

-----------------------------------------------------------------------------
(* Type correctness: the loops never leave the list and the live sets only *)
(* hold registers.  It needs Control for the bounds of cur, last and pos.  *)

LEMMA InitIInv == Init => IInv
<1>1. SUFFICES ASSUME Init PROVE IInv
  OBVIOUS
<1>2. WellFormed(prog)
  BY <1>1, ProgramsAssumption DEF Init
<1>3. TypeOK
  <2>1. /\ live_in = [o \in Ops |-> prog[o].use]
        /\ live_out = [o \in Ops |-> {}]
    BY <1>1 DEF Init, Ops
  <2>2. live_in \in [Ops -> SUBSET Reg] /\ live_out \in [Ops -> SUBSET Reg]
    BY <1>2, <2>1, OpsFacts
  <2>3. Len(prog) \in Nat
    BY <1>2, OpsFacts
  <2>4. /\ cur \in 1 .. (Len(prog) + 1)
        /\ first \in 0 .. Len(prog)
        /\ last \in 0 .. Len(prog)
        /\ pos \in 0 .. Len(prog)
    BY <1>1, <2>3 DEF Init
  <2>5. pc \in {"seek", "scan", "sweep", "done"} /\ changed \in BOOLEAN
    BY <1>1 DEF Init
  <2>6. QED
    BY <1>2, <2>2, <2>4, <2>5 DEF TypeOK
<1>4. Control
  BY <1>1, <1>2, OpsFacts DEF Init, Control
<1>5. InEquation
  BY <1>1, <1>2, OpsFacts DEF Init, InEquation, Ops
<1>6. Swept
  BY <1>1 DEF Init, Swept
<1>7. Finished
  BY <1>1, <1>2, OpsFacts DEF Init, Finished, Bound
<1>8. QED
  BY <1>3, <1>4, <1>5, <1>6, <1>7 DEF IInv

(* What one call of flw_analyze_op does to the live sets: they stay sets   *)
(* of registers, the equation of live_in holds afterwards, nothing is      *)
(* lost, and live_out covers the flow of the operation.                    *)
LEMMA AnalyzeOpFacts ==
    ASSUME IInv, AnalyzeOp
    PROVE  /\ pos \in first .. last /\ pos \in Ops
           /\ first \in Ops /\ last \in Ops
           /\ live_in' = [live_in EXCEPT ![pos] = live_in'[pos]]
           /\ live_out' = [live_out EXCEPT ![pos] = live_out'[pos]]
           /\ live_in' \in [Ops -> SUBSET Reg]
           /\ live_out' \in [Ops -> SUBSET Reg]
           /\ live_in'[pos] = (live_out'[pos] \ prog[pos].def) \cup prog[pos].use
           /\ prog[pos].kind = "RET" => live_out'[pos] = {}
           /\ live_in[pos] \subseteq live_in'[pos]
           /\ live_out[pos] \subseteq live_out'[pos]
           /\ \A s \in LocalSucc(pos) : live_in[s] \subseteq live_out'[pos]
           /\ ~changed' => ~changed /\ live_in' = live_in /\ live_out' = live_out
<1> DEFINE out == NewOut(pos, first, last)
           in  == NewIn(pos, out)
<1>1. WellFormed(prog) /\ TypeOK
  BY DEF IInv, TypeOK
<1>2. /\ pos \in first .. last /\ pos \in Ops
      /\ first \in Ops /\ last \in Ops
  BY <1>1, OpsFacts DEF IInv, AnalyzeOp, Control, TypeOK
<1>3. /\ live_in' = [live_in EXCEPT ![pos] = in]
      /\ live_out' = [live_out EXCEPT ![pos] = out]
      /\ changed' = (changed \/ ~SameSize(pos, in, out))
  BY DEF AnalyzeOp
<1>4. live_in'[pos] = in /\ live_out'[pos] = out
  BY <1>1, <1>2, <1>3 DEF TypeOK
<1>5. out \in SUBSET Reg
  BY <1>1, <1>2, SourcesAreOps DEF NewOut, TypeOK
<1>6. in \in SUBSET Reg
  BY <1>1, <1>2, <1>5, OpsFacts DEF NewIn, TypeOK
<1>7. live_out[pos] \subseteq out /\ (prog[pos].kind = "RET" => out = {})
  BY <1>2 DEF IInv, InEquation, NewOut
<1>8. in = (out \ prog[pos].def) \cup prog[pos].use
  BY <1>2, <1>7 DEF IInv, InEquation, NewIn
<1>9. live_in[pos] \subseteq in
  BY <1>2, <1>7, <1>8 DEF IInv, InEquation
<1>10. \A s \in LocalSucc(pos) : live_in[s] \subseteq out
  <2>1. CASE prog[pos].kind = "RET"
    BY <1>1, <1>2, <2>1, RetHasNoFlow
  <2>2. CASE prog[pos].kind # "RET"
    <3>1. Sources(pos, first, last) = LocalFlow(pos)
      BY <1>1, <1>2, SourcesAreFlow DEF IInv, Control, AnalyzeOp
    <3>2. QED
      BY <2>2, <3>1 DEF LocalSucc, NewOut
  <2>3. QED
    BY <2>1, <2>2
<1>11. ~changed' => ~changed /\ live_in' = live_in /\ live_out' = live_out
  <2>1. SUFFICES ASSUME ~changed'
                 PROVE  ~changed /\ live_in' = live_in /\ live_out' = live_out
    OBVIOUS
  <2>2. ~changed /\ SameSize(pos, in, out)
    BY <1>3, <2>1
  <2>3. /\ Cardinality(out) = Cardinality(live_out[pos])
        /\ Cardinality(in) = Cardinality(live_in[pos])
    BY <2>2 DEF SameSize
  <2>4. live_in[pos] \in SUBSET Reg /\ live_out[pos] \in SUBSET Reg
    BY <1>1, <1>2 DEF TypeOK
  <2>5. out = live_out[pos]
    BY <1>5, <1>7, <2>3, <2>4, SameSizeSameSet
  <2>6. in = live_in[pos]
    BY <1>6, <1>9, <2>3, <2>4, SameSizeSameSet
  <2>7. QED
    BY <1>1, <1>3, <2>2, <2>5, <2>6 DEF TypeOK
<1>12. /\ live_in' \in [Ops -> SUBSET Reg]
       /\ live_out' \in [Ops -> SUBSET Reg]
  BY <1>1, <1>3, <1>5, <1>6 DEF TypeOK
<1> HIDE DEF out, in
<1>13. QED
  BY <1>2, <1>3, <1>4, <1>7, <1>8, <1>9, <1>10, <1>11, <1>12

-----------------------------------------------------------------------------
(* The step of the inductive invariant, one lemma per part.                *)

(* No step changes the program, so nothing defined from it changes.        *)
LEMMA ProgUnchanged ==
    ASSUME TypeOK, [Next]_vars
    PROVE  /\ prog' = prog
           /\ Ops' = Ops
           /\ \A o : LocalSucc(o)' = LocalSucc(o)
           /\ \A o : LocalFlow(o)' = LocalFlow(o)
           /\ \A o : InFunction(o)' = InFunction(o)
<1>1. prog' = prog
  BY DEF Next, vars, SkipOp, FoundProlog, ScanOp, BeginFunction, AnalyzeOp,
         SweepAgain, EndFunction, Finish
<1>2. QED
  BY <1>1 DEF Ops, LocalSucc, LocalFlow, Flow, AllRefs, IsRef, SameFunction,
              InFunction

LEMMA TypeOKStep == IInv /\ [Next]_vars => TypeOK'
<1> SUFFICES ASSUME IInv, [Next]_vars PROVE TypeOK'
  OBVIOUS
<1>1. TypeOK /\ WellFormed(prog) /\ prog' = prog /\ Ops' = Ops
  BY ProgUnchanged DEF IInv, TypeOK
<1>2. Len(prog) \in Nat /\ Ops = 1 .. Len(prog)
  BY <1>1, OpsFacts
<1>3. CASE SkipOp
  BY <1>1, <1>2, <1>3 DEF SkipOp, TypeOK
<1>4. CASE FoundProlog
  BY <1>1, <1>2, <1>4 DEF FoundProlog, TypeOK
<1>5. CASE ScanOp
  BY <1>1, <1>2, <1>5 DEF ScanOp, TypeOK
<1>6. CASE BeginFunction
  <2>1. cur \in 0 .. Len(prog)
    BY <1>2, <1>6 DEF BeginFunction, IInv, TypeOK, Control
  <2>2. QED
    BY <1>1, <1>2, <1>6, <2>1 DEF BeginFunction, TypeOK
<1>7. CASE AnalyzeOp
  <2>1. /\ live_in' \in [Ops -> SUBSET Reg] /\ live_out' \in [Ops -> SUBSET Reg]
        /\ pos \in Ops
    BY <1>7, AnalyzeOpFacts
  <2>2. pos' \in 0 .. Len(prog) /\ changed' \in BOOLEAN
    BY <1>1, <1>2, <1>7, <2>1 DEF AnalyzeOp, TypeOK
  <2>3. QED
    BY <1>1, <1>7, <2>1, <2>2 DEF AnalyzeOp, TypeOK
<1>8. CASE SweepAgain
  BY <1>1, <1>2, <1>8 DEF SweepAgain, TypeOK
<1>9. CASE EndFunction
  BY <1>1, <1>2, <1>9 DEF EndFunction, TypeOK
<1>10. CASE Finish
  BY <1>1, <1>2, <1>10 DEF Finish, TypeOK
<1>11. CASE UNCHANGED vars
  <2>1. /\ live_in' = live_in /\ live_out' = live_out /\ pc' = pc
        /\ cur' = cur /\ first' = first /\ last' = last /\ pos' = pos
        /\ changed' = changed
    BY <1>11 DEF vars
  <2>2. QED
    BY <1>1, <2>1 DEF TypeOK
<1>12. QED
  BY <1>3, <1>4, <1>5, <1>6, <1>7, <1>8, <1>9, <1>10, <1>11 DEF Next

LEMMA ControlStep == IInv /\ [Next]_vars => Control'
<1> SUFFICES ASSUME IInv, [Next]_vars PROVE Control'
  OBVIOUS
<1>1. TypeOK /\ Control /\ prog' = prog /\ Ops' = Ops
  BY ProgUnchanged DEF IInv
<1>2. Len(prog) \in Nat /\ Ops = 1 .. Len(prog)
  BY <1>1, OpsFacts DEF TypeOK
<1>3. CASE SkipOp
  BY <1>1, <1>2, <1>3 DEF SkipOp, TypeOK, Control
<1>4. CASE FoundProlog
  BY <1>1, <1>2, <1>4 DEF FoundProlog, TypeOK, Control
<1>5. CASE ScanOp
  BY <1>1, <1>2, <1>5 DEF ScanOp, TypeOK, Control
<1>6. CASE BeginFunction
  BY <1>1, <1>2, <1>6 DEF BeginFunction, TypeOK, Control
<1>7. CASE AnalyzeOp
  BY <1>1, <1>2, <1>7 DEF AnalyzeOp, TypeOK, Control
<1>8. CASE SweepAgain
  BY <1>1, <1>2, <1>8 DEF SweepAgain, TypeOK, Control
<1>9. CASE EndFunction
  BY <1>1, <1>2, <1>9 DEF EndFunction, TypeOK, Control
<1>10. CASE Finish
  BY <1>1, <1>2, <1>10 DEF Finish, TypeOK, Control
<1>11. CASE UNCHANGED vars
  BY <1>1, <1>11 DEF vars, Control
<1>12. QED
  BY <1>3, <1>4, <1>5, <1>6, <1>7, <1>8, <1>9, <1>10, <1>11 DEF Next

(* Every step but AnalyzeOp leaves the live sets alone. *)
LEMMA OnlyAnalyzeOpWrites ==
    ASSUME [Next]_vars, ~AnalyzeOp
    PROVE  live_in' = live_in /\ live_out' = live_out
BY DEF Next, vars, SkipOp, FoundProlog, ScanOp, BeginFunction, SweepAgain,
       EndFunction, Finish

LEMMA InEquationStep == IInv /\ [Next]_vars => InEquation'
<1> SUFFICES ASSUME IInv, [Next]_vars PROVE InEquation'
  OBVIOUS
<1>1. TypeOK /\ InEquation /\ prog' = prog /\ Ops' = Ops
  BY ProgUnchanged DEF IInv
<1>2. CASE AnalyzeOp
  <2>1. SUFFICES ASSUME NEW o \in Ops
                 PROVE  /\ live_in'[o] = (live_out'[o] \ prog[o].def)
                                           \cup prog[o].use
                        /\ prog[o].kind = "RET" => live_out'[o] = {}
    BY <1>1 DEF InEquation
  <2>2. CASE o = pos
    BY <1>2, <2>2, AnalyzeOpFacts
  <2>3. CASE o # pos
    BY <1>1, <1>2, <2>3, AnalyzeOpFacts DEF InEquation, TypeOK
  <2>4. QED
    BY <2>2, <2>3
<1>3. CASE ~AnalyzeOp
  BY <1>1, <1>3, OnlyAnalyzeOpWrites DEF InEquation
<1>4. QED
  BY <1>2, <1>3

(* A sweep without a change has closed every operation it passed.  Once    *)
(* something changes the claim is dropped until the next sweep starts.     *)
LEMMA SweptStep == IInv /\ [Next]_vars => Swept'
<1> SUFFICES ASSUME IInv, [Next]_vars PROVE Swept'
  OBVIOUS
<1>1. /\ TypeOK /\ Control /\ Swept /\ prog' = prog /\ Ops' = Ops
      /\ \A o : LocalSucc(o)' = LocalSucc(o)
  BY ProgUnchanged DEF IInv
<1>2. Len(prog) \in Nat /\ Ops = 1 .. Len(prog)
  BY <1>1, OpsFacts DEF TypeOK
<1>3. CASE AnalyzeOp
  <2>1. SUFFICES ASSUME ~changed', NEW o \in pos .. last
                 PROVE  OutClosed(o)'
    BY <1>1, <1>2, <1>3 DEF AnalyzeOp, Swept, TypeOK
  <2>2. ~changed /\ live_in' = live_in /\ live_out' = live_out
    BY <1>3, <2>1, AnalyzeOpFacts
  <2>3. OutClosed(o)
    <3>1. CASE o = pos
      BY <1>3, <2>2, <3>1, AnalyzeOpFacts DEF OutClosed
    <3>2. CASE o # pos
      BY <1>1, <1>2, <1>3, <2>2, <3>2 DEF Swept, AnalyzeOp, TypeOK
    <3>3. QED
      BY <3>1, <3>2
  <2>4. QED
    BY <1>1, <2>2, <2>3 DEF OutClosed
<1>4. CASE BeginFunction \/ SweepAgain
  BY <1>1, <1>2, <1>4 DEF BeginFunction, SweepAgain, Swept, TypeOK
<1>5. CASE SkipOp \/ FoundProlog \/ ScanOp \/ EndFunction \/ Finish
  BY <1>5 DEF SkipOp, FoundProlog, ScanOp, EndFunction, Finish, Swept
<1>6. CASE UNCHANGED vars
  BY <1>1, <1>6 DEF vars, Swept, OutClosed
<1>7. QED
  BY <1>3, <1>4, <1>5, <1>6 DEF Next

(* A finished function stays closed: a sweep only writes the sets of the   *)
(* current function, and no successor lies in another one.                 *)
LEMMA FinishedStep == IInv /\ [Next]_vars => Finished'
<1> SUFFICES ASSUME IInv, [Next]_vars PROVE Finished'
  OBVIOUS
<1>1. /\ TypeOK /\ Control /\ Finished /\ prog' = prog /\ Ops' = Ops
      /\ \A o : LocalSucc(o)' = LocalSucc(o)
      /\ \A o : InFunction(o)' = InFunction(o)
  BY ProgUnchanged DEF IInv
<1>2. Len(prog) \in Nat /\ Ops = 1 .. Len(prog)
  BY <1>1, OpsFacts DEF TypeOK
<1>3. CASE AnalyzeOp
  <2>1. pc = "sweep" /\ pc' = "sweep" /\ first' = first /\ first \in Ops
    BY <1>1, <1>3 DEF AnalyzeOp, Control
  <2>2. SUFFICES ASSUME NEW o \in Ops, InFunction(o), o < first,
                        NEW s \in LocalSucc(o)
                 PROVE  live_in'[s] \subseteq live_out'[o]
    BY <1>1, <2>1 DEF Finished, Bound, OutClosed
  <2>3. live_in[s] \subseteq live_out[o]
    BY <1>1, <2>1, <2>2 DEF Finished, Bound, OutClosed
  <2>4. pos \in first .. last
    BY <1>3, AnalyzeOpFacts
  <2>5. o # pos
    BY <1>2, <2>1, <2>2, <2>4
  <2>6. s # pos
    BY <1>1, <1>2, <2>1, <2>2, <2>4 DEF LocalSucc, SameFunction, Control
  <2>7. s \in Ops
    BY <1>1, <2>2, FlowInOps DEF LocalSucc, TypeOK
  <2>8. live_in'[s] = live_in[s] /\ live_out'[o] = live_out[o]
    BY <1>1, <1>3, <2>5, <2>6, <2>7, AnalyzeOpFacts DEF TypeOK
  <2>9. QED
    BY <2>3, <2>8
<1>4. CASE EndFunction
  <2>1. /\ live_in' = live_in /\ live_out' = live_out
        /\ pc' = "seek" /\ cur' = last + 1
    BY <1>4 DEF EndFunction
  <2>2. \A o \in first .. last : OutClosed(o)
    BY <1>1, <1>2, <1>4 DEF IInv, Swept, EndFunction, Control, TypeOK
  <2>3. \A o \in Ops : InFunction(o) /\ o < last + 1 => OutClosed(o)
    BY <1>1, <1>2, <1>4, <2>2 DEF Finished, Bound, EndFunction, TypeOK
  <2>4. QED
    BY <1>1, <2>1, <2>3 DEF Finished, Bound, OutClosed
<1>5. CASE SkipOp
  <2>1. /\ live_in' = live_in /\ live_out' = live_out
        /\ pc = "seek" /\ pc' = "seek" /\ cur' = cur + 1
    BY <1>5 DEF SkipOp
  <2>2. ~InFunction(cur)
    BY <1>1, <1>2, <1>5 DEF SkipOp, Control, InFunction, TypeOK
  <2>3. \A o \in Ops : InFunction(o) /\ o < cur + 1 => OutClosed(o)
    BY <1>1, <1>2, <2>1, <2>2 DEF Finished, Bound, TypeOK
  <2>4. QED
    BY <1>1, <2>1, <2>3 DEF Finished, Bound, OutClosed
<1>6. CASE FoundProlog \/ ScanOp \/ BeginFunction \/ SweepAgain \/ Finish
      \/ UNCHANGED vars
  <2>1. live_in' = live_in /\ live_out' = live_out /\ Bound' = Bound
    BY <1>6 DEF FoundProlog, ScanOp, BeginFunction, SweepAgain, Finish, vars,
                Bound
  <2>2. QED
    BY <1>1, <2>1 DEF Finished, OutClosed
<1>7. QED
  BY <1>3, <1>4, <1>5, <1>6 DEF Next

LEMMA IInvStep == IInv /\ [Next]_vars => IInv'
BY TypeOKStep, ControlStep, InEquationStep, SweptStep, FinishedStep DEF IInv

LEMMA Invariance == Spec => []IInv
<1>1. Init => IInv
  BY InitIInv
<1>2. IInv /\ [Next]_vars => IInv'
  BY IInvStep
<1>3. QED
  BY <1>1, <1>2, PTL DEF Spec

(* Type correctness: the loops of jit_flw_analysis never leave the list,   *)
(* and the live sets only ever hold registers.                             *)
THEOREM TypeCorrect == Spec => []TypeOK
BY Invariance, PTL DEF IInv

LEMMA SoundState == IInv => Sound
<1>1. SUFFICES ASSUME IInv, pc = "done", NEW o \in Ops, InFunction(o)
               PROVE  Closed(o)
  BY DEF Sound
<1>2. o < Bound
  BY <1>1, OpsFacts DEF IInv, TypeOK, Control, Bound
<1>3. QED
  BY <1>1, <1>2 DEF IInv, Finished, InEquation, OutClosed, Closed

(* Soundness: whatever the program, when the analysis returns every        *)
(* operation of a function satisfies its dataflow equation against every   *)
(* successor inside the function.                                          *)
THEOREM Soundness == Spec => []Sound
  BY SoundState, Invariance, PTL

(* Comparing sizes is enough: no step of the analysis takes a register out *)
(* of a live set.                                                          *)
THEOREM Monotonicity == Spec => Grows
<1>1. IInv /\ [Next]_vars =>
        [\A o \in Ops : /\ live_in[o] \subseteq live_in'[o]
                        /\ live_out[o] \subseteq live_out'[o]]_vars
  <2>1. SUFFICES ASSUME IInv, [Next]_vars, NEW o \in Ops
                 PROVE  /\ live_in[o] \subseteq live_in'[o]
                        /\ live_out[o] \subseteq live_out'[o]
    OBVIOUS
  <2>2. CASE AnalyzeOp
    <3>1. CASE o = pos
      BY <2>1, <2>2, <3>1, AnalyzeOpFacts
    <3>2. CASE o # pos
      BY <2>1, <2>2, <3>2, AnalyzeOpFacts DEF IInv, TypeOK
    <3>3. QED
      BY <3>1, <3>2
  <2>3. CASE ~AnalyzeOp
    BY <2>1, <2>3, OnlyAnalyzeOpWrites
  <2>4. QED
    BY <2>2, <2>3
<1>2. QED
  BY <1>1, Invariance, PTL DEF Spec, Grows

-----------------------------------------------------------------------------
(* Precision.  At every moment, finished or not, the live sets lie inside  *)
(* any solution of the dataflow equations.                                 *)

Inside ==
    \A X \in [Ops -> SUBSET Reg] : Solution(X) =>
        \A o \in Ops : /\ live_in[o] \subseteq X[o]
                       /\ live_out[o] \subseteq UNION {X[s] : s \in LocalFlow(o)}

LEMMA InsideStep == IInv /\ Inside /\ [Next]_vars => Inside'
<1> SUFFICES ASSUME IInv, Inside, [Next]_vars PROVE Inside'
  OBVIOUS
<1>1. /\ TypeOK /\ WellFormed(prog) /\ prog' = prog /\ Ops' = Ops
      /\ \A o : LocalFlow(o)' = LocalFlow(o)
  BY ProgUnchanged DEF IInv, TypeOK
<1>2. \A X : Solution(X)' <=> Solution(X)
  BY <1>1 DEF Solution
<1>3. CASE AnalyzeOp
  <2>1. SUFFICES ASSUME NEW X \in [Ops -> SUBSET Reg], Solution(X),
                        NEW o \in Ops
                 PROVE  /\ live_in'[o] \subseteq X[o]
                        /\ live_out'[o] \subseteq
                             UNION {X[s] : s \in LocalFlow(o)}
    BY <1>1, <1>2 DEF Inside
  <2>2. CASE o # pos
    BY <1>1, <1>3, <2>1, <2>2, AnalyzeOpFacts DEF Inside, TypeOK
  <2>3. CASE o = pos
    <3>1. live_out'[pos] = NewOut(pos, first, last)
      BY <1>1, <1>3, AnalyzeOpFacts DEF AnalyzeOp, TypeOK
    <3>2. Sources(pos, first, last) = LocalFlow(pos)
      BY <1>1, <1>3, AnalyzeOpFacts, SourcesAreFlow DEF IInv, Control, AnalyzeOp
    <3>3. \A s \in LocalFlow(pos) : live_in[s] \subseteq X[s]
      BY <1>1, <2>1, <2>3, FlowInOps DEF Inside
    <3>4. live_out'[pos] \subseteq UNION {X[s] : s \in LocalFlow(pos)}
      BY <2>1, <2>3, <3>1, <3>2, <3>3 DEF NewOut, Inside
    <3>5. live_in'[pos] \subseteq X[pos]
      BY <1>3, <2>1, <2>3, <3>4, AnalyzeOpFacts DEF Solution
    <3>6. QED
      BY <2>3, <3>4, <3>5
  <2>4. QED
    BY <2>2, <2>3
<1>4. CASE ~AnalyzeOp
  BY <1>1, <1>2, <1>4, OnlyAnalyzeOpWrites DEF Inside
<1>5. QED
  BY <1>3, <1>4

(* The result is the least solution: a register is live only if every      *)
(* solution of the dataflow equations says so.                             *)
THEOREM Leastness == Spec => []Least
<1>1. Init => Inside
  <2>1. SUFFICES ASSUME Init PROVE Inside
    OBVIOUS
  <2>2. \A o \in Ops : live_in[o] = prog[o].use /\ live_out[o] = {}
    BY <2>1 DEF Init, Ops
  <2>3. QED
    BY <2>2 DEF Inside, Solution
<1>2. IInv /\ Inside /\ [Next]_vars => Inside'
  BY InsideStep
<1>3. Inside => Least
  BY DEF Inside, Least
<1>4. QED
  BY <1>1, <1>2, <1>3, Invariance, PTL DEF Spec
-----------------------------------------------------------------------------
(* The path definition.  ReadOnPath follows paths of at most Len(prog)     *)
(* operations; it is a solution of its equations, and the least one.       *)

Uses == [o \in Ops |-> prog[o].use]
Defs == [o \in Ops |-> prog[o].def]
LocalSuccs == [o \in Ops |-> LocalSucc(o)]
LocalFlows == [o \in Ops |-> LocalFlow(o)]

LEMMA PathFacts ==
    ASSUME WellFormed(prog)
    PROVE  /\ Len(prog) \in Nat
           /\ Ops = 1 .. Len(prog)
           /\ Uses \in [1 .. Len(prog) -> SUBSET Reg]
           /\ LocalSuccs \in [1 .. Len(prog) -> SUBSET (1 .. Len(prog))]
           /\ LocalFlows \in [1 .. Len(prog) -> SUBSET (1 .. Len(prog))]
<1>1. Len(prog) \in Nat /\ Ops = 1 .. Len(prog) /\ Uses \in [1 .. Len(prog) -> SUBSET Reg]
  BY OpsFacts DEF Uses
<1>2. \A o \in Ops : LocalFlow(o) \subseteq Ops /\ LocalSucc(o) \subseteq Ops
  BY FlowInOps DEF LocalSucc
<1> QED
  BY <1>1, <1>2 DEF LocalSuccs, LocalFlows

LEMMA MustIsChain ==
    ASSUME WellFormed(prog)
    PROVE  \E R : /\ ReadChain(R, Len(prog), Uses, Defs, LocalSuccs)
                  /\ ReadOnPath(LocalSucc) = R[Len(prog)]
<1> DEFINE N == Len(prog)
           Defined(R) == R = [k \in 0 .. N |->
             IF k = 0 THEN [o \in Ops |-> prog[o].use]
             ELSE [o \in Ops |-> prog[o].use \cup
                     ((UNION {R[k - 1][s] : s \in LocalSucc(o)}) \ prog[o].def)]]
           R == CHOOSE R : Defined(R)
<1>1. \A r : ReadStep(N, Uses, Defs, LocalSuccs, r) =
               [o \in Ops |-> prog[o].use \cup
                  ((UNION {r[s] : s \in LocalSucc(o)}) \ prog[o].def)]
  BY PathFacts DEF ReadStep, Uses, Defs, LocalSuccs
<1>2. ASSUME NEW Q PROVE IsReads(Q, N, Uses, Defs, LocalSuccs) <=> Defined(Q)
  <2>1. ASSUME NEW k \in 0 .. N
        PROVE  (IF k = 0 THEN Uses ELSE ReadStep(N, Uses, Defs, LocalSuccs, Q[k - 1])) =
               (IF k = 0 THEN [o \in Ops |-> prog[o].use]
                ELSE [o \in Ops |-> prog[o].use \cup
                        ((UNION {Q[k - 1][s] : s \in LocalSucc(o)}) \ prog[o].def)])
    BY <1>1, Zenon DEF Uses
  <2> QED
    BY <2>1, Zenon DEF IsReads
<1>3. \E Q : Defined(Q)
  <2>1. N \in Nat /\ Uses \in [1 .. N -> SUBSET Reg] /\ LocalSuccs \in [1 .. N -> SUBSET (1 .. N)]
    BY PathFacts
  <2> HIDE DEF N
  <2>2. \E Q : IsReads(Q, N, Uses, Defs, LocalSuccs)
    BY <2>1, ReadsExist
  <2> QED
    BY <1>2, <2>2
<1>4. ReadOnPath(LocalSucc) = R[N]
  BY DEF ReadOnPath
<1>5. Defined(R)
  <2> HIDE DEF Defined
  <2> QED
    BY <1>3
<1>6. ReadChain(R, N, Uses, Defs, LocalSuccs)
  <2>1. IsReads(R, N, Uses, Defs, LocalSuccs)
    BY <1>2, <1>5
  <2> HIDE DEF R
  <2> QED
    BY <2>1, PathFacts, ReadsAreChain
<1> QED
  BY <1>4, <1>6

LEMMA MayIsChain ==
    ASSUME WellFormed(prog)
    PROVE  \E R : /\ ReadChain(R, Len(prog), Uses, Defs, LocalFlows)
                  /\ ReadOnPath(LocalFlow) = R[Len(prog)]
<1> DEFINE N == Len(prog)
           Defined(R) == R = [k \in 0 .. N |->
             IF k = 0 THEN [o \in Ops |-> prog[o].use]
             ELSE [o \in Ops |-> prog[o].use \cup
                     ((UNION {R[k - 1][s] : s \in LocalFlow(o)}) \ prog[o].def)]]
           R == CHOOSE R : Defined(R)
<1>1. \A r : ReadStep(N, Uses, Defs, LocalFlows, r) =
               [o \in Ops |-> prog[o].use \cup
                  ((UNION {r[s] : s \in LocalFlow(o)}) \ prog[o].def)]
  BY PathFacts DEF ReadStep, Uses, Defs, LocalFlows
<1>2. ASSUME NEW Q PROVE IsReads(Q, N, Uses, Defs, LocalFlows) <=> Defined(Q)
  <2>1. ASSUME NEW k \in 0 .. N
        PROVE  (IF k = 0 THEN Uses ELSE ReadStep(N, Uses, Defs, LocalFlows, Q[k - 1])) =
               (IF k = 0 THEN [o \in Ops |-> prog[o].use]
                ELSE [o \in Ops |-> prog[o].use \cup
                        ((UNION {Q[k - 1][s] : s \in LocalFlow(o)}) \ prog[o].def)])
    BY <1>1, Zenon DEF Uses
  <2> QED
    BY <2>1, Zenon DEF IsReads
<1>3. \E Q : Defined(Q)
  <2>1. N \in Nat /\ Uses \in [1 .. N -> SUBSET Reg] /\ LocalFlows \in [1 .. N -> SUBSET (1 .. N)]
    BY PathFacts
  <2> HIDE DEF N
  <2>2. \E Q : IsReads(Q, N, Uses, Defs, LocalFlows)
    BY <2>1, ReadsExist
  <2> QED
    BY <1>2, <2>2
<1>4. ReadOnPath(LocalFlow) = R[N]
  BY DEF ReadOnPath
<1>5. Defined(R)
  <2> HIDE DEF Defined
  <2> QED
    BY <1>3
<1>6. ReadChain(R, N, Uses, Defs, LocalFlows)
  <2>1. IsReads(R, N, Uses, Defs, LocalFlows)
    BY <1>2, <1>5
  <2> HIDE DEF R
  <2> QED
    BY <2>1, PathFacts, ReadsAreChain
<1> QED
  BY <1>4, <1>6

LEMMA MustBelow ==
    ASSUME IInv, pc = "done", NEW o \in Ops, InFunction(o)
    PROVE  ReadOnPath(LocalSucc)[o] \subseteq live_in[o]
<1> DEFINE N == Len(prog)
           X == [k \in Ops |-> IF InFunction(k) THEN live_in[k] ELSE Reg]
<1>1. WellFormed(prog) /\ live_in \in [Ops -> SUBSET Reg] /\ Ops = 1 .. N /\ N \in Nat
  BY OpsFacts DEF IInv, TypeOK
<1>2. ASSUME NEW k \in Ops
      PROVE  Uses[k] \subseteq X[k] /\ \A s \in LocalSuccs[k] : X[s] \ Defs[k] \subseteq X[k]
  <2>1. CASE InFunction(k)
    <3>1. Closed(k)
      BY <2>1, SoundState DEF Sound
    <3>2. \A s \in LocalSucc(k) : s \in Ops /\ InFunction(s)
      BY <1>1, <2>1, FlowInOps DEF LocalSucc, SameFunction, InFunction
    <3> QED
      BY <2>1, <3>1, <3>2 DEF Closed, Uses, Defs, LocalSuccs
  <2>2. CASE ~InFunction(k)
    <3>1. \A s \in LocalSucc(k) : s \in Ops
      BY <1>1, FlowInOps DEF LocalSucc
    <3> QED
      BY <1>1, <2>2, <3>1, OpsFacts DEF Uses, Defs, LocalSuccs
  <2> QED
    BY <2>1, <2>2
<1>3. Solves(X, N, Uses, Defs, LocalSuccs)
  BY <1>1, <1>2 DEF Solves
<1>4. PICK R : ReadChain(R, N, Uses, Defs, LocalSuccs) /\ ReadOnPath(LocalSucc) = R[N]
  BY <1>1, MustIsChain
<1>5. R[N][o] \subseteq X[o]
  <2> HIDE DEF X
  <2>1. \A k \in 0 .. N, q \in 1 .. N : R[k][q] \subseteq X[q]
    BY <1>1, <1>3, <1>4, PathFacts, ReadChainInSolution
  <2> QED
    BY <1>1, <2>1
<1> QED
  BY <1>4, <1>5

LEMMA MayAbove ==
    ASSUME IInv, Least, pc = "done", NEW o \in Ops
    PROVE  live_in[o] \subseteq ReadOnPath(LocalFlow)[o]
<1> DEFINE N == Len(prog)
           X == ReadOnPath(LocalFlow)
<1>1. WellFormed(prog) /\ Ops = 1 .. N /\ N \in Nat
  BY OpsFacts DEF IInv, TypeOK
<1>2. PICK R : ReadChain(R, N, Uses, Defs, LocalFlows) /\ X = R[N]
  BY <1>1, MayIsChain
<1> HIDE DEF X
<1>3. X \in [Ops -> SUBSET Reg] /\ X = ReadStep(N, Uses, Defs, LocalFlows, X)
  BY <1>1, <1>2, PathFacts, ReadChainTyped, ReadChainSettles
<1>4. ASSUME NEW k \in Ops
      PROVE  prog[k].use \subseteq X[k] /\ \A s \in LocalFlow(k) : X[s] \ prog[k].def \subseteq X[k]
  <2>1. X[k] = Uses[k] \cup ((UNION {X[s] : s \in LocalFlows[k]}) \ Defs[k])
    BY <1>1, <1>3 DEF ReadStep
  <2> QED
    BY <2>1 DEF Uses, Defs, LocalFlows
<1>5. Solution(X)
  BY <1>4 DEF Solution
<1> QED
  BY <1>3, <1>5 DEF Least, X

(* Exactness: whatever the program, when the analysis returns the live     *)
(* registers lie between those some path inside the function reads before  *)
(* writing them and those some path of the whole list does.                *)
THEOREM Exactness == Spec => []LiveExact
<1>1. IInv /\ Least => LiveExact
  BY MustBelow, MayAbove DEF LiveExact
<1>2. QED
  BY <1>1, Invariance, Leastness, PTL
=============================================================================
