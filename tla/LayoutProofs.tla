---------------------------- MODULE LayoutProofs ----------------------------
(***************************************************************************)
(* Where the code of every operation lies, and where it leads: that the    *)
(* code which CodeBuffer makes of a program keeps the promises of          *)
(* Assembly, for every program, every heap and every size of the buffer.   *)
(*                                                                         *)
(* KeptInv says what the passes over the list leave of it, LayoutInv where *)
(* the operations lie while code is written, moved and patched.  At the    *)
(* end (Finished) cells, targets and places are read off.                  *)
(***************************************************************************)
EXTENDS CodeBufferProofs

-----------------------------------------------------------------------------
(* What the later passes keep of the list.                                 *)

(* o stands for an item of the program as it was given, or was made by a   *)
(* pass: the head of the list, a spill, the jump and the patch of an       *)
(* adjusted branch.                                                        *)
Stands(o) ==
    /\ IF ops[o].item = 0
       THEN /\ ops[o].kind \in {"CODESTART", "FULL_SPILL", "JMP", "PATCH"}
            /\ ops[o].kind = "FULL_SPILL" => ops[o].n = 1
            /\ ops[o].kind = "JMP" => ops[o].n = 2
       ELSE /\ ops[o].item \in DOMAIN source
            /\ ops[o].kind = source[ops[o].item].kind
            /\ ops[o].n = source[ops[o].item].n
    /\ o = CODESTART => ops[o].kind = "CODESTART" /\ ops[o].item = 0

(* What refers leads to a LABEL, or to the PATCH that leads back to it.    *)
Wired(o) ==
    /\ ops[o].kind \in Refers =>
         LET q == ops[o].jmp_addr
         IN /\ q \in alive
            /\ \/ ops[q].kind = "LABEL" /\ ops[o].arg = q
               \/ ops[q].kind = "PATCH" /\ ops[q].arg = o /\ ~IsLabel(ops[o].arg)
    /\ ops[o].kind = "PATCH" =>
         LET t == ops[o].arg
         IN t \in alive /\ ops[t].kind \in Refers /\ ops[t].jmp_addr = o

(* The jump that branch_adjustment puts behind the branch it turns around. *)
MadeJump(o) == ops[o].item = 0 /\ ops[o].kind = "JMP"

(* A turned branch steps over the made jump behind it, and only there such *)
(* a jump stands.                                                          *)
TurnedRight(o) ==
    /\ ops[o].turned =>
         /\ ops[o].kind = "BRANCH"
         /\ next[o] \in alive /\ MadeJump(next[o])
         /\ next[next[o]] = ops[o].jmp_addr /\ ops[ops[o].jmp_addr].kind = "PATCH"
    /\ next[o] # 0 /\ MadeJump(next[o]) => ops[o].turned

(* Directly or by its made jump, what refers leads where the program says. *)
Aims(o) ==
    ops[o].item # 0 /\ ops[o].kind \in Refers =>
      ops[ops[IF ops[o].turned THEN next[o] ELSE o].jmp_addr].item = source[ops[o].item].to

(* The jump back of a transfer loop knows its TRANSFER.                    *)
Loops(o) ==
    ops[o].kind = "TRANSFER_CPY" /\ ops[o].item \in Reached(source) =>
      ops[o].arg \in alive /\ ops[ops[o].arg].item = source[ops[o].item].to

(* Spills stand in front of an operation that occupies cells.              *)
Spilled(o) ==
    ops[o].kind = "FULL_SPILL" =>
      /\ next[o] \in alive
      /\ ops[next[o]].kind = "FULL_SPILL" \/ ops[next[o]].item \in CodeNamed(source)

(* What has to stay in the code.                                           *)
Used(o) == ops[o].item \in Reached(source) \/ MadeJump(o)

Core(o) == Stands(o) /\ Wired(o) /\ TurnedRight(o) /\ Aims(o) /\ Loops(o) /\ Spilled(o)

(* What holds of an operation from the dead-code pass on.                  *)
KeptOp(o) == Core(o) /\ (Used(o) => ops[o].in_use)

(* Nothing that is reached, and no directive, is missing.                  *)
Present ==
    \A i \in DOMAIN source :
      i \in Reached(source) \/ source[i].kind \in Directives => \E o \in alive : ops[o].item = i

(* The operations stand in the order of the program.                       *)
Ordered(s, n) ==
    \A j, k \in 1 .. n : j < k /\ ops[s[k]].item # 0 => ops[s[j]].item < ops[s[k]].item

(* What holds of the list s, of n operations. The pass that adjusts        *)
(* branches has turned only what lies behind it.                           *)
Kept(s, n) ==
    /\ Ordered(s, n)
    /\ \A o \in alive : KeptOp(o)
    /\ Present
    /\ pass = "delete" => \A o \in alive :
          /\ ~ops[o].turned
          /\ ops[o].kind \in Directives => ops[o].in_use
          /\ ops[o].item = 0 => ops[o].kind \in {"CODESTART", "FULL_SPILL"}
    /\ pass = "branches" => \A j, k \in 1 .. n : cur = s[k] /\ ops[s[j]].turned => j < k

(* The invariant of the list, from the dead-code pass to the end.          *)
KeptInv ==
    pass \in {"delete", "branches", "room", "emit", "addresses"} =>
      \E n, s : Path(s, n, alive, next, prev) /\ Kept(s, n)

(* The same before the dead-code pass, where patches are being made.       *)
SpillInv ==
    /\ pass \in {"build", "spills"} => \A o \in alive : ops[o].in_use /\ ~ops[o].turned
    /\ pass = "spills" => \A o \in alive :
        /\ ops[o].kind \in Refers /\ ops[ops[o].jmp_addr].kind = "LABEL" =>
             ops[o].arg = ops[o].jmp_addr
        /\ ops[o].kind = "TRANSFER_CPY" =>
             ops[o].arg \in alive /\ ops[ops[o].arg].item = source[ops[o].item].to
        /\ Spilled(o)

LEMMA SpillInit ==
    ASSUME Init
    PROVE  SpillInv
  <1>1. \A o \in alive : ops[o].in_use /\ ~ops[o].turned
    BY StartFacts DEF Init, NewOp
  <1> QED
    BY <1>1 DEF Init, SpillInv

LEMMA AddSpill ==
    ASSUME ListIInv, SpillInv, AddOp
    PROVE  SpillInv'
  <1>1. pass = "build" /\ pass' = "build"
    BY DEF AddOp
  <1>2. PICK new, x :
          /\ new \in Ids \ alive
          /\ ops' = [ops EXCEPT ![new] = x] /\ x.in_use /\ ~x.turned
          /\ alive' = alive \cup {new}
    <2> DEFINE i == Added + 1
               x == NewOp(source[i].kind, i, ArgOf(i), source[i].n)
    <2>1. PICK new \in Ids \ alive : ops' = [ops EXCEPT ![new] = x] /\ alive' = alive \cup {new}
      BY DEF AddOp, Obtainable
    <2>2. x.in_use /\ ~x.turned
      BY DEF NewOp
    <2> HIDE DEF x
    <2> QED
      BY <2>1, <2>2
  <1>3. ops \in [Ids -> Op] /\ alive \subseteq Ids
    BY DEF ListIInv, ListInv, ListTyped
  <1>4. \A o \in alive' : ops'[o].in_use /\ ~ops'[o].turned
    BY <1>1, <1>2, <1>3 DEF SpillInv
  <1> QED
    BY <1>1, <1>4 DEF SpillInv

LEMMA ExpandSpill ==
    ASSUME ListIInv, ListIInv', SpillInv, ExpandPatchesAndLabels
    PROVE  SpillInv'
  <1>0. /\ ListTyped /\ pass = "build" /\ pass' = "spills" /\ source' = source /\ alive' = alive
        /\ next' = next /\ prev' = prev /\ ops[CODESTART].kind = "CODESTART" /\ Added = Len(source)
        /\ alive \subseteq Ids /\ ops \in [Ids -> Op] /\ source \in Programs
    BY DEF ListIInv, ListInv, ListTyped, ExpandPatchesAndLabels, Goto, list
  <1>1. PICK n, s : Path(s, n, alive, next, prev) /\ Building(s, n)
    BY <1>0 DEF ListIInv, ListInv, Shape
  <1>2. PICK m, t : Path(t, m, alive', next', prev') /\ Laid(t, m)'
    BY <1>0 DEF ListIInv, ListInv, Shape
  <1>3. \A o \in Ids : /\ ops'[o].kind = ops[o].kind /\ ops'[o].item = ops[o].item
                       /\ ops'[o].arg = ops[o].arg /\ ops'[o].in_use = ops[o].in_use
                       /\ ops'[o].turned = ops[o].turned
    <2>1. \A o \in Ids : \E x : ops'[o] = [ops[o] EXCEPT !.jmp_addr = x]
      BY DEF ExpandPatchesAndLabels
    <2>2. \A o \in Ids : ops[o] \in Op
      BY <1>0
    <2> QED
      BY <2>1, <2>2 DEF Op
  <1>4. /\ n - 1 = Len(source) /\ DOMAIN source = 1 .. n - 1 /\ n \in Nat \ {0}
        /\ \A i \in 1 .. n - 1 : /\ s[i + 1] \in alive /\ ops[s[i + 1]].item = i
                                 /\ ops[s[i + 1]].kind = source[i].kind /\ Pointed(s, i)
        /\ \A o \in alive : o # CODESTART => \E i \in 1 .. n - 1 : o = s[i + 1]
    BY <1>0, <1>1, BuildingFacts, ProgramFacts DEF Building
  <1>5. \A i \in 1 .. n - 1, o \in alive : ops[o].item = i => o = s[i + 1]
    <2>1. ops[CODESTART].item = 0
      BY <1>1 DEF Building
    <2> QED
      BY <1>4, <2>1
  <1>6. ASSUME NEW o \in alive, ops[o].kind \in Refers \cup {"TRANSFER_CPY", "FULL_SPILL"}
        PROVE  \E i \in 1 .. n - 1 : o = s[i + 1] /\ i = ops[o].item /\ source[i].kind = ops[o].kind
    <2>1. o # CODESTART
      BY <1>0, <1>6 DEF Refers
    <2> QED
      BY <1>4, <2>1
  <1>7. ASSUME NEW o \in alive, ops[o].kind \in Refers, ops'[ops'[o].jmp_addr].kind = "LABEL"
        PROVE  ops'[o].arg = ops'[o].jmp_addr
    <2>1. PICK i \in 1 .. n - 1 : o = s[i + 1] /\ i = ops[o].item /\ source[i].kind = ops[o].kind
      BY <1>6, <1>7
    <2> DEFINE to == source[i].to
               q == ops'[o].jmp_addr
    <2>2. q \in alive /\ ops[q].item = to
      <3>1. ListTyped' /\ ops'[CODESTART].kind = "CODESTART" /\ ops'[o].kind \in Refers /\ o \in alive'
        BY <1>0, <1>3, <1>7 DEF ListIInv, ListInv
      <3>2. Resolved(o)'
        <4>1. PICK j \in 1 .. m : o = t[j]
          BY <1>0, <1>2 DEF Path
        <4>2. ops'[o].item # 0
          <5>1. o \in Ids /\ i # 0
            BY <1>0, <1>4
          <5>2. ops'[o].item = ops[o].item
            BY <1>3, <5>1
          <5> QED
            BY <2>1, <5>1, <5>2
        <4>3. j \in 2 .. m
          BY <1>2, <4>1, <4>2 DEF Laid, Path
        <4> QED
          BY <1>2, <4>1, <4>2, <4>3 DEF Laid
      <3> QED
        BY <1>0, <1>3, <2>1, <3>1, <3>2 DEF Resolved
    <2>3. ops[q].kind = "LABEL" /\ (to \in 1 .. i - 1 \/ to \in i + 1 .. Len(source))
      BY <1>0, <1>3, <1>4, <1>7, <2>1, <2>2, ProgramFacts
    <2>4. to \in 1 .. n - 1
      BY <1>4, <2>3
    <2> HIDE DEF q
    <2>5. q = s[to + 1] /\ source[to].kind = "LABEL"
      BY <1>4, <1>5, <2>2, <2>3, <2>4
    <2>6. to \in 1 .. i - 1 /\ source[i].kind # "PATCH"
      BY <1>0, <1>4, <1>7, <2>1, <2>5, ProgramFacts DEF Refers
    <2>7. ops[o].arg = s[to + 1]
      BY <1>4, <2>1, <2>6 DEF Pointed
    <2> QED
      BY <1>0, <1>3, <2>5, <2>7 DEF q
  <1>8. ASSUME NEW o \in alive, ops[o].kind = "TRANSFER_CPY"
        PROVE  ops[o].arg \in alive /\ ops[ops[o].arg].item = source[ops[o].item].to
    <2>1. PICK i \in 1 .. n - 1 : o = s[i + 1] /\ i = ops[o].item /\ source[i].kind = ops[o].kind
      BY <1>6, <1>8
    <2>2. source[i].to \in 1 .. i - 1 /\ source[i].kind # "PATCH"
      BY <1>0, <1>4, <1>8, <2>1, ProgramFacts
    <2>3. ops[o].arg = s[source[i].to + 1]
      BY <1>4, <2>1, <2>2 DEF Pointed
    <2>4. source[i].to \in 1 .. n - 1
      BY <1>4, <2>2
    <2> QED
      BY <1>4, <2>1, <2>3, <2>4
  <1>9. ASSUME NEW o \in alive PROVE ops[o].kind # "FULL_SPILL"
    <2> SUFFICES ASSUME ops[o].kind = "FULL_SPILL" PROVE FALSE
      OBVIOUS
    <2>1. PICK i \in 1 .. n - 1 : source[i].kind = "FULL_SPILL"
      BY <1>6
    <2> QED
      BY <1>0, <1>4, <2>1, ProgramFacts DEF Kinds
  <1>10. \A o \in alive : o \in Ids
    BY <1>0
  <1>11. \A o \in alive' : ops'[o].in_use /\ ~ops'[o].turned
    BY <1>0, <1>3, <1>10 DEF SpillInv
  <1>12. \A o \in alive' : ops'[o].kind \in Refers /\ ops'[ops'[o].jmp_addr].kind = "LABEL" =>
             ops'[o].arg = ops'[o].jmp_addr
    BY <1>0, <1>3, <1>7, <1>10
  <1>13. \A o \in alive' : ops'[o].kind = "TRANSFER_CPY" =>
             ops'[o].arg \in alive' /\ ops'[ops'[o].arg].item = source'[ops'[o].item].to
    BY <1>0, <1>3, <1>8, <1>10
  <1>14. \A o \in alive' : Spilled(o)'
    BY <1>0, <1>3, <1>9, <1>10 DEF Spilled
  <1> QED
    BY <1>0, <1>11, <1>12, <1>13, <1>14 DEF SpillInv

LEMMA PrepareSpillKeeps ==
    ASSUME ListIInv, SpillInv, PrepareSpill
    PROVE  SpillInv'
  <1>0. /\ ListTyped /\ pass = "spills" /\ pass' = "spills" /\ source' = source
        /\ cur \in alive /\ ops[CODESTART].kind = "CODESTART"
        /\ ops[cur].kind \in {"REF_CODE", "DATA_REF_CODE"}
        /\ alive \subseteq Ids /\ ops \in [Ids -> Op] /\ source \in Programs
        /\ next \in [Ids -> Ids \cup {0}]
    BY DEF ListIInv, ListInv, ListTyped, PrepareSpill, Goto
  <1>1. PICK n, s : Path(s, n, alive, next, prev) /\ Laid(s, n)
    BY <1>0 DEF ListIInv, ListInv, Shape
  <1> DEFINE target == ops[cur].jmp_addr
             X == NewOp("FULL_SPILL", 0, 0, 1)
  <1>2. PICK new \in Ids \ alive :
          /\ ops' = [ops EXCEPT ![new] = X]
          /\ next' = [k \in Ids |-> IF k = new THEN target
                                    ELSE IF k = prev[target] THEN new ELSE next[k]]
          /\ alive' = alive \cup {new}
    BY DEF PrepareSpill, Obtainable, LinkBefore
  <1>3. /\ \A o \in alive : o \in Ids /\ o # new /\ ops'[o] = ops[o]
        /\ ops'[new] = X /\ new \in Ids
        /\ X.kind = "FULL_SPILL" /\ X.in_use /\ ~X.turned
    BY <1>0, <1>2 DEF NewOp
  <1> HIDE DEF X
  <1>4. target \in alive /\ ops[target].item \in CodeNamed(source)
    <2>1. ops[cur].item \in DOMAIN source /\ Resolved(cur)
      BY <1>0, <1>1, LaidResolved
    <2> QED
      BY <1>0, <2>1 DEF Resolved, CodeNamed, Refers
  <1>5. \A o \in alive : next[o] \in alive \cup {0}
    BY <1>0, <1>1, PathFacts
  <1>6. ASSUME NEW o \in alive' PROVE Spilled(o)'
    <2>1. CASE o = new
      <3>1. next'[o] = target
        BY <1>2, <2>1
      <3> QED
        BY <1>0, <1>2, <1>3, <1>4, <3>1 DEF Spilled
    <2>2. CASE o # new /\ o = prev[target]
      <3>1. next'[o] = new
        BY <1>0, <1>2, <2>2
      <3> QED
        BY <1>0, <1>2, <1>3, <3>1 DEF Spilled
    <2>3. CASE o # new /\ o # prev[target]
      <3>1. next'[o] = next[o] /\ o \in alive
        BY <1>0, <1>2, <2>3
      <3>2. Spilled(o)
        BY <1>0, <3>1 DEF SpillInv
      <3> QED
        BY <1>0, <1>2, <1>3, <3>1, <3>2 DEF Spilled
    <2> QED
      BY <2>1, <2>2, <2>3
  <1>7. ASSUME NEW o \in alive', ops'[o].kind \in Refers, ops'[ops'[o].jmp_addr].kind = "LABEL"
        PROVE  ops'[o].arg = ops'[o].jmp_addr
    <2>1. o \in alive /\ ops'[o] = ops[o]
      BY <1>2, <1>3, <1>7 DEF Refers
    <2>2. ops[o].jmp_addr \in alive
      BY <1>0, <1>1, <1>7, <2>1, LaidLeads DEF Leads
    <2> QED
      BY <1>0, <1>3, <1>7, <2>1, <2>2 DEF SpillInv
  <1>8. ASSUME NEW o \in alive', ops'[o].kind = "TRANSFER_CPY"
        PROVE  ops'[o].arg \in alive' /\ ops'[ops'[o].arg].item = source'[ops'[o].item].to
    <2>1. o \in alive /\ ops'[o] = ops[o]
      BY <1>2, <1>3, <1>8
    <2> QED
      BY <1>0, <1>2, <1>3, <1>8, <2>1 DEF SpillInv
  <1>9. \A o \in alive' : ops'[o].in_use /\ ~ops'[o].turned
    BY <1>0, <1>2, <1>3 DEF SpillInv
  <1> QED
    BY <1>0, <1>6, <1>7, <1>8, <1>9 DEF SpillInv

LEMMA SpillStep ==
    ASSUME ListIInv, ListIInv', SpillInv, [Next]_vars
    PROVE  SpillInv' \/ Init'
  <1>1. CASE FreeAndInit
    BY <1>1, FreeStep DEF ListIInv
  <1>2. CASE NoSpill \/ UNCHANGED vars
    <2>1. ops' = ops /\ alive' = alive /\ next' = next /\ source' = source /\ pass' = pass
      BY <1>2 DEF NoSpill, vars, list, Goto
    <2> QED
      BY <2>1 DEF SpillInv, Spilled
  <1>3. CASE \/ MarkLiveCode \/ DeleteOp \/ KeepOp \/ Swept \/ AdjustBranch \/ LeaveBranch
             \/ AllocateBuffer \/ CheckRoom \/ RoomForData \/ Emit \/ Move \/ PatchLocalAddr
             \/ AssignFunctions
    <2>1. pass' \notin {"build", "spills"}
      BY <1>3 DEF MarkLiveCode, DeleteOp, KeepOp, Swept, AdjustBranch, LeaveBranch, AllocateBuffer,
                  CheckRoom, RoomForData, Emit, Move, PatchLocalAddr, AssignFunctions, Goto
    <2> QED
      BY <2>1 DEF SpillInv
  <1> QED
    BY <1>1, <1>2, <1>3, AddSpill, ExpandSpill, PrepareSpillKeeps DEF Next

(* What is kept of an operation does not depend on what is noted of it.    *)
SameCore ==
    /\ UNCHANGED <<source, alive, next>>
    /\ \A k \in Ids : /\ ops'[k].kind = ops[k].kind /\ ops'[k].item = ops[k].item
                      /\ ops'[k].n = ops[k].n /\ ops'[k].arg = ops[k].arg
                      /\ ops'[k].jmp_addr = ops[k].jmp_addr /\ ops'[k].turned = ops[k].turned

LEMMA CoreKept ==
    ASSUME alive \subseteq Ids, next \in [Ids -> Ids \cup {0}], ops \in [Ids -> Op], SameCore,
           \A o \in alive : Core(o)
    PROVE  \A o \in alive : Core(o)'
  <1> SUFFICES ASSUME NEW o \in alive PROVE Core(o)'
    OBVIOUS
  <1>1. /\ o \in Ids /\ next[o] \in Ids \cup {0}
        /\ \A k \in Ids : ops[k].arg \in Ids \cup {0} /\ ops[k].jmp_addr \in Ids \cup {0}
    BY DEF Op
  <1>2. \A k \in Ids \cup {0} : IsLabel(k)' <=> IsLabel(k)
    BY DEF SameCore, IsLabel
  <1>3. Stands(o)'
    BY <1>1 DEF Core, Stands, SameCore
  <1>4. Wired(o)'
    <2>1. Wired(o)
      BY DEF Core
    <2>2. ASSUME ops[o].kind \in Refers
          PROVE  LET q == ops'[o].jmp_addr
                 IN /\ q \in alive
                    /\ \/ ops'[q].kind = "LABEL" /\ ops'[o].arg = q
                       \/ ops'[q].kind = "PATCH" /\ ops'[q].arg = o /\ ~IsLabel(ops[o].arg)'
      BY <1>1, <1>2, <2>1, <2>2 DEF Wired, SameCore
    <2>3. ASSUME ops[o].kind = "PATCH"
          PROVE  LET t == ops'[o].arg
                 IN t \in alive /\ ops'[t].kind \in Refers /\ ops'[t].jmp_addr = o
      BY <1>1, <2>1, <2>3 DEF Wired, SameCore
    <2> QED
      BY <1>1, <2>2, <2>3 DEF Wired, SameCore
  <1>5. \A k \in Ids : MadeJump(k)' <=> MadeJump(k)
    BY DEF MadeJump, SameCore
  <1>6. TurnedRight(o)'
    <2>1. TurnedRight(o) /\ Wired(o)
      BY DEF Core
    <2>2. ops[o].turned => ops[o].jmp_addr \in Ids
      BY <2>1 DEF TurnedRight, Wired, Refers
    <2> QED
      BY <1>1, <1>5, <2>1, <2>2 DEF TurnedRight, SameCore
  <1>7. Aims(o)'
    <2>1. ASSUME ops[o].kind \in Refers
          PROVE  LET b == IF ops[o].turned THEN next[o] ELSE o IN b \in alive /\ ops[b].kind \in Refers
      BY <2>1 DEF Core, TurnedRight, MadeJump, Refers
    <2>2. \A b \in alive : ops[b].kind \in Refers => ops[b].jmp_addr \in Ids
      BY DEF Core, Wired
    <2>3. Aims(o)
      BY DEF Core
    <2> QED
      BY <1>1, <2>1, <2>2, <2>3 DEF Aims, SameCore
  <1>8. Loops(o)'
    BY <1>1 DEF Core, Loops, SameCore
  <1>9. Spilled(o)'
    BY <1>1 DEF Core, Spilled, SameCore
  <1> QED
    BY <1>3, <1>4, <1>6, <1>7, <1>8, <1>9 DEF Core

LEMMA MarkKept ==
    ASSUME \A p \in Programs : PatchedIsReached(p) /\ TransfersReached(p),
           ListIInv, ListIInv', SpillInv, MarkLiveCode
    PROVE  KeptInv'
  <1>0. /\ ListTyped /\ pass = "spills" /\ ops[CODESTART].kind = "CODESTART"
        /\ source \in Programs /\ alive \subseteq Ids /\ ops \in [Ids -> Op]
        /\ next \in [Ids -> Ids \cup {0}]
        /\ UNCHANGED <<source, next, prev, alive>>
    BY DEF ListIInv, ListInv, MarkLiveCode, list, ListTyped
  <1>1. PICK n, s : Path(s, n, alive, next, prev) /\ Laid(s, n)
    BY <1>0 DEF ListIInv, ListInv, Shape
  <1>2. \A k \in Ids : /\ ops'[k].kind = ops[k].kind /\ ops'[k].item = ops[k].item
                       /\ ops'[k].n = ops[k].n /\ ops'[k].arg = ops[k].arg
                       /\ ops'[k].jmp_addr = ops[k].jmp_addr /\ ops'[k].turned = ops[k].turned
    <2>1. \A k \in Ids : ops'[k] = ops[k] \/ \E x : ops'[k] = [ops[k] EXCEPT !.in_use = x]
      BY DEF MarkLiveCode
    <2>2. \A k \in Ids : ops[k] \in Op
      BY <1>0
    <2> QED
      BY <2>1, <2>2 DEF Op
  <1>3. \A o \in alive :
          /\ ops[o].kind = "PATCH" => Named(o)
          /\ ops[o].kind \in Refers => Leads(o) /\ ops[ops[o].jmp_addr].kind \in {"LABEL", "PATCH"}
    BY <1>0, <1>1, LaidLeads
  <1>4. ASSUME NEW o \in alive
        PROVE  IF ops[o].item = 0
               THEN ops[o].kind = "CODESTART" \/ (ops[o].kind = "FULL_SPILL" /\ ops[o].n = 1)
               ELSE Resolved(o) /\ ops[o].item \in DOMAIN source /\ ops[o].kind = source[ops[o].item].kind
    <2>1. PICK j \in 1 .. n : o = s[j]
      BY <1>1 DEF Path
    <2>2. CASE j = 1
      <3>1. o = CODESTART
        BY <1>1, <2>1, <2>2 DEF Path
      <3> QED
        BY <1>0, <1>1, <3>1 DEF Laid
    <2>3. CASE j # 1
      <3>1. j \in 2 .. n
        BY <2>3
      <3> QED
        BY <1>1, <2>1, <3>1 DEF Laid, Resolved
    <2> QED
      BY <2>2, <2>3
  <1>5. \A o \in alive : ops[o].in_use /\ ~ops[o].turned
    BY <1>0 DEF SpillInv
  <1>6. \A o \in alive : ~MadeJump(o) /\ next[o] \in alive \cup {0} /\ o # 0
    BY <1>0, <1>1, <1>4, PathFacts, StartFacts DEF MadeJump
  <1>7. ASSUME NEW o \in alive PROVE Core(o)
    <2>1. Stands(o)
      <3>1. ops[CODESTART].item = 0
        BY <1>1 DEF Laid
      <3> QED
        BY <1>0, <1>4, <3>1 DEF Stands, Resolved
    <2>2. Wired(o)
      <3>1. ASSUME ops[o].kind \in Refers
            PROVE  LET q == ops[o].jmp_addr
                   IN /\ q \in alive
                      /\ \/ ops[q].kind = "LABEL" /\ ops[o].arg = q
                         \/ ops[q].kind = "PATCH" /\ ops[q].arg = o /\ ~IsLabel(ops[o].arg)
        <4> DEFINE q == ops[o].jmp_addr
        <4>1. q \in alive /\ (IsLabel(ops[o].arg) => ops[o].arg = q) /\ ops[q].kind \in {"LABEL", "PATCH"}
          BY <1>3, <3>1 DEF Leads
        <4>2. CASE ops[q].kind = "LABEL"
          BY <1>0, <3>1, <4>1, <4>2 DEF SpillInv
        <4>3. CASE ops[q].kind = "PATCH"
          <5>1. ~IsLabel(ops[o].arg)
            BY <4>1, <4>3 DEF IsLabel
          <5>2. ops[ops[q].arg].jmp_addr = q /\ ops[q].arg \in alive
            BY <1>3, <4>1, <4>3 DEF Named
          <5>3. source[ops[ops[q].arg].item].to = ops[q].item /\ ops[ops[q].arg].item \in DOMAIN source
                  /\ ops[q].item \in DOMAIN source /\ source[ops[q].item].kind = "PATCH"
            BY <1>4, <4>1, <4>3 DEF Resolved
          <5>4. source[ops[o].item].to = ops[q].item /\ ops[o].item \in DOMAIN source
            BY <1>4, <3>1, <4>1 DEF Resolved, Refers
          <5>5. ops[ops[q].arg].item = ops[o].item
            BY <1>0, <5>3, <5>4, PatcherIsUnique
          <5>6. ops[q].arg = o
            <6>1. PICK j \in 1 .. n, k \in 1 .. n : o = s[j] /\ ops[q].arg = s[k]
              BY <1>1, <5>2 DEF Path
            <6>2. ops[o].item # 0 /\ ops[o].item \in Nat /\ n \in Nat
              BY <1>0, <1>1, <5>4, ProgramFacts DEF Path
            <6>3. ~(j < k) /\ ~(k < j)
              BY <1>1, <5>5, <6>1, <6>2 DEF Laid
            <6> QED
              BY <6>1, <6>2, <6>3
          <5> QED
            BY <4>1, <4>3, <5>1, <5>6
        <4> QED
          BY <4>1, <4>2, <4>3
      <3>2. ASSUME ops[o].kind = "PATCH"
            PROVE  LET t == ops[o].arg
                   IN t \in alive /\ ops[t].kind \in Refers /\ ops[t].jmp_addr = o
        <4> DEFINE t == ops[o].arg
                   i == ops[o].item
        <4>1. t \in alive /\ ops[t].jmp_addr = o
          BY <1>3, <3>2 DEF Named
        <4>2. /\ ops[t].item \in DOMAIN source /\ source[ops[t].item].to = i
              /\ i \in DOMAIN source /\ source[i].kind = "PATCH"
          BY <1>4, <3>2 DEF Resolved
        <4>3. source[ops[t].item].kind \in Refers
          BY <1>0, <4>2, PatcherIsUnique
        <4>4. ops[t].item # 0
          BY <1>0, <4>2, ProgramFacts
        <4> QED
          BY <1>4, <4>1, <4>3, <4>4
      <3> QED
        BY <3>1, <3>2 DEF Wired
    <2>3. TurnedRight(o)
      BY <1>5, <1>6 DEF TurnedRight
    <2>4. Aims(o)
      BY <1>4, <1>5 DEF Aims, Resolved
    <2>5. Loops(o)
      BY <1>0 DEF SpillInv, Loops
    <2>6. Spilled(o)
      BY <1>0 DEF SpillInv
    <2> QED
      BY <2>1, <2>2, <2>3, <2>4, <2>5, <2>6 DEF Core
  <1>8. \A o \in alive : Core(o)'
    BY <1>0, <1>2, <1>7, CoreKept DEF SameCore
  <1>9. ASSUME NEW o \in alive, Used(o) PROVE ops'[o].in_use
    <2>1. ops[o].item \in Reached(source)
      BY <1>6, <1>9 DEF Used
    <2>2. CASE UNCHANGED ops
      BY <1>5, <2>2
    <2>3. CASE ops' = [k \in Ids |->
               IF k \in alive
               THEN [ops[k] EXCEPT !.in_use = k \in Marked \/ ops[k].kind \in Directives]
               ELSE ops[k]]
      <3>1. \A k \in alive : ops[k].kind = "DATA_REF_CODE" => ops[k].jmp_addr # 0
        BY <1>0, <1>3, <1>6 DEF Refers, Leads
      <3>2. o \in Marked
        BY <1>0, <1>1, <2>1, <3>1, MarkedIsClosed, ReachedIsMarked
      <3>3. ops[o] \in Op /\ o \in Ids
        BY <1>0
      <3> QED
        BY <2>3, <3>2, <3>3 DEF Op
    <2> QED
      BY <2>2, <2>3 DEF MarkLiveCode
  <1>10. Present'
    <2>1. ASSUME NEW i \in DOMAIN source PROVE \E o \in alive : ops[o].item = i
      <3>1. PICK j \in 1 .. n : ops[s[j]].item = i
        BY <1>1 DEF Laid
      <3> QED
        BY <1>1, <3>1 DEF Path
    <2> QED
      BY <1>0, <1>2, <2>1 DEF Present
  <1>11. Ordered(s, n)'
    <2>1. \A j \in 1 .. n : s[j] \in Ids
      BY <1>0, <1>1 DEF Path
    <2> QED
      BY <1>1, <1>2, <2>1 DEF Laid, Ordered
  <1>12. CASE pass' = "delete"
    <2>1. ops' = [k \in Ids |->
               IF k \in alive
               THEN [ops[k] EXCEPT !.in_use = k \in Marked \/ ops[k].kind \in Directives]
               ELSE ops[k]]
      BY <1>12 DEF MarkLiveCode, Goto
    <2>2. ASSUME NEW o \in alive
          PROVE  /\ ~ops'[o].turned
                 /\ ops'[o].kind \in Directives => ops'[o].in_use
                 /\ ops'[o].item = 0 => ops'[o].kind \in {"CODESTART", "FULL_SPILL"}
      <3>1. ops[o] \in Op /\ o \in Ids
        BY <1>0
      <3>2. ops[o].kind \in Directives => ops'[o].in_use
        BY <2>1, <3>1 DEF Op
      <3> QED
        BY <1>2, <1>4, <1>5, <3>1, <3>2
    <2> QED
      BY <1>0, <1>1, <1>8, <1>9, <1>10, <1>11, <1>12, <2>2, <1>2 DEF KeptInv, Kept, KeptOp, Used, MadeJump
  <1>13. CASE pass' = "branches"
    <2>1. \A j \in 1 .. n : s[j] \in alive /\ s[j] \in Ids /\ ~ops'[s[j]].turned
      BY <1>0, <1>1, <1>2, <1>5 DEF Path
    <2> QED
      BY <1>0, <1>1, <1>8, <1>9, <1>10, <1>11, <1>13, <2>1, <1>2 DEF KeptInv, Kept, KeptOp, Used, MadeJump
  <1> QED
    BY <1>12, <1>13 DEF MarkLiveCode, Goto

LEMMA DeleteKept ==
    ASSUME \A p \in Programs : PatchedIsReached(p) /\ TransfersReached(p),
           ListIInv, ListIInv', PatchInv, KeptInv, DeleteOp
    PROVE  KeptInv'
  <1>0. /\ pass = "delete" /\ pass' = "delete" /\ alive' = alive \ {cur} /\ ~ops[cur].in_use
        /\ UNCHANGED <<source, ops>> /\ ops[cur].kind # "FULL_SPILL"
        /\ source \in Programs /\ alive \subseteq Ids /\ ListInv
        /\ next \in [Ids -> Ids \cup {0}]
    BY DEF DeleteOp, Goto, ListIInv, ListInv, ListTyped
  <1>1. PICK n, s : Path(s, n, alive, next, prev) /\ Kept(s, n)
    BY <1>0 DEF KeptInv
  <1>2. PICK i \in 2 .. n : cur = s[i] /\ Path(Removed(s, n, i), n - 1, alive', next', prev')
    BY <1>0, <1>1, DeletePath
  <1>3. \A k \in alive : next'[k] = IF k = prev[cur] THEN next[cur] ELSE next[k]
    BY <1>0, <1>1, DeletePath
  <1>4. /\ \A o \in alive : KeptOp(o) /\ ~ops[o].turned
        /\ \A o \in alive : ops[o].kind \in Directives => ops[o].in_use
        /\ \A o \in alive : ops[o].item = 0 => ops[o].kind \in {"CODESTART", "FULL_SPILL"}
        /\ Ordered(s, n) /\ Present
    BY <1>0, <1>1 DEF Kept
  <1>5. n \in Nat /\ cur \in alive /\ s[i - 1] \in alive /\ next[s[i - 1]] = cur /\ prev[cur] = s[i - 1]
    <2>1. n \in Nat /\ i - 1 \in 1 .. n - 1 /\ i - 1 \in 1 .. n /\ (i - 1) + 1 = i /\ i \in 1 .. n
      BY <1>1 DEF Path
    <2> QED
      BY <1>1, <1>2, <2>1 DEF Path
  <1>6. /\ ops[cur].item # 0 /\ ops[cur].item \notin Reached(source)
        /\ ops[cur].kind \notin Directives
    BY <1>0, <1>4, <1>5 DEF Directives, KeptOp, Used
  <1>7. \A o \in alive' : next'[o] \in alive' \cup {0}
    <2>1. alive' \subseteq Ids
      BY <1>0
    <2> QED
      BY <1>2, <2>1, PathFacts
  <1>8. ASSUME NEW o \in alive' PROVE KeptOp(o)'
    <2>0. o \in alive /\ o # cur /\ Core(o) /\ ~ops[o].turned
      BY <1>0, <1>4, <1>8 DEF KeptOp
    <2>1. Stands(o)'
      BY <1>0, <2>0 DEF Core, Stands
    <2>2. Wired(o)'
      <3>1. ASSUME ops[o].kind \in Refers PROVE ops[o].jmp_addr # cur
        BY <1>6, <2>0, <3>1 DEF Core, Wired, Directives
      <3>2. ASSUME ops[o].kind = "PATCH" PROVE ops[o].arg # cur
        BY <1>0, <2>0, <3>2 DEF PatchInv
      <3> QED
        BY <1>0, <2>0, <3>1, <3>2 DEF Core, Wired, IsLabel
    <2>3. TurnedRight(o)'
      <3>1. \A k \in alive' : ~MadeJump(k)'
        BY <1>0, <1>4 DEF MadeJump
      <3> QED
        BY <1>0, <1>7, <1>8, <2>0, <3>1 DEF TurnedRight
    <2>4. Aims(o)'
      BY <1>0, <2>0 DEF Core, Aims
    <2>5. Loops(o)'
      <3>1. ASSUME ops[o].kind = "TRANSFER_CPY", ops[o].item \in Reached(source) PROVE ops[o].arg # cur
        <4>1. source[ops[o].item].kind = "TRANSFER_CPY"
          <5>1. ops[o].item # 0
            BY <1>4, <2>0, <3>1
          <5> QED
            BY <2>0, <3>1, <5>1 DEF Core, Stands
        <4>2. source[ops[o].item].to \in Reached(source)
          BY <1>0, <3>1, <4>1 DEF TransfersReached
        <4> QED
          BY <1>6, <2>0, <3>1, <4>2 DEF Core, Loops
      <3> QED
        BY <1>0, <2>0, <3>1 DEF Core, Loops
    <2>6. Spilled(o)'
      <3>1. ASSUME ops[o].kind = "FULL_SPILL" PROVE next[o] # cur
        <4>1. next[o] = cur => ops[cur].item \in CodeNamed(source)
          BY <1>0, <2>0, <3>1 DEF Core, Spilled
        <4>2. SUFFICES ASSUME ops[cur].item \in CodeNamed(source) PROVE FALSE
          BY <4>1
        <4>3. PICK k \in DOMAIN source : source[k].kind \in Refers /\ ops[cur].item = source[k].to
          BY <4>2 DEF CodeNamed, Refers
        <4>4. source[ops[cur].item].kind \in {"LABEL", "PATCH"}
          BY <1>0, <4>3, ProgramFacts
        <4>5. ops[cur].kind = source[ops[cur].item].kind
          BY <1>4, <1>5, <1>6 DEF KeptOp, Core, Stands
        <4> QED
          BY <1>6, <4>4, <4>5 DEF Directives
      <3>2. ASSUME ops[o].kind = "FULL_SPILL" PROVE next'[o] = next[o]
        BY <1>3, <1>5, <2>0, <3>1, <3>2
      <3> QED
        BY <1>0, <2>0, <3>1, <3>2 DEF Core, Spilled
    <2>7. Used(o)' => ops'[o].in_use
      BY <1>0, <1>4, <2>0 DEF KeptOp, Used, MadeJump
    <2> QED
      BY <2>1, <2>2, <2>3, <2>4, <2>5, <2>6, <2>7 DEF KeptOp, Core
  <1>9. Present'
    <2>1. ASSUME NEW k \in DOMAIN source, k \in Reached(source) \/ source[k].kind \in Directives
          PROVE  \E o \in alive' : ops[o].item = k
      <3>1. PICK o \in alive : ops[o].item = k
        BY <1>4, <2>1 DEF Present
      <3>2. k # 0
        BY <1>0, ProgramFacts
      <3>3. k \in Reached(source) => ops[o].in_use
        BY <1>4, <3>1 DEF KeptOp, Used
      <3>4. ops[o].kind = source[k].kind
        BY <1>4, <3>1, <3>2 DEF KeptOp, Core, Stands
      <3> QED
        BY <1>0, <1>4, <2>1, <3>1, <3>3, <3>4
    <2> QED
      BY <1>0, <2>1 DEF Present
  <1>10. PICK t : t = Removed(s, n, i)
    OBVIOUS
  <1>11. Ordered(t, n - 1)'
    <2>1. \A j \in 1 .. n - 1 : t[j] = IF j < i THEN s[j] ELSE s[j + 1]
      BY <1>10 DEF Removed
    <2> SUFFICES ASSUME NEW j \in 1 .. n - 1, NEW k \in 1 .. n - 1, j < k, ops[t[k]].item # 0
                 PROVE  ops[t[j]].item < ops[t[k]].item
      BY <1>0 DEF Ordered
    <2> DEFINE j1 == IF j < i THEN j ELSE j + 1
               k1 == IF k < i THEN k ELSE k + 1
    <2>2. j1 \in 1 .. n /\ k1 \in 1 .. n /\ j1 < k1 /\ t[j] = s[j1] /\ t[k] = s[k1]
      BY <1>5, <2>1
    <2> QED
      BY <1>4, <2>2 DEF Ordered
  <1>12. \A o \in alive' : /\ ~ops'[o].turned
                           /\ ops'[o].kind \in Directives => ops'[o].in_use
                           /\ ops'[o].item = 0 => ops'[o].kind \in {"CODESTART", "FULL_SPILL"}
    BY <1>0, <1>4
  <1>13. Kept(t, n - 1)'
    BY <1>0, <1>8, <1>9, <1>11, <1>12 DEF Kept
  <1> QED
    BY <1>2, <1>10, <1>13 DEF KeptInv
-----------------------------------------------------------------------------
(* What branch_adjustment leaves of the operations: b is turned around,    *)
(* and leads to patch; jump takes its target over.                         *)
Adjusts(b, jump, patch) ==
    LET target == ops[b].jmp_addr
        kept   == IsLabel(ops[b].arg)
    IN /\ alive' = alive \cup {jump, patch} /\ UNCHANGED source
       /\ jump \in Ids \ alive /\ patch \in Ids \ alive /\ jump # patch /\ b \in alive
       /\ \A o \in alive : next'[o] = IF o = b THEN jump ELSE next[o]
       /\ next'[jump] = patch /\ next'[patch] = next[b]
       /\ \A o \in alive :
            /\ ops'[o].kind = ops[o].kind /\ ops'[o].n = ops[o].n /\ ops'[o].item = ops[o].item
            /\ ops'[o].in_use <=> ops[o].in_use
            /\ ops'[o].turned <=> o = b \/ ops[o].turned
            /\ ops'[o].jmp_addr = IF o = b THEN patch ELSE ops[o].jmp_addr
            /\ ops'[o].arg = IF o = target /\ ~kept THEN jump
                             ELSE IF o = b THEN patch ELSE ops[o].arg
       /\ \A o \in Ids : ops'[o].kind = "LABEL" => ops[o].kind = "LABEL"
       /\ ops'[jump].kind = "JMP" /\ ops'[jump].n = 2 /\ ops'[jump].item = 0
       /\ ops'[jump].in_use /\ ~ops'[jump].turned /\ ops'[jump].jmp_addr = target
       /\ ops'[jump].arg = IF jump = target /\ ~kept THEN jump ELSE ops[b].arg
       /\ ops'[patch].kind = "PATCH" /\ ops'[patch].n = 1 /\ ops'[patch].item = 0
       /\ ops'[patch].in_use /\ ~ops'[patch].turned
       /\ ops'[patch].arg = IF patch = target /\ ~kept THEN jump ELSE b

LEMMA AdjustFacts ==
    ASSUME ListIInv, AdjustBranch, NEW n, NEW s, Path(s, n, alive, next, prev)
    PROVE  \E i \in 1 .. n, jump \in Ids, patch \in Ids :
             /\ cur = s[i] /\ cur' = jump /\ Adjusts(cur, jump, patch)
             /\ next[cur] \in alive \cup {0}
             /\ Path(Inserted(Inserted(s, n, i, jump), n + 1, i + 1, patch), n + 2,
                     alive', next', prev')
  <1>0. /\ ListInv /\ cur \in alive /\ UNCHANGED source
        /\ alive \subseteq Ids /\ ops \in [Ids -> Op]
    BY DEF ListIInv, ListInv, ListTyped, AdjustBranch, Goto
  <1>1. PICK jump \in Ids \ alive, patch \in Ids \ alive :
          /\ jump # patch
          /\ ops' = TurnedOps(cur, jump, patch)
          /\ Detoured(jump, patch) /\ alive' = alive \cup {jump, patch}
          /\ cur' = jump
    BY DEF AdjustBranch, Obtainable, Unused, Goto, Detoured
  <1>2. PICK i \in 1 .. n : cur = s[i]
    BY <1>0 DEF Path
  <1>3. /\ Path(Inserted(Inserted(s, n, i, jump), n + 1, i + 1, patch), n + 2,
                alive', next', prev')
        /\ next[cur] \in alive \cup {0}
        /\ \A k \in alive : next'[k] = IF k = cur THEN jump ELSE next[k]
        /\ next'[jump] = patch /\ next'[patch] = next[cur]
    <2>1. ListInv /\ Path(s, n, alive, next, prev) /\ cur = s[i] /\ jump # patch /\ Detoured(jump, patch)
      BY <1>0, <1>1, <1>2
    <2> QED
      BY <2>1, AdjustPath
  <1> DEFINE target == ops[cur].jmp_addr
             kept == IsLabel(ops[cur].arg)
  <1>4. \A o \in Ids :
          /\ ops'[o].kind = IF o = jump THEN "JMP" ELSE IF o = patch THEN "PATCH" ELSE ops[o].kind
          /\ ops'[o].n = IF o = jump THEN 2 ELSE IF o = patch THEN 1 ELSE ops[o].n
          /\ ops'[o].arg = IF o = target /\ ~kept THEN jump
                           ELSE IF o = jump THEN ops[cur].arg
                           ELSE IF o = patch THEN cur
                           ELSE IF o = cur THEN patch ELSE ops[o].arg
          /\ ops'[o].jmp_addr = IF o = jump THEN target
                                ELSE IF o = patch THEN 0
                                ELSE IF o = cur THEN patch ELSE ops[o].jmp_addr
    BY <1>0, <1>1, TurnedFacts
  <1>5. \A o \in Ids :
          /\ ops'[o].item = IF o \in {jump, patch} THEN 0 ELSE ops[o].item
          /\ ops'[o].in_use <=> o \in {jump, patch} \/ ops[o].in_use
          /\ ops'[o].turned <=> o = cur \/ (o \notin {jump, patch} /\ ops[o].turned)
    BY <1>0, <1>1, TurnedMarks
  <1> HIDE DEF target, kept
  <1>6. ASSUME NEW o \in alive
        PROVE  /\ ops'[o].kind = ops[o].kind /\ ops'[o].n = ops[o].n /\ ops'[o].item = ops[o].item
               /\ ops'[o].in_use <=> ops[o].in_use
               /\ ops'[o].turned <=> o = cur \/ ops[o].turned
               /\ ops'[o].jmp_addr = IF o = cur THEN patch ELSE ops[o].jmp_addr
               /\ ops'[o].arg = IF o = target /\ ~kept THEN jump
                                ELSE IF o = cur THEN patch ELSE ops[o].arg
    BY <1>0, <1>4, <1>5
  <1>7. /\ ops'[jump].kind = "JMP" /\ ops'[jump].n = 2 /\ ops'[jump].item = 0
        /\ ops'[jump].in_use /\ ~ops'[jump].turned /\ ops'[jump].jmp_addr = target
        /\ ops'[jump].arg = IF jump = target /\ ~kept THEN jump ELSE ops[cur].arg
    BY <1>0, <1>4, <1>5
  <1>8. /\ ops'[patch].kind = "PATCH" /\ ops'[patch].n = 1 /\ ops'[patch].item = 0
        /\ ops'[patch].in_use /\ ~ops'[patch].turned
        /\ ops'[patch].arg = IF patch = target /\ ~kept THEN jump ELSE cur
    BY <1>0, <1>1, <1>4, <1>5
  <1>a. \A o \in Ids : ops'[o].kind = "LABEL" => ops[o].kind = "LABEL"
    BY <1>4
  <1>9. Adjusts(cur, jump, patch)
    BY <1>a, <1>0, <1>1, <1>3, <1>6, <1>7, <1>8 DEF Adjusts, target, kept
  <1> QED
    BY <1>1, <1>2, <1>3, <1>9

LEMMA AdjustCore ==
    ASSUME alive \subseteq Ids, \A o \in alive : next[o] \in alive \cup {0}, 0 \notin Ids,
           \A o \in Ids : ops[o].arg \in Ids \cup {0}, CODESTART \in alive,
           \A o \in alive : KeptOp(o),
           NEW b, NEW jump, NEW patch, Adjusts(b, jump, patch),
           ops[b].kind = "BRANCH", ~ops[b].turned
    PROVE  \A o \in alive' : KeptOp(o)'
  <1> DEFINE target == ops[b].jmp_addr
             kept == IsLabel(ops[b].arg)
  <1>1. /\ b \in alive /\ jump \in Ids \ alive /\ patch \in Ids \ alive /\ jump # patch
        /\ source' = source /\ alive' = alive \cup {jump, patch}
    BY DEF Adjusts
  <1>2. /\ target \in alive /\ target # b /\ target # jump /\ target # patch
        /\ \/ kept /\ ops[target].kind = "LABEL" /\ ops[b].arg = target
           \/ ~kept /\ ops[target].kind = "PATCH" /\ ops[target].arg = b
    <2>1. Wired(b)
      BY <1>1 DEF KeptOp, Core
    <2>2. target \in alive /\ \/ ops[target].kind = "LABEL" /\ ops[b].arg = target
                              \/ ops[target].kind = "PATCH" /\ ops[target].arg = b /\ ~kept
      BY <2>1 DEF Wired, Refers
    <2> QED
      BY <1>1, <2>2 DEF IsLabel
  <1> HIDE DEF kept
  <1>3. /\ next'[b] = jump /\ next'[jump] = patch /\ next'[patch] = next[b]
        /\ \A o \in alive : o # b => next'[o] = next[o]
    BY <1>1 DEF Adjusts
  <1>4. \A o \in alive :
            /\ ops'[o].kind = ops[o].kind /\ ops'[o].n = ops[o].n /\ ops'[o].item = ops[o].item
            /\ ops'[o].in_use <=> ops[o].in_use
            /\ o # b => (ops'[o].turned <=> ops[o].turned) /\ ops'[o].jmp_addr = ops[o].jmp_addr
            /\ o # b /\ o # target => ops'[o].arg = ops[o].arg
    BY DEF Adjusts
  <1>5. /\ ops'[b].turned /\ ops'[b].jmp_addr = patch /\ ops'[b].arg = patch
        /\ ops'[target].arg = IF kept THEN ops[target].arg ELSE jump
    BY <1>1, <1>2 DEF Adjusts, kept
  <1>6. /\ ops'[jump].kind = "JMP" /\ ops'[jump].n = 2 /\ ops'[jump].item = 0
        /\ ops'[jump].in_use /\ ~ops'[jump].turned /\ ops'[jump].jmp_addr = target
        /\ ops'[jump].arg = ops[b].arg
    BY <1>2 DEF Adjusts
  <1>7. /\ ops'[patch].kind = "PATCH" /\ ops'[patch].n = 1 /\ ops'[patch].item = 0
        /\ ops'[patch].in_use /\ ~ops'[patch].turned /\ ops'[patch].arg = b
    BY <1>2 DEF Adjusts
  <1>8. \A x \in Ids \cup {0} : IsLabel(x)' => IsLabel(x)
    BY DEF Adjusts, IsLabel
  <1>9. \A o \in alive : MadeJump(o)' <=> MadeJump(o)
    BY <1>4 DEF MadeJump
  <1>10. MadeJump(jump)' /\ ~MadeJump(patch)'
    BY <1>6, <1>7 DEF MadeJump
  <1>11. \A o \in alive : Core(o)
    BY DEF KeptOp
  <1> HIDE DEF target
  <1>20. ASSUME NEW o \in alive' PROVE Stands(o)'
    <2>1. CASE o \in alive
      BY <1>1, <1>4, <1>11, <2>1 DEF Core, Stands
    <2>2. CASE o \in {jump, patch}
      BY <1>1, <1>6, <1>7, <2>2 DEF Stands
    <2> QED
      BY <1>1, <2>1, <2>2
  <1>21. ASSUME NEW o \in alive', ops'[o].kind \in Refers
         PROVE  LET q == ops'[o].jmp_addr
                IN /\ q \in alive'
                   /\ \/ ops'[q].kind = "LABEL" /\ ops'[o].arg = q
                      \/ ops'[q].kind = "PATCH" /\ ops'[q].arg = o /\ ~IsLabel(ops[o].arg)'
    <2>1. CASE o = b
      <3>1. ~IsLabel(ops[o].arg)'
        BY <1>5, <1>7, <2>1 DEF IsLabel
      <3> QED
        BY <1>1, <1>5, <1>7, <2>1, <3>1
    <2>2. CASE o = jump
      <3>1. CASE kept
        BY <1>1, <1>2, <1>4, <1>6, <2>2, <3>1
      <3>2. CASE ~kept
        <4>1. ~IsLabel(ops[b].arg) /\ ops[b].arg \in Ids \cup {0}
          BY <1>1, <3>2 DEF kept
        <4>2. ~IsLabel(ops[o].arg)'
          BY <1>6, <1>8, <2>2, <4>1 DEF IsLabel
        <4> QED
          BY <1>1, <1>2, <1>4, <1>5, <1>6, <2>2, <3>2, <4>2
      <3> QED
        BY <3>1, <3>2
    <2>3. CASE o \in alive /\ o # b
      <3>0. /\ ops[o].kind \in Refers /\ o # target
            /\ ops'[o].jmp_addr = ops[o].jmp_addr /\ ops'[o].arg = ops[o].arg
        BY <1>2, <1>4, <1>21, <2>3 DEF Refers
      <3> DEFINE q == ops[o].jmp_addr
      <3>1. q \in alive /\ \/ ops[q].kind = "LABEL" /\ ops[o].arg = q
                           \/ ops[q].kind = "PATCH" /\ ops[q].arg = o /\ ~IsLabel(ops[o].arg)
        BY <1>11, <2>3, <3>0 DEF Core, Wired
      <3> HIDE DEF q
      <3>2. CASE ops[q].kind = "LABEL" /\ ops[o].arg = q
        BY <1>1, <1>4, <3>0, <3>1, <3>2 DEF q
      <3>3. CASE ops[q].kind = "PATCH" /\ ops[q].arg = o /\ ~IsLabel(ops[o].arg)
        <4>1. q # target /\ q # b
          BY <1>2, <2>3, <3>0, <3>3 DEF Refers
        <4>2. ops'[q].arg = o /\ ops'[q].kind = "PATCH"
          BY <1>4, <3>1, <3>3, <4>1
        <4>3. ops[o].arg \in Ids \cup {0}
          BY <2>3
        <4>4. ~IsLabel(ops[o].arg)'
          BY <1>8, <3>0, <3>3, <4>3 DEF IsLabel
        <4> QED
          BY <1>1, <3>0, <3>1, <4>2, <4>4 DEF q
      <3> QED
        BY <3>1, <3>2, <3>3
    <2>4. CASE o = patch
      BY <1>7, <1>21, <2>4 DEF Refers
    <2> QED
      BY <1>1, <2>1, <2>2, <2>3, <2>4
  <1>22. ASSUME NEW o \in alive', ops'[o].kind = "PATCH"
         PROVE  LET t == ops'[o].arg
                IN t \in alive' /\ ops'[t].kind \in Refers /\ ops'[t].jmp_addr = o
    <2>1. CASE o = patch
      BY <1>1, <1>4, <1>5, <1>7, <2>1 DEF Refers
    <2>2. CASE o = target
      <3>1. ~kept
        BY <1>2, <1>4, <1>22, <2>2
      <3> QED
        BY <1>1, <1>5, <1>6, <2>2, <3>1 DEF Refers
    <2>3. CASE o \in alive /\ o # target
      <3>1. ops[o].kind = "PATCH" /\ o # b
        BY <1>4, <1>22, <2>3
      <3>2. ops[o].arg \in alive /\ ops[ops[o].arg].kind \in Refers /\ ops[ops[o].arg].jmp_addr = o
        BY <1>11, <2>3, <3>1 DEF Core, Wired
      <3>3. ops[o].arg # b
        BY <2>3, <3>2 DEF target
      <3> QED
        BY <1>1, <1>4, <2>3, <3>1, <3>2, <3>3
    <2> QED
      BY <1>1, <1>6, <1>22, <2>1, <2>2, <2>3
  <1>23. ASSUME NEW o \in alive' PROVE Wired(o)'
    BY <1>21, <1>22 DEF Wired
  <1>24. ASSUME NEW o \in alive' PROVE TurnedRight(o)'
    <2>1. CASE o = b
      BY <1>1, <1>3, <1>4, <1>5, <1>7, <1>10, <2>1 DEF TurnedRight
    <2>2. CASE o = jump
      BY <1>3, <1>6, <1>10, <2>2 DEF TurnedRight
    <2>3. CASE o = patch
      <3>1. next[b] # 0 => next[b] \in alive /\ ~MadeJump(next[b])
        BY <1>1, <1>11 DEF Core, TurnedRight
      <3> QED
        BY <1>3, <1>7, <1>9, <2>3, <3>1 DEF TurnedRight, MadeJump
    <2>4. CASE o \in alive /\ o # b
      <3>1. /\ next'[o] = next[o] /\ (ops'[o].turned <=> ops[o].turned) /\ ops'[o].kind = ops[o].kind
            /\ ops'[o].jmp_addr = ops[o].jmp_addr /\ TurnedRight(o) /\ Wired(o)
            /\ next[o] \in alive \cup {0}
        BY <1>3, <1>4, <1>11, <2>4 DEF Core
      <3>2. ASSUME ops'[o].turned
            PROVE  /\ ops'[o].kind = "BRANCH" /\ next'[o] \in alive' /\ MadeJump(next[o])'
                   /\ next'[next'[o]] = ops'[o].jmp_addr /\ ops'[ops'[o].jmp_addr].kind = "PATCH"
        <4>1. /\ ops[o].kind = "BRANCH" /\ next[o] \in alive /\ MadeJump(next[o])
              /\ next[next[o]] = ops[o].jmp_addr /\ ops[ops[o].jmp_addr].kind = "PATCH"
          BY <3>1, <3>2 DEF TurnedRight
        <4>2. ops[o].jmp_addr \in alive
          BY <3>1, <4>1 DEF Wired, Refers
        <4>3. next[o] # b
          BY <4>1 DEF MadeJump
        <4>4. MadeJump(next[o])'
          BY <1>4, <3>1, <4>1 DEF MadeJump
        <4> QED
          BY <1>1, <1>3, <1>4, <3>1, <4>1, <4>2, <4>3, <4>4
      <3>3. ASSUME next'[o] # 0, MadeJump(next[o])' PROVE ops'[o].turned
        <4>1. MadeJump(next[o])
          BY <1>4, <3>1, <3>3 DEF MadeJump
        <4> QED
          BY <3>1, <3>3, <4>1 DEF TurnedRight
      <3> QED
        BY <3>2, <3>3 DEF TurnedRight
    <2> QED
      BY <1>1, <2>1, <2>2, <2>3, <2>4
  <1>25. ASSUME NEW o \in alive' PROVE Aims(o)'
    <2>1. CASE o \in {jump, patch}
      BY <1>6, <1>7, <2>1 DEF Aims
    <2>2. CASE o = b
      <3>1. ops[b].item # 0 => ops[target].item = source[ops[b].item].to
        BY <1>1, <1>11 DEF Core, Aims, Refers, target
      <3>2. ops'[ops'[next'[b]].jmp_addr].item = ops[target].item
        BY <1>2, <1>3, <1>4, <1>6
      <3> QED
        BY <1>1, <1>4, <1>5, <2>2, <3>1, <3>2 DEF Aims
    <2>3. CASE o \in alive /\ o # b
      <3> SUFFICES ASSUME ops'[o].item # 0, ops'[o].kind \in Refers
                   PROVE  ops'[ops'[IF ops'[o].turned THEN next'[o] ELSE o].jmp_addr].item
                            = source'[ops'[o].item].to
        BY DEF Aims
      <3> DEFINE a == IF ops[o].turned THEN next[o] ELSE o
      <3>1. ops[o].item # 0 /\ ops[o].kind \in Refers /\ Aims(o) /\ TurnedRight(o)
        BY <1>4, <1>11, <2>3 DEF Core
      <3>2. a \in alive /\ a # b /\ ops[a].kind \in Refers
        BY <2>3, <3>1 DEF TurnedRight, MadeJump, Refers
      <3>3. (IF ops'[o].turned THEN next'[o] ELSE o) = a
        BY <1>3, <1>4, <2>3
      <3>4. ops[ops[a].jmp_addr].item = source[ops[o].item].to
        BY <3>1 DEF Aims
      <3> HIDE DEF a
      <3>5. ops[a].jmp_addr \in alive
        BY <1>11, <3>2 DEF Core, Wired
      <3>6. ops'[ops'[a].jmp_addr].item = ops[ops[a].jmp_addr].item /\ ops'[o].item = ops[o].item
        BY <1>4, <2>3, <3>2, <3>5
      <3> QED
        BY <1>1, <3>3, <3>4, <3>6
    <2> QED
      BY <1>1, <2>1, <2>2, <2>3
  <1>26. ASSUME NEW o \in alive' PROVE Loops(o)' /\ Spilled(o)'
    <2>1. CASE o \in alive /\ ops[o].kind = "TRANSFER_CPY"
      <3>1. o # b /\ o # target /\ Loops(o)
        BY <1>2, <1>11, <2>1 DEF Core
      <3> QED
        BY <1>1, <1>4, <2>1, <3>1 DEF Loops, Spilled
    <2>2. CASE o \in alive /\ ops[o].kind = "FULL_SPILL"
      <3>1. o # b /\ Spilled(o)
        BY <1>11, <2>2 DEF Core
      <3> QED
        BY <1>1, <1>3, <1>4, <2>2, <3>1 DEF Loops, Spilled
    <2>3. CASE o \in alive /\ ops[o].kind \notin {"TRANSFER_CPY", "FULL_SPILL"}
      BY <1>4, <2>3 DEF Loops, Spilled
    <2>4. CASE o \in {jump, patch}
      BY <1>6, <1>7, <2>4 DEF Loops, Spilled
    <2> QED
      BY <1>1, <2>1, <2>2, <2>3, <2>4
  <1>27. ASSUME NEW o \in alive' PROVE Used(o)' => ops'[o].in_use
    BY <1>1, <1>4, <1>6, <1>7, <1>9 DEF Used, KeptOp
  <1> QED
    BY <1>20, <1>23, <1>24, <1>25, <1>26, <1>27 DEF KeptOp, Core

LEMMA AdjustKept ==
    ASSUME ListIInv, KeptInv, AdjustBranch
    PROVE  KeptInv'
  <1>0. /\ pass = "branches" /\ pass' = "branches" /\ ops[cur].kind = "BRANCH"
        /\ alive \subseteq Ids /\ ops \in [Ids -> Op] /\ UNCHANGED source
        /\ cur \in alive /\ cur' \in alive'
    BY DEF AdjustBranch, Goto, ListIInv, ListInv, ListTyped
  <1>1. PICK n, s : Path(s, n, alive, next, prev) /\ Kept(s, n)
    BY <1>0 DEF KeptInv
  <1>2. PICK i \in 1 .. n, jump \in Ids, patch \in Ids :
          /\ cur = s[i] /\ cur' = jump /\ Adjusts(cur, jump, patch)
          /\ Path(Inserted(Inserted(s, n, i, jump), n + 1, i + 1, patch), n + 2,
                  alive', next', prev')
    BY <1>1, AdjustFacts
  <1>3. PICK b : b = cur
    OBVIOUS
  <1>4. Adjusts(b, jump, patch)
    BY <1>2, <1>3
  <1>5. /\ \A o \in alive : KeptOp(o)
        /\ \A j, k \in 1 .. n : cur = s[k] /\ ops[s[j]].turned => j < k
        /\ Ordered(s, n) /\ Present
    BY <1>0, <1>1 DEF Kept
  <1>6. n \in Nat /\ \A j \in 1 .. n : s[j] \in alive
    BY <1>1 DEF Path
  <1>7. ~ops[b].turned /\ b \in alive /\ ops[b].kind = "BRANCH"
    BY <1>0, <1>2, <1>3, <1>5, <1>6
  <1>8. \A o \in alive' : KeptOp(o)'
    <2>1. \A o \in alive : next[o] \in alive \cup {0}
      <3>1. alive \subseteq Ids
        BY <1>0
      <3> QED
        BY <1>1, <3>1, PathFacts
    <2>2. \A o \in Ids : ops[o].arg \in Ids \cup {0}
      <3>1. \A o \in Ids : ops[o] \in Op
        BY <1>0
      <3> QED
        BY <3>1 DEF Op
    <2>3. 0 \notin Ids /\ CODESTART \in alive
      BY <1>1, StartFacts DEF Path
    <2> QED
      BY <1>0, <1>4, <1>5, <1>7, <2>1, <2>2, <2>3, AdjustCore
  <1> DEFINE uu == Inserted(Inserted(s, n, i, jump), n + 1, i + 1, patch)
  <1>9. PICK u : u = uu
    OBVIOUS
  <1>10. \A j \in 1 .. n + 2 : u[j] = IF j <= i THEN s[j] ELSE IF j = i + 1 THEN jump
                                      ELSE IF j = i + 2 THEN patch ELSE s[j - 2]
    BY <1>6, <1>9 DEF Inserted
  <1>11. /\ \A o \in alive : ops'[o].item = ops[o].item /\ (ops'[o].turned <=> o = b \/ ops[o].turned)
         /\ ops'[jump].item = 0 /\ ~ops'[jump].turned /\ ops'[patch].item = 0 /\ ~ops'[patch].turned
         /\ alive' = alive \cup {jump, patch} /\ jump \in Ids \ alive /\ patch \in Ids \ alive
    BY <1>4 DEF Adjusts
  <1>12. Path(u, n + 2, alive', next', prev')
    BY <1>2, <1>9
  <1> HIDE DEF uu
  <1>13. \A o \in alive : ops[o].item \in Nat
    BY <1>0 DEF Op
  <1>14. Ordered(u, n + 2)'
    <2> SUFFICES ASSUME NEW j \in 1 .. n + 2, NEW k \in 1 .. n + 2, j < k, ops'[u[k]].item # 0
                 PROVE  ops'[u[j]].item < ops'[u[k]].item
      BY DEF Ordered
    <2> DEFINE k1 == IF k <= i THEN k ELSE k - 2
               j1 == IF j <= i THEN j ELSE j - 2
    <2>1. k # i + 1 /\ k # i + 2
      BY <1>6, <1>10, <1>11
    <2>2. k1 \in 1 .. n /\ u[k] = s[k1]
      BY <1>6, <1>10, <2>1
    <2>3. ops'[u[k]].item = ops[s[k1]].item /\ ops[s[k1]].item \in Nat
      BY <1>6, <1>11, <1>13, <2>2
    <2>4. CASE j \in {i + 1, i + 2}
      <3>1. ops'[u[j]].item = 0
        BY <1>6, <1>10, <1>11, <2>4
      <3> QED
        BY <2>3, <3>1
    <2>5. CASE j \notin {i + 1, i + 2}
      <3>1. j1 \in 1 .. n /\ u[j] = s[j1] /\ j1 < k1
        BY <1>6, <1>10, <2>1, <2>5
      <3>2. ops'[u[j]].item = ops[s[j1]].item
        BY <1>6, <1>11, <3>1
      <3>3. ops[s[j1]].item < ops[s[k1]].item
        BY <1>5, <2>2, <2>3, <3>1 DEF Ordered
      <3> QED
        BY <2>3, <3>2, <3>3
    <2> QED
      BY <2>4, <2>5
  <1>15. Present'
    BY <1>0, <1>5, <1>11 DEF Present
  <1>16. ASSUME NEW j \in 1 .. n + 2, NEW k \in 1 .. n + 2, cur' = u[k], ops'[u[j]].turned
         PROVE  j < k
    <2>1. k = i + 1
      <3>1. i + 1 \in 1 .. n + 2 /\ u[i + 1] = jump
        BY <1>6, <1>10
      <3>2. u[i + 1] = u[k]
        BY <1>2, <1>16, <3>1
      <3>3. \A x, y \in 1 .. n + 2 : u[x] = u[y] => x = y
        BY <1>12 DEF Path
      <3> QED
        BY <3>1, <3>2, <3>3
    <2>2. j # i + 1 /\ j # i + 2
      BY <1>6, <1>10, <1>11, <1>16
    <2>3. SUFFICES ASSUME j > i + 2 PROVE FALSE
      BY <1>6, <2>1, <2>2
    <2>4. j - 2 \in 1 .. n /\ u[j] = s[j - 2] /\ j - 2 > i
      BY <1>6, <1>10, <2>3
    <2>5. s[j - 2] = b \/ ops[s[j - 2]].turned
      BY <1>6, <1>11, <1>16, <2>4
    <2>6. CASE s[j - 2] = b
      <3>1. \A x, y \in 1 .. n : s[x] = s[y] => x = y
        BY <1>1 DEF Path
      <3>2. s[j - 2] = s[i]
        BY <1>2, <1>3, <2>6
      <3>3. j - 2 = i
        BY <2>4, <3>1, <3>2
      <3> QED
        BY <1>6, <2>4, <3>3
    <2>7. CASE ops[s[j - 2]].turned
      <3>1. j - 2 < i
        BY <1>2, <1>5, <2>4, <2>7
      <3> QED
        BY <1>6, <2>4, <3>1
    <2> QED
      BY <2>5, <2>6, <2>7
  <1>17. Kept(u, n + 2)'
    BY <1>0, <1>8, <1>14, <1>15, <1>16 DEF Kept
  <1> QED
    BY <1>12, <1>17 DEF KeptInv

(* Who writes code changes nothing that is kept.                           *)
LEMMA SameKept ==
    ASSUME ListIInv, KeptInv, SameCore, UNCHANGED prev,
           \A k \in Ids : ops'[k].in_use <=> ops[k].in_use,
           pass \in {"delete", "branches", "room", "emit", "addresses"},
           pass' = "delete" => pass = "delete",
           pass' = "branches" =>
             \A n, s : Path(s, n, alive, next, prev) /\ Kept(s, n) =>
               \A j, k \in 1 .. n : cur' = s[k] /\ ops[s[j]].turned => j < k
    PROVE  KeptInv'
  <1>0. /\ UNCHANGED <<source, alive, next, prev>>
        /\ alive \subseteq Ids /\ ops \in [Ids -> Op] /\ next \in [Ids -> Ids \cup {0}]
    BY DEF ListIInv, ListInv, ListTyped, SameCore
  <1>1. PICK n, s : Path(s, n, alive, next, prev) /\ Kept(s, n)
    BY DEF KeptInv
  <1>2. \A o \in alive : /\ ops'[o].kind = ops[o].kind /\ ops'[o].item = ops[o].item
                         /\ (ops'[o].in_use <=> ops[o].in_use)
                         /\ ops'[o].turned = ops[o].turned
    BY <1>0 DEF SameCore
  <1>3. \A o \in alive : KeptOp(o)'
    <2>1. \A o \in alive : Core(o)'
      BY <1>0, <1>1, CoreKept DEF Kept, KeptOp
    <2> QED
      BY <1>0, <1>1, <1>2, <2>1 DEF Kept, KeptOp, Used, MadeJump
  <1>4. \A j \in 1 .. n : s[j] \in alive
    BY <1>1 DEF Path
  <1>5. Ordered(s, n)'
    BY <1>1, <1>2, <1>4 DEF Kept, Ordered
  <1>6. Present'
    BY <1>0, <1>1, <1>2 DEF Kept, Present
  <1>7. pass' = "delete" => \A o \in alive :
          /\ ~ops'[o].turned
          /\ ops'[o].kind \in Directives => ops'[o].in_use
          /\ ops'[o].item = 0 => ops'[o].kind \in {"CODESTART", "FULL_SPILL"}
    BY <1>1, <1>2 DEF Kept
  <1>8. pass' = "branches" => \A j, k \in 1 .. n : cur' = s[k] /\ ops'[s[j]].turned => j < k
    BY <1>1, <1>2, <1>4
  <1>9. Kept(s, n)'
    BY <1>0, <1>3, <1>5, <1>6, <1>7, <1>8 DEF Kept
  <1> QED
    BY <1>0, <1>1, <1>9 DEF KeptInv

LEMMA KeptStep ==
    ASSUME \A p \in Programs : PatchedIsReached(p) /\ TransfersReached(p),
           ListIInv, ListIInv', PatchInv, SpillInv, KeptInv, [Next]_vars
    PROVE  KeptInv' \/ Init'
  <1>0. alive \subseteq Ids /\ ops \in [Ids -> Op]
    BY DEF ListIInv, ListInv, ListTyped
  <1>1. CASE FreeAndInit
    BY <1>1, FreeStep DEF ListIInv
  <1>2. CASE MarkLiveCode
    BY <1>2, MarkKept
  <1>3. CASE DeleteOp
    BY <1>3, DeleteKept
  <1>4. CASE AdjustBranch
    BY <1>4, AdjustKept
  <1>5. CASE AddOp \/ ExpandPatchesAndLabels \/ PrepareSpill \/ NoSpill \/ AssignFunctions
    <2>1. pass' \in {"build", "spills", "done"}
      BY <1>5 DEF AddOp, ExpandPatchesAndLabels, PrepareSpill, NoSpill, AssignFunctions, Goto
    <2> QED
      BY <2>1 DEF KeptInv
  <1>6. CASE KeepOp \/ AllocateBuffer \/ CheckRoom \/ RoomForData \/ Move \/ PatchLocalAddr
    <2>1. /\ UNCHANGED <<source, alive, next, prev, ops>>
          /\ pass \in {"delete", "branches", "room", "emit", "addresses"}
          /\ pass' # "branches" /\ (pass' = "delete" => pass = "delete")
      BY <1>6 DEF KeepOp, AllocateBuffer, CheckRoom, RoomForData, Move, PatchLocalAddr, Goto, list
    <2>2. SameCore
      BY <2>1 DEF SameCore
    <2> QED
      BY <2>1, <2>2, SameKept
  <1>7. CASE Swept
    <2>1. /\ UNCHANGED <<source, alive, next, prev, ops>>
          /\ pass = "delete" /\ pass' = "branches"
      BY <1>7 DEF Swept, Goto, list
    <2>2. SameCore
      BY <2>1 DEF SameCore
    <2>3. \A n, s : Path(s, n, alive, next, prev) /\ Kept(s, n) =>
               \A j, k \in 1 .. n : cur' = s[k] /\ ops[s[j]].turned => j < k
      BY <2>1 DEF Path, Kept
    <2> QED
      BY <2>1, <2>2, <2>3, SameKept
  <1>8. CASE LeaveBranch
    <2>1. /\ UNCHANGED <<source, alive, next, prev, ops>>
          /\ pass = "branches" /\ pass' = "branches" /\ cur \in alive /\ cur' = next[cur]
      BY <1>8 DEF LeaveBranch, Goto, list, ListIInv, ListInv, ListTyped
    <2>2. SameCore
      BY <2>1 DEF SameCore
    <2>3. ASSUME NEW n, NEW s, Path(s, n, alive, next, prev), Kept(s, n),
                 NEW j \in 1 .. n, NEW k \in 1 .. n, cur' = s[k], ops[s[j]].turned
          PROVE  j < k
      <3>1. PICK i \in 1 .. n : cur = s[i]
        BY <2>1, <2>3 DEF Path
      <3>2. n \in Nat /\ j < i
        BY <2>1, <2>3, <3>1 DEF Path, Kept
      <3>3. CASE i = n
        <4>1. s[k] = 0 /\ s[k] \in Ids
          BY <1>0, <2>1, <2>3, <3>1, <3>3 DEF Path
        <4> QED
          BY <4>1, StartFacts
      <3>4. CASE i # n
        <4>1. i \in 1 .. n - 1 /\ i + 1 \in 1 .. n
          BY <3>2, <3>4
        <4>2. s[i + 1] = s[k]
          BY <2>1, <2>3, <3>1, <4>1 DEF Path
        <4>3. k = i + 1
          BY <2>3, <4>1, <4>2 DEF Path
        <4> QED
          BY <3>2, <4>3
      <3> QED
        BY <3>3, <3>4
    <2> QED
      BY <2>1, <2>2, <2>3, SameKept
  <1>9. CASE Emit
    <2>1. /\ cur \in Ids /\ EmitOp(cur) /\ UNCHANGED <<source, alive, next, prev>>
          /\ pass = "emit" /\ pass' = "room"
      BY <1>9 DEF Emit, list, Goto, ListIInv, ListInv, ListTyped
    <2>2. Notes
      BY <1>0, <2>1, EmitOpStep DEF ListIInv
    <2>3. SameCore
      BY <2>1, <2>2 DEF SameCore, Notes
    <2> QED
      BY <2>1, <2>2, <2>3, SameKept DEF Notes
  <1>10. CASE UNCHANGED vars
    <2>1. /\ UNCHANGED <<source, alive, next, prev, ops, pass, cur>>
      BY <1>10 DEF vars
    <2>2. SameCore
      BY <2>1 DEF SameCore
    <2>3. pass = "branches" =>
             \A n, s : Path(s, n, alive, next, prev) /\ Kept(s, n) =>
               \A j, k \in 1 .. n : cur' = s[k] /\ ops[s[j]].turned => j < k
      BY <2>1 DEF Kept
    <2>4. CASE pass \in {"delete", "branches", "room", "emit", "addresses"}
      BY <2>1, <2>2, <2>3, <2>4, SameKept
    <2>5. CASE pass \notin {"delete", "branches", "room", "emit", "addresses"}
      BY <2>1, <2>5 DEF KeptInv
    <2> QED
      BY <2>4, <2>5
  <1> QED
    BY <1>1, <1>2, <1>3, <1>4, <1>5, <1>6, <1>7, <1>8, <1>9, <1>10 DEF Next

-----------------------------------------------------------------------------
(* Where the code of each operation lies.                                  *)

(* What ends in a displacement to its target.                              *)
Jumps == {"JMP", "BRANCH", "CALL"}

(* The cells o occupies, without those that align it.                      *)
Size(o) == IF ops[o].kind \in {"LABEL", "PATCH", "CODESTART", "CODE_ALIGN"} THEN 0 ELSE ops[o].n

(* What the last cell of o holds.                                          *)
LastCell(o) ==
    IF ops[o].kind \in Jumps \cup {"TRANSFER_CPY"} THEN "disp"
    ELSE IF ops[o].kind \in Refs \cup DataRefs THEN "addr" ELSE "code"

(* x has the fields of a cell, and no other.                               *)
IsCell(x) == x = [of |-> x.of, c |-> x.c, d |-> x.d, turned |-> x.turned]

(* The cells of c from from to to: what aligns o, if anything, and o.      *)
Block(c, o, from, to) ==
    LET body == to - Size(o)
    IN /\ from <= body
       /\ \A x \in from + 1 .. to : IsCell(c[x])
       /\ ops[o].kind \notin {"PROLOG", "CODE_ALIGN"} => from = body
       /\ \A x \in from + 1 .. body : c[x].of = 0 /\ c[x].c = "code"
       /\ \A x \in body + 1 .. to : c[x].of = ops[o].item
       /\ \A x \in body + 1 .. to - 1 : c[x].c \in {"code", "jump"}
       /\ Size(o) # 0 => c[to].c = LastCell(o) /\ (c[to].turned <=> ops[o].turned)

LEMMA ConcatAt ==
    ASSUME NEW c, IsSeq(c), NEW d, IsSeq(d)
    PROVE  /\ IsSeq(c \o d) /\ Len(c \o d) = Len(c) + Len(d)
           /\ \A k \in 1 .. Len(c) : (c \o d)[k] = c[k]
           /\ \A k \in 1 .. Len(d) : (c \o d)[Len(c) + k] = d[k]
  <1>1. PICK S, T : c \in Seq(S) /\ d \in Seq(T)
    BY DEF IsSeq
  <1>2. c \in Seq(S \cup T) /\ d \in Seq(S \cup T)
    BY <1>1
  <1>3. IsSeq(c \o d) /\ Len(c \o d) = Len(c) + Len(d)
    BY ConcatSeq
  <1>4. \A k \in 1 .. Len(c) : (c \o d)[k] = c[k]
    BY <1>2
  <1>5. \A k \in 1 .. Len(d) : (c \o d)[Len(c) + k] = d[k]
    BY <1>2
  <1> QED
    BY <1>3, <1>4, <1>5

LEMMA PlainAt ==
    ASSUME NEW item, NEW n \in Nat
    PROVE  /\ IsSeq(Plain(item, n)) /\ Len(Plain(item, n)) = n
           /\ \A k \in 1 .. n : Plain(item, n)[k] = Cell(item, "code", 0, FALSE)
  <1>1. n \in Int /\ n >= -1 /\ n >= 0
    OBVIOUS
  <1>2. \A k \in 1 .. n : Plain(item, n)[k] = Cell(item, "code", 0, FALSE)
    BY DEF Plain
  <1> QED
    BY <1>1, <1>2, PlainSeq

(* The cells of an operation are a block wherever they stand.              *)
LEMMA BlockPlaced ==
    ASSUME NEW y, NEW o, Size(o) \in Nat, Len(y) \in Nat, Block(y, o, 0, Len(y)), NEW e,
           NEW from \in Nat, \A x \in from + 1 .. from + Len(y) : e[x] = y[x - from]
    PROVE  Block(e, o, from, from + Len(y))
  <1> DEFINE to == from + Len(y)
             body == Len(y) - Size(o)
  <1>3. /\ \A x \in 1 .. Len(y) : IsCell(y[x])
        /\ 0 <= body /\ (ops[o].kind \notin {"PROLOG", "CODE_ALIGN"} => 0 = body)
        /\ \A x \in 1 .. body : y[x].of = 0 /\ y[x].c = "code"
        /\ \A x \in body + 1 .. Len(y) : y[x].of = ops[o].item
        /\ \A x \in body + 1 .. Len(y) - 1 : y[x].c \in {"code", "jump"}
        /\ Size(o) # 0 => y[Len(y)].c = LastCell(o) /\ (y[Len(y)].turned <=> ops[o].turned)
    BY DEF Block
  <1>4. to - Size(o) = from + body /\ body \in Nat
    BY <1>3
  <1>5. ASSUME NEW x \in from + 1 .. to PROVE x - from \in 1 .. Len(y) /\ e[x] = y[x - from]
    OBVIOUS
  <1> HIDE DEF body, to
  <1>6. \A x \in from + 1 .. from + body : e[x].of = 0 /\ e[x].c = "code"
    <2> SUFFICES ASSUME NEW x \in from + 1 .. from + body PROVE e[x].of = 0 /\ e[x].c = "code"
      OBVIOUS
    <2>1. x \in from + 1 .. to /\ x - from \in 1 .. body
      BY <1>3, <1>4 DEF to, body
    <2> QED
      BY <1>3, <1>5, <2>1
  <1>7. \A x \in from + body + 1 .. to : e[x].of = ops[o].item
    <2> SUFFICES ASSUME NEW x \in from + body + 1 .. to PROVE e[x].of = ops[o].item
      OBVIOUS
    <2>1. x \in from + 1 .. to /\ x - from \in body + 1 .. Len(y)
      BY <1>3, <1>4 DEF to, body
    <2> QED
      BY <1>3, <1>5, <2>1
  <1>8. \A x \in from + body + 1 .. to - 1 : e[x].c \in {"code", "jump"}
    <2> SUFFICES ASSUME NEW x \in from + body + 1 .. to - 1 PROVE e[x].c \in {"code", "jump"}
      OBVIOUS
    <2>1. x \in from + 1 .. to /\ x - from \in body + 1 .. Len(y) - 1
      BY <1>3, <1>4 DEF to, body
    <2> QED
      BY <1>3, <1>5, <2>1
  <1>9. Size(o) # 0 => e[to] = y[Len(y)]
    <2> SUFFICES ASSUME Size(o) # 0 PROVE e[to] = y[Len(y)]
      OBVIOUS
    <2>1. to \in from + 1 .. to /\ to - from = Len(y)
      BY <1>3 DEF to, body
    <2> QED
      BY <1>5, <2>1
  <1>a. \A x \in from + 1 .. to : IsCell(e[x])
    BY <1>3, <1>5
  <1>10. from <= from + body /\ (ops[o].kind \notin {"PROLOG", "CODE_ALIGN"} => from = from + body)
    BY <1>3, <1>4
  <1> QED
    BY <1>3, <1>4, <1>6, <1>7, <1>8, <1>9, <1>a, <1>10 DEF Block, to

LEMMA BlockAppended ==
    ASSUME NEW c, IsSeq(c), NEW y, IsSeq(y), NEW o, Size(o) \in Nat, Block(y, o, 0, Len(y))
    PROVE  Block(c \o y, o, Len(c), Len(c) + Len(y))
  <1>1. Len(c) \in Nat /\ Len(y) \in Nat
    BY SeqFacts
  <1>2. \A k \in 1 .. Len(y) : (c \o y)[Len(c) + k] = y[k]
    BY ConcatAt
  <1>3. PICK e : e = c \o y
    OBVIOUS
  <1>4. ASSUME NEW x \in Len(c) + 1 .. Len(c) + Len(y) PROVE e[x] = y[x - Len(c)]
    <2>1. x - Len(c) \in 1 .. Len(y) /\ Len(c) + (x - Len(c)) = x
      BY <1>1, <1>4
    <2> QED
      BY <1>2, <1>3, <2>1
  <1> QED
    BY <1>1, <1>3, <1>4, BlockPlaced

LEMMA BodyBlock ==
    ASSUME NEW o, NEW y, NEW z \in Nat \ {0}, Size(o) = z,
           \A x \in 1 .. z : IsCell(y[x]), \A x \in 1 .. z : y[x].of = ops[o].item,
           \A x \in 1 .. z - 1 : y[x].c \in {"code", "jump"},
           y[z].c = LastCell(o), y[z].turned <=> ops[o].turned
    PROVE  Block(y, o, 0, z)
  <1>1. z - Size(o) = 0 /\ 0 + 1 = 1
    OBVIOUS
  <1>2. PICK body : body = z - Size(o) /\ body = 0
    BY <1>1
  <1>3. \A x \in 0 + 1 .. body : FALSE
    BY <1>2
  <1>4. \A x \in body + 1 .. z : y[x].of = ops[o].item
    BY <1>2
  <1>5. \A x \in body + 1 .. z - 1 : y[x].c \in {"code", "jump"}
    BY <1>2
  <1>6. 0 <= body
    BY <1>2
  <1>b. \A x \in 0 + 1 .. z : IsCell(y[x])
    BY <1>1
  <1>7. /\ 0 <= z - Size(o) /\ \A x \in 0 + 1 .. z : IsCell(y[x])
        /\ ops[o].kind \notin {"PROLOG", "CODE_ALIGN"} => 0 = z - Size(o)
        /\ \A x \in 0 + 1 .. z - Size(o) : y[x].of = 0 /\ y[x].c = "code"
        /\ \A x \in z - Size(o) + 1 .. z : y[x].of = ops[o].item
        /\ \A x \in z - Size(o) + 1 .. z - 1 : y[x].c \in {"code", "jump"}
    BY <1>2, <1>3, <1>4, <1>5, <1>6, <1>b, Zenon
  <1> QED
    BY <1>7 DEF Block

LEMMA PlainBlock ==
    ASSUME NEW o, Size(o) = ops[o].n, ops[o].n \in Nat \ {0}, LastCell(o) = "code", ~ops[o].turned
    PROVE  Block(Plain(ops[o].item, ops[o].n), o, 0, Len(Plain(ops[o].item, ops[o].n)))
  <1> DEFINE y == Plain(ops[o].item, ops[o].n)
  <1>1. Len(y) = ops[o].n /\ \A k \in 1 .. ops[o].n : y[k] = Cell(ops[o].item, "code", 0, FALSE)
    BY PlainAt
  <1> HIDE DEF y
  <1>2. \A k \in 1 .. ops[o].n : /\ y[k].of = ops[o].item /\ y[k].c = "code" /\ y[k].turned = FALSE
                                 /\ IsCell(y[k])
    BY <1>1 DEF Cell, IsCell
  <1>3. ops[o].n \in 1 .. ops[o].n /\ \A x \in 1 .. ops[o].n - 1 : x \in 1 .. ops[o].n
    OBVIOUS
  <1>4. Block(y, o, 0, ops[o].n)
    BY <1>2, <1>3, BodyBlock
  <1> QED
    BY <1>1, <1>4 DEF y

LEMMA FillAt ==
    ASSUME Buffer(buf), NEW a \in Nat \ {0}
    PROVE  /\ IsSeq(Fill(a)) /\ Len(Fill(a)) \in Nat /\ (Ip + Len(Fill(a))) % a = 0
           /\ \A k \in 1 .. Len(Fill(a)) :
             Fill(a)[k].of = 0 /\ Fill(a)[k].c = "code" /\ IsCell(Fill(a)[k])
  <1> DEFINE missing == CHOOSE k \in 0 .. a - 1 : (Ip + k) % a = 0
  <1>1. Ip \in Nat
    BY SeqFacts DEF Buffer, Ip
  <1>2. missing \in 0 .. a - 1 /\ (Ip + missing) % a = 0
    BY <1>1, AlignmentExists
  <1>3. Fill(a) = Plain(0, missing)
    BY DEF Fill
  <1> HIDE DEF missing
  <1>4. missing \in Nat
    BY <1>2
  <1>5. /\ IsSeq(Plain(0, missing)) /\ Len(Plain(0, missing)) = missing
        /\ \A k \in 1 .. missing : Plain(0, missing)[k] = Cell(0, "code", 0, FALSE)
    BY <1>4, PlainAt
  <1> QED
    BY <1>2, <1>3, <1>4, <1>5 DEF Cell, IsCell
(* What an operation other than a PATCH writes, and what is noted of it.   *)
Noted(o, from, to) ==
    /\ ops[o].kind = "LABEL" => ops[o].pos = from
    /\ ops[o].kind = "PROLOG" => ops[o].pos = to - ops[o].n
    /\ ops[o].kind \in Jumps => ops[o].pos = to - 2
    /\ ops[o].kind \in Refs \cup DataRefs => ops[o].pos = from

Wrote1(o, from, to) ==
    LET c == buf.cells
        e == buf'.cells
    IN /\ from = Len(c) /\ to = Len(e) /\ from \in Nat /\ to \in Nat /\ from <= to
       /\ Buffer(buf') /\ buf'.base = buf.base
       /\ Block(e, o, from, to)
       /\ \A x \in 1 .. from : e[x] = c[x]
       /\ ops[o].kind \in Jumps => e[to].d = Displacement(o, to - 2)
       /\ ops[o].kind = "TRANSFER_CPY" => e[to].d = ops[ops[o].arg].loop_addr - (buf.base + to)
       /\ ops[o].kind = "CODE_ALIGN" => (buf.base + to) % ops[o].n = 0

Noted1(o, from, to) ==
    /\ Noted(o, from, to)'
    /\ ops[o].kind = "TRANSFER" => ops'[o].loop_addr = buf.base + to - 1
    /\ \A k \in Ids : k # o => ops'[k].pos = ops[k].pos /\ ops'[k].loop_addr = ops[k].loop_addr
    /\ \A k \in Ids : ops'[k].fixed = ops[k].fixed

LEMMA Regrouped ==
    ASSUME NEW a \in Int, NEW b \in Int, NEW c \in Int
    PROVE  (a + b) + c - 1 = a + (b + c) - 1
  OBVIOUS

LEMMA WriteOne ==
    ASSUME Buffer(buf), NEW o, Size(o) \in Nat, NEW y, IsSeq(y), Write(y), Block(y, o, 0, Len(y)),
           ops[o].kind \in Jumps => y[Len(y)].d = Displacement(o, Len(buf.cells) + Len(y) - 2),
           ops[o].kind = "TRANSFER_CPY" =>
             y[Len(y)].d = ops[ops[o].arg].loop_addr - (buf.base + (Len(buf.cells) + Len(y))),
           ops[o].kind \in Jumps \cup {"TRANSFER_CPY"} => Len(y) # 0,
           ops[o].kind = "CODE_ALIGN" => (buf.base + (Len(buf.cells) + Len(y))) % ops[o].n = 0
    PROVE  Wrote1(o, Len(buf.cells), Len(buf.cells) + Len(y))
  <1> DEFINE c == buf.cells
             e == c \o y
             from == Len(c)
             to == Len(c) + Len(y)
  <1>1. IsSeq(c) /\ from \in Nat /\ Len(y) \in Nat /\ to \in Nat /\ from <= to
    BY SeqFacts DEF Buffer
  <1>2. /\ IsSeq(e) /\ Len(e) = to /\ \A x \in 1 .. from : e[x] = c[x]
        /\ Len(y) # 0 => e[to] = y[Len(y)]
    BY <1>1, ConcatAt
  <1>3. Block(e, o, from, to)
    BY <1>1, BlockAppended
  <1>4. buf' = [buf EXCEPT !.cells = e]
    BY DEF Write
  <1> HIDE DEF e
  <1>5. buf'.cells = e /\ buf'.base = buf.base /\ Buffer(buf')
    BY <1>2, <1>4 DEF Buffer
  <1> HIDE DEF to, from
  <1> QED
    BY <1>1, <1>2, <1>3, <1>5 DEF Wrote1, to, from

LEMMA NotePos ==
    ASSUME ops \in [Ids -> Op], NEW o \in Ids, NEW x \in Int, NEW from, NEW to, SetsPos(o, x),
           ops[o].kind # "TRANSFER",
           ops[o].kind = "PROLOG" => x = to - ops[o].n,
           ops[o].kind \in Jumps => x = to - 2,
           ops[o].kind \notin Jumps \cup {"PROLOG"} => x = from
    PROVE  Noted1(o, from, to)
  <1>0. \A k \in Ids : ops[k] \in Op
    OBVIOUS
  <1>1. \A k \in Ids : ops'[k] = IF k = o THEN [ops[k] EXCEPT !.pos = x] ELSE ops[k]
    BY DEF SetsPos
  <1>2. \A k \in Ids : /\ ops'[k].kind = ops[k].kind /\ ops'[k].n = ops[k].n
                        /\ ops'[k].fixed = ops[k].fixed /\ ops'[k].loop_addr = ops[k].loop_addr
                        /\ ops'[k].pos = IF k = o THEN x ELSE ops[k].pos
    BY <1>0, <1>1 DEF Op
  <1>3. Noted(o, from, to)'
    BY <1>2 DEF Noted, Jumps, Refs, DataRefs
  <1> QED
    BY <1>2, <1>3 DEF Noted1

LEMMA NoteLoop ==
    ASSUME ops \in [Ids -> Op], NEW o \in Ids, NEW from, NEW to,
           SetsLoop(o, buf.base + to - 1), ops[o].kind = "TRANSFER"
    PROVE  Noted1(o, from, to)
  <1>0. \A k \in Ids : ops[k] \in Op
    OBVIOUS
  <1> DEFINE x == buf.base + to - 1
  <1> HIDE DEF x
  <1>1. \A k \in Ids : ops'[k] = IF k = o THEN [ops[k] EXCEPT !.loop_addr = x] ELSE ops[k]
    BY DEF SetsLoop, x
  <1>2. \A k \in Ids : /\ ops'[k].kind = ops[k].kind /\ ops'[k].n = ops[k].n
                        /\ ops'[k].fixed = ops[k].fixed /\ ops'[k].pos = ops[k].pos
                        /\ ops'[k].loop_addr = IF k = o THEN x ELSE ops[k].loop_addr
    BY <1>0, <1>1 DEF Op
  <1>3. Noted(o, from, to)'
    BY <1>2 DEF Noted, Jumps, Refs, DataRefs
  <1> QED
    BY <1>2, <1>3 DEF Noted1, x

LEMMA NoteNone ==
    ASSUME NEW o \in Ids, NEW from, NEW to, UNCHANGED ops,
           ops[o].kind \notin {"LABEL", "PROLOG", "TRANSFER"} \cup Jumps \cup Refs \cup DataRefs
    PROVE  Noted1(o, from, to)
  BY DEF Noted1, Noted

LEMMA LastBlock ==
    ASSUME NEW o, Size(o) = ops[o].n, ops[o].n \in Nat \ {0}, ~ops[o].turned, NEW d
    PROVE  LET y == Plain(ops[o].item, ops[o].n - 1) \o <<Cell(ops[o].item, LastCell(o), d, FALSE)>>
           IN IsSeq(y) /\ Len(y) = ops[o].n /\ Block(y, o, 0, Len(y)) /\ y[Len(y)].d = d
  <1> DEFINE n == ops[o].n
             item == ops[o].item
             code == Plain(item, n - 1)
             l == Cell(item, LastCell(o), d, FALSE)
             z == <<l>>
             y == code \o z
  <1>1. n - 1 \in Nat
    OBVIOUS
  <1>2. IsSeq(code) /\ Len(code) = n - 1 /\ \A k \in 1 .. n - 1 : code[k] = Cell(item, "code", 0, FALSE)
    BY <1>1, PlainAt
  <1>3. l.of = item /\ l.c = LastCell(o) /\ l.d = d /\ l.turned = FALSE /\ IsCell(l)
    BY DEF Cell, IsCell
  <1> HIDE DEF code, l
  <1>4. IsSeq(z) /\ Len(z) = 1 /\ z[1] = l
    BY ShortSeqs
  <1> HIDE DEF z
  <1>5. /\ IsSeq(y) /\ Len(y) = Len(code) + Len(z)
        /\ \A k \in 1 .. Len(code) : y[k] = code[k]
        /\ \A k \in 1 .. Len(z) : y[Len(code) + k] = z[k]
    <2>1. IsSeq(code) /\ IsSeq(z)
      BY <1>2, <1>4
    <2> QED
      BY <2>1, ConcatAt
  <1> HIDE DEF y
  <1>6. Len(y) = n /\ y[n] = l
    <2>1. 1 \in 1 .. 1 /\ (n - 1) + 1 = n
      BY <1>1
    <2> QED
      BY <1>2, <1>4, <1>5, <2>1
  <1>7. \A x \in 1 .. n - 1 : y[x].of = item /\ y[x].c = "code" /\ IsCell(y[x])
    <2>1. \A x \in 1 .. n - 1 : y[x] = Cell(item, "code", 0, FALSE)
      BY <1>2, <1>5
    <2> QED
      BY <2>1 DEF Cell, IsCell
  <1>8. \A x \in 1 .. n : y[x].of = item /\ IsCell(y[x])
    <2>1. ASSUME NEW x \in 1 .. n PROVE y[x].of = item /\ IsCell(y[x])
      <3>1. x \in 1 .. n - 1 \/ x = n
        OBVIOUS
      <3> QED
        BY <1>3, <1>6, <1>7, <3>1
    <2> QED
      BY <2>1
  <1>9. Block(y, o, 0, n)
    BY <1>3, <1>6, <1>7, <1>8, BodyBlock
  <1> QED
    BY <1>3, <1>5, <1>6, <1>9 DEF y, z, code, l

LEMMA EmitWrites ==
    ASSUME ops \in [Ids -> Op], Buffer(buf), NEW o \in Ids, EmitOp(o), ops[o].kind # "PATCH",
           ops[o].kind \in Jumps => ops[o].n >= 2, ops[o].turned => ops[o].kind = "BRANCH"
    PROVE  \E from, to : Wrote1(o, from, to) /\ Noted1(o, from, to)
  <1> DEFINE kind == ops[o].kind
             n == ops[o].n
             item == ops[o].item
             size == Len(buf.cells)
  <1>0. kind \in OpKinds /\ n \in Nat \ {0} /\ size \in Nat /\ buf.base \in Nat /\ IsSeq(buf.cells)
    <2>1. ops[o] \in Op
      OBVIOUS
    <2> QED
      BY <2>1, SeqFacts DEF Op, Buffer
  <1>s. Size(o) \in Nat
    BY <1>0 DEF Size
  <1>1. CASE kind = "PROLOG" /\ EmitProlog(o)
    <2> DEFINE fill == Fill(PrologAlign)
               code == Plain(item, n)
               y == fill \o code
    <2>1. /\ IsSeq(fill) /\ Len(fill) \in Nat
          /\ \A k \in 1 .. Len(fill) : fill[k].of = 0 /\ fill[k].c = "code" /\ IsCell(fill[k])
      BY FillAt, SizesAssumption
    <2>2. IsSeq(code) /\ Len(code) = n /\ \A k \in 1 .. n : code[k] = Cell(item, "code", 0, FALSE)
      BY <1>0, PlainAt
    <2>3. Write(y) /\ SetsPos(o, size + Len(fill))
      BY <1>1 DEF EmitProlog, SetsPos
    <2> HIDE DEF fill, code
    <2>c. /\ IsSeq(y) /\ Len(y) = Len(fill) + Len(code)
          /\ \A k \in 1 .. Len(fill) : y[k] = fill[k]
          /\ \A k \in 1 .. Len(code) : y[Len(fill) + k] = code[k]
      <3>1. IsSeq(fill) /\ IsSeq(code)
        BY <2>1, <2>2
      <3> QED
        BY <3>1, ConcatAt
    <2> HIDE DEF y
    <2>4. /\ IsSeq(y) /\ Len(y) = Len(fill) + n
          /\ \A k \in 1 .. Len(fill) : y[k] = fill[k]
          /\ \A k \in 1 .. n : y[Len(fill) + k] = code[k]
      BY <2>2, <2>c
    <2>5. \A x \in Len(fill) + 1 .. Len(y) : y[x] = Cell(item, "code", 0, FALSE)
      <3> SUFFICES ASSUME NEW x \in Len(fill) + 1 .. Len(y) PROVE y[x] = Cell(item, "code", 0, FALSE)
        OBVIOUS
      <3>1. x - Len(fill) \in 1 .. n /\ Len(fill) + (x - Len(fill)) = x
        BY <1>0, <2>1, <2>4
      <3> QED
        BY <2>2, <2>4, <3>1
    <2>6. \A x \in Len(fill) + 1 .. Len(y) :
            y[x].of = item /\ y[x].c = "code" /\ y[x].turned = FALSE /\ IsCell(y[x])
      BY <2>5 DEF Cell, IsCell
    <2>7. Size(o) = n /\ LastCell(o) = "code" /\ ~ops[o].turned
      BY <1>1 DEF Size, LastCell, Jumps, Refs, DataRefs
    <2>8. Block(y, o, 0, Len(y))
      <3>1. Len(y) - Size(o) = Len(fill) /\ 0 <= Len(fill) /\ Len(y) \in Len(fill) + 1 .. Len(y) /\ 0 + 1 = 1
        BY <1>0, <2>1, <2>4, <2>7
      <3>2. \A x \in 1 .. Len(fill) : y[x].of = 0 /\ y[x].c = "code" /\ IsCell(y[x])
        BY <2>1, <2>4
      <3>4. \A x \in 1 .. Len(y) : IsCell(y[x])
        <4>1. ASSUME NEW x \in 1 .. Len(y) PROVE IsCell(y[x])
          <5>1. x \in 1 .. Len(fill) \/ x \in Len(fill) + 1 .. Len(y)
            BY <1>0, <2>1, <2>4
          <5> QED
            BY <2>6, <3>2, <5>1
        <4> QED
          BY <4>1
      <3>3. \A x \in Len(fill) + 1 .. Len(y) - 1 : x \in Len(fill) + 1 .. Len(y)
        BY <1>0, <2>1, <2>4
      <3> QED
        BY <1>1, <2>6, <2>7, <3>1, <3>2, <3>3, <3>4 DEF Block
    <2>9. Wrote1(o, size, size + Len(y))
      <3>1. ops[o].kind \notin Jumps /\ ops[o].kind # "TRANSFER_CPY" /\ ops[o].kind # "CODE_ALIGN"
        BY <1>1 DEF Jumps
      <3> QED
        BY <1>s, <2>3, <2>4, <2>8, <3>1, WriteOne
    <2>10. Noted1(o, size, size + Len(y))
      <3>1. size + Len(fill) \in Int /\ size + Len(fill) = (size + Len(y)) - n
        BY <1>0, <2>1, <2>4
      <3>2. ops[o].kind \notin Jumps
        BY <1>1 DEF Jumps
      <3> QED
        BY <1>1, <2>3, <3>1, <3>2, NotePos
    <2> QED
      BY <2>9, <2>10
  <1>2. CASE kind \in Jumps /\ EmitJump(o)
    <2> DEFINE code == Plain(item, n - 2)
               a == Cell(item, "jump", 0, ops[o].turned)
               d == Cell(item, "disp", Displacement(o, PatchAddr(o)), ops[o].turned)
               z == <<a, d>>
               y == code \o z
    <2>0. n - 2 \in Nat
      BY <1>0, <1>2
    <2>1. IsSeq(code) /\ Len(code) = n - 2 /\ \A k \in 1 .. n - 2 : code[k] = Cell(item, "code", 0, FALSE)
      BY <2>0, PlainAt
    <2>2. /\ IsCell(a) /\ IsCell(d)
          /\ a.of = item /\ a.c = "jump" /\ d.of = item /\ d.c = "disp"
          /\ d.d = Displacement(o, PatchAddr(o)) /\ d.turned = ops[o].turned
      BY DEF Cell, IsCell
    <2>3. Write(y) /\ SetsPos(o, PatchAddr(o)) /\ PatchAddr(o) = size + n - 2
      BY <1>2 DEF EmitJump, SetsPos, PatchAddr, Jump
    <2> HIDE DEF code, a, d
    <2>4. IsSeq(z) /\ Len(z) = 2 /\ z[1] = a /\ z[2] = d
      BY ShortSeqs
    <2> HIDE DEF z
    <2>c. /\ IsSeq(y) /\ Len(y) = Len(code) + Len(z)
          /\ \A k \in 1 .. Len(code) : y[k] = code[k]
          /\ \A k \in 1 .. Len(z) : y[Len(code) + k] = z[k]
      <3>1. IsSeq(code) /\ IsSeq(z)
        BY <2>1, <2>4
      <3> QED
        BY <3>1, ConcatAt
    <2> HIDE DEF y
    <2>5. IsSeq(y) /\ \A k \in 1 .. n - 2 : y[k] = Cell(item, "code", 0, FALSE)
      BY <2>1, <2>c
    <2>6. Len(y) = n /\ y[n - 1] = a /\ y[n] = d
      <3>1. 1 \in 1 .. 2 /\ 2 \in 1 .. 2 /\ (n - 2) + 1 = n - 1 /\ (n - 2) + 2 = n
        BY <1>0
      <3> QED
        BY <2>1, <2>4, <2>c, <3>1
    <2>7. Size(o) = n /\ LastCell(o) = "disp"
      BY <1>2 DEF Size, LastCell, Jumps
    <2>8. Block(y, o, 0, Len(y))
      <3>2. \A x \in 1 .. n : y[x].of = item /\ IsCell(y[x])
        <4>1. ASSUME NEW x \in 1 .. n PROVE y[x].of = item /\ IsCell(y[x])
          <5>1. x \in 1 .. n - 2 \/ x = n - 1 \/ x = n
            BY <1>0
          <5>2. \A k \in 1 .. n - 2 : y[k].of = item /\ IsCell(y[k])
            BY <2>5 DEF Cell, IsCell
          <5> QED
            BY <2>2, <2>6, <5>1, <5>2
        <4> QED
          BY <4>1
      <3>3. \A x \in 1 .. n - 1 : y[x].c \in {"code", "jump"}
        <4>1. ASSUME NEW x \in 1 .. n - 1 PROVE y[x].c \in {"code", "jump"}
          <5>1. x \in 1 .. n - 2 \/ x = n - 1
            BY <1>0
          <5>2. \A k \in 1 .. n - 2 : y[k].c = "code"
            BY <2>5 DEF Cell
          <5> QED
            BY <2>2, <2>6, <5>1, <5>2
        <4> QED
          BY <4>1
      <3> QED
        BY <1>0, <2>2, <2>6, <2>7, <3>2, <3>3, BodyBlock
    <2>9. Wrote1(o, size, size + Len(y))
      <3>1. PatchAddr(o) = size + Len(y) - 2 /\ Len(y) # 0
        BY <1>0, <2>3, <2>6
      <3>2. y[Len(y)].d = Displacement(o, size + Len(y) - 2)
        BY <2>2, <2>6, <3>1
      <3>3. ops[o].kind # "TRANSFER_CPY" /\ ops[o].kind # "CODE_ALIGN"
        BY <1>2 DEF Jumps
      <3> QED
        BY <1>s, <2>3, <2>5, <2>8, <3>1, <3>2, <3>3, WriteOne
    <2>10. Noted1(o, size, size + Len(y))
      <3>1. PatchAddr(o) \in Int /\ PatchAddr(o) = (size + Len(y)) - 2
        BY <1>0, <2>3, <2>6
      <3>2. ops[o].kind # "TRANSFER" /\ ops[o].kind # "PROLOG"
        BY <1>2 DEF Jumps
      <3> QED
        BY <1>2, <2>3, <3>1, <3>2, NotePos
    <2> QED
      BY <2>9, <2>10
  <1>3. CASE kind \in Refs \cup DataRefs /\ EmitRef(o)
    <2> DEFINE y == Plain(item, n - 1) \o <<Cell(item, "addr", 0, FALSE)>>
    <2>1. Write(y) /\ SetsPos(o, size)
      BY <1>3 DEF EmitRef, RefCells, SetsPos
    <2>2. /\ Size(o) = n /\ LastCell(o) = "addr" /\ ~ops[o].turned
          /\ kind \notin Jumps \cup {"PROLOG", "TRANSFER", "TRANSFER_CPY", "CODE_ALIGN"}
      BY <1>3 DEF Size, LastCell, Jumps, Refs, DataRefs
    <2>3. IsSeq(y) /\ Block(y, o, 0, Len(y))
      BY <1>0, <2>2, LastBlock
    <2> HIDE DEF y
    <2>4. Wrote1(o, size, size + Len(y))
      BY <1>s, <2>1, <2>2, <2>3, WriteOne
    <2>5. Noted1(o, size, size + Len(y))
      BY <1>0, <2>1, <2>2, NotePos
    <2> QED
      BY <2>4, <2>5
  <1>4. CASE kind = "TRANSFER_CPY" /\ EmitTransferLoop(o)
    <2> DEFINE x == ops[ops[o].arg].loop_addr - (Ip + n)
               y == Plain(item, n - 1) \o <<Cell(item, "disp", x, FALSE)>>
    <2>1. Write(y) /\ UNCHANGED ops
      BY <1>4 DEF EmitTransferLoop
    <2>2. /\ Size(o) = n /\ LastCell(o) = "disp" /\ ~ops[o].turned
          /\ kind \notin {"LABEL", "PROLOG", "TRANSFER"} \cup Jumps \cup Refs \cup DataRefs
      BY <1>4 DEF Size, LastCell, Jumps, Refs, DataRefs
    <2> HIDE DEF x
    <2>a. y = Plain(item, n - 1) \o <<Cell(item, LastCell(o), x, FALSE)>>
      BY <2>2
    <2> HIDE DEF y
    <2>3. IsSeq(y) /\ Block(y, o, 0, Len(y)) /\ Len(y) = n /\ y[Len(y)].d = x
      <3>1. n \in Nat \ {0} /\ Size(o) = n /\ ~ops[o].turned
        BY <1>0, <2>2
      <3> QED
        BY <2>a, <3>1, LastBlock
    <2> HIDE DEF y
    <2>4. Wrote1(o, size, size + Len(y))
      <3>1. x = ops[ops[o].arg].loop_addr - (buf.base + (size + Len(y)))
        <4>1. Ip + n = buf.base + (size + Len(y))
          BY <1>0, <2>3 DEF Ip
        <4> QED
          BY <4>1 DEF x
      <3>2. kind \notin Jumps /\ Len(y) # 0 /\ kind # "CODE_ALIGN"
        BY <1>0, <1>4, <2>2, <2>3
      <3> QED
        BY <1>s, <2>1, <2>3, <3>1, <3>2, WriteOne
    <2>5. Noted1(o, size, size + Len(y))
      BY <2>1, <2>2, NoteNone
    <2> QED
      BY <2>4, <2>5
  <1>5. CASE \/ kind = "TRANSFER" /\ EmitTransfer(o)
             \/ kind \in {"OTHER", "RET", "DATA_BYTE", "DATA_BYTES", "FULL_SPILL"}
                  /\ EmitPlain(Plain(item, n))
    <2> DEFINE y == Plain(item, n)
    <2>1. /\ Write(y)
          /\ \/ kind = "TRANSFER" /\ SetsLoop(o, Ip + n - 1)
             \/ kind # "TRANSFER" /\ UNCHANGED ops
      BY <1>5 DEF EmitTransfer, EmitPlain, SetsLoop
    <2>2. /\ Size(o) = n /\ LastCell(o) = "code" /\ ~ops[o].turned
          /\ kind \notin {"LABEL", "PROLOG", "TRANSFER_CPY", "CODE_ALIGN"} \cup Jumps \cup Refs \cup DataRefs
      BY <1>5 DEF Size, LastCell, Jumps, Refs, DataRefs
    <2>3. IsSeq(y) /\ Len(y) = n /\ Block(y, o, 0, Len(y))
      BY <1>0, <2>2, PlainAt, PlainBlock
    <2> HIDE DEF y
    <2>4. Wrote1(o, size, size + Len(y))
      BY <1>s, <2>1, <2>2, <2>3, WriteOne
    <2>5. Noted1(o, size, size + Len(y))
      <3>1. CASE kind = "TRANSFER" /\ SetsLoop(o, Ip + n - 1)
        <4>1. Ip + n - 1 = buf.base + (size + Len(y)) - 1
          <5>1. Ip = buf.base + size /\ Len(y) = n
            BY <1>0, <2>3 DEF Ip
          <5>2. buf.base \in Int /\ size \in Int /\ n \in Int
            BY <1>0
          <5>3. (buf.base + size) + n - 1 = buf.base + (size + n) - 1
            BY <5>2, Regrouped
          <5> QED
            BY <5>1, <5>3
        <4> QED
          BY <3>1, <4>1, NoteLoop
      <3>2. CASE kind # "TRANSFER" /\ UNCHANGED ops
        BY <2>2, <3>2, NoteNone
      <3> QED
        BY <2>1, <3>1, <3>2
    <2> QED
      BY <2>4, <2>5
  <1>6. CASE kind = "CODE_ALIGN" /\ EmitPlain(Fill(n))
    <2> DEFINE y == Fill(n)
    <2>1. Write(y) /\ UNCHANGED ops
      BY <1>6 DEF EmitPlain
    <2>2. /\ IsSeq(y) /\ Len(y) \in Nat /\ (Ip + Len(y)) % n = 0
          /\ \A k \in 1 .. Len(y) : y[k].of = 0 /\ y[k].c = "code" /\ IsCell(y[k])
      BY <1>0, FillAt
    <2> HIDE DEF y
    <2>3. Block(y, o, 0, Len(y))
      <3>1. Size(o) = 0
        BY <1>6 DEF Size
      <3>2. Len(y) - Size(o) = Len(y) /\ 0 <= Len(y) /\ 0 + 1 = 1
        BY <2>2, <3>1
      <3>3. \A x \in Len(y) + 1 .. Len(y) : FALSE
        BY <2>2
      <3>4. \A x \in Len(y) + 1 .. Len(y) - 1 : FALSE
        BY <2>2
      <3> QED
        BY <1>6, <2>2, <3>1, <3>2, <3>3, <3>4 DEF Block
    <2>4. Wrote1(o, size, size + Len(y))
      <3>1. (buf.base + (size + Len(y))) % n = 0
        <4>1. Ip + Len(y) = buf.base + (size + Len(y))
          BY <1>0, <2>2 DEF Ip
        <4> QED
          BY <2>2, <4>1
      <3>2. kind \notin Jumps /\ kind # "TRANSFER_CPY"
        BY <1>6 DEF Jumps
      <3> QED
        BY <1>s, <2>1, <2>2, <2>3, <3>1, <3>2, WriteOne
    <2>5. Noted1(o, size, size + Len(y))
      BY <1>6, <2>1, NoteNone DEF Jumps, Refs, DataRefs
    <2> QED
      BY <2>4, <2>5
  <1>7. CASE (kind = "LABEL" /\ EmitLabel(o)) \/ (kind = "CODESTART" /\ EmitNothing)
    <2>1. UNCHANGED buf
      BY <1>7 DEF EmitLabel, EmitNothing
    <2>2. /\ Size(o) = 0
          /\ kind \notin Jumps \cup {"TRANSFER_CPY", "CODE_ALIGN", "TRANSFER", "PROLOG"}
          /\ kind \notin Refs \cup DataRefs
      BY <1>7 DEF Size, Jumps, Refs, DataRefs
    <2>3. Block(buf.cells, o, size, size)
      <3>1. size - Size(o) = size /\ size <= size
        BY <1>0, <2>2
      <3>2. \A x \in size + 1 .. size : FALSE
        BY <1>0
      <3>3. \A x \in size + 1 .. size - 1 : FALSE
        BY <1>0
      <3> QED
        BY <2>2, <3>1, <3>2, <3>3 DEF Block
    <2>4. Wrote1(o, size, size)
      <3>1. size <= size
        BY <1>0
      <3> QED
        BY <1>0, <2>1, <2>2, <2>3, <3>1 DEF Wrote1
    <2>5. Noted1(o, size, size)
      <3>1. CASE kind = "LABEL" /\ EmitLabel(o)
        <4>1. SetsPos(o, size) /\ size \in Int
          BY <1>0, <3>1 DEF EmitLabel, SetsPos
        <4> QED
          BY <2>2, <4>1, NotePos
      <3>2. CASE kind = "CODESTART" /\ EmitNothing
        BY <2>2, <3>2, NoteNone DEF EmitNothing
      <3> QED
        BY <1>7, <3>1, <3>2
    <2> QED
      BY <2>4, <2>5
  <1> QED
    BY <1>1, <1>2, <1>3, <1>4, <1>5, <1>6, <1>7 DEF EmitOp, Jumps

(* Labels lie behind what leads to them, what is patched lies ahead.       *)
LEMMA ItemOrder ==
    ASSUME ops \in [Ids -> Op], alive \subseteq Ids, source \in Programs,
           NEW n, NEW s, Path(s, n, alive, next, prev), Ordered(s, n), \A o \in alive : Core(o),
           NEW w \in 1 .. n, ops[s[w]].item # 0, ops[s[w]].kind \in Refers,
           NEW q \in 1 .. n, ops[s[q]].item = source[ops[s[w]].item].to
    PROVE  /\ ops[s[q]].kind = "LABEL" => q < w
           /\ ops[s[q]].kind = "PATCH" => w < q
  <1>1. n \in Nat /\ s[w] \in alive /\ s[q] \in alive
    BY DEF Path
  <1> DEFINE i == ops[s[w]].item
             to == ops[s[q]].item
  <1>2. i \in DOMAIN source /\ source[i].kind = ops[s[w]].kind /\ i \in Nat /\ to \in Nat
    <2>1. Stands(s[w]) /\ ops[s[w]] \in Op /\ ops[s[q]] \in Op
      BY <1>1 DEF Core
    <2> QED
      BY <2>1 DEF Stands, Op
  <1>3. \/ to \in 1 .. i - 1 /\ source[to].kind = "LABEL"
        \/ to \in i + 1 .. Len(source) /\ source[to].kind = "PATCH"
    BY <1>2, ProgramFacts
  <1>4. to # 0 /\ to \in DOMAIN source
    <2>1. DOMAIN source = 1 .. Len(source) /\ Len(source) \in Nat
      BY ProgramFacts
    <2>2. i \in Nat /\ i >= 1 /\ i <= Len(source)
      BY <1>2, <2>1
    <2> HIDE DEF i, to
    <2>3. to \in 1 .. Len(source)
      BY <1>3, <2>1, <2>2
    <2> QED
      BY <2>1, <2>3
  <1>5. ops[s[q]].kind = source[to].kind
    <2>1. Stands(s[q])
      BY <1>1 DEF Core
    <2> QED
      BY <1>4, <2>1 DEF Stands
  <1>6. /\ w < q => i < to
        /\ q < w => to < i
    BY <1>4 DEF Ordered
  <1>7. w # q
    BY <1>2, <1>3
  <1> QED
    BY <1>1, <1>2, <1>3, <1>5, <1>6, <1>7

LEMMA TargetsLie ==
    ASSUME ops \in [Ids -> Op], alive \subseteq Ids, source \in Programs,
           NEW n, NEW s, Path(s, n, alive, next, prev), Ordered(s, n), \A o \in alive : Core(o),
           NEW k \in 1 .. n, ops[s[k]].kind \in Refers
    PROVE  \E q \in 1 .. n :
             /\ s[q] = ops[s[k]].jmp_addr
             /\ \/ ops[s[q]].kind = "LABEL" /\ ops[s[k]].arg = s[q] /\ q < k
                \/ ops[s[q]].kind = "PATCH" /\ ops[s[q]].arg = s[k] /\ ~IsLabel(ops[s[k]].arg) /\ k < q
  <1> DEFINE o == s[k]
  <1>1. n \in Nat /\ o \in alive /\ o \in Ids
    BY DEF Path
  <1>2. Stands(o) /\ Wired(o) /\ TurnedRight(o) /\ Aims(o)
    BY <1>1 DEF Core
  <1>3. PICK q \in 1 .. n : s[q] = ops[o].jmp_addr
    BY <1>2 DEF Wired, Path
  <1>4. \/ ops[s[q]].kind = "LABEL" /\ ops[o].arg = s[q]
        \/ ops[s[q]].kind = "PATCH" /\ ops[s[q]].arg = o /\ ~IsLabel(ops[o].arg)
    BY <1>2, <1>3 DEF Wired
  <1>5. (ops[s[q]].kind = "LABEL" => q < k) /\ (ops[s[q]].kind = "PATCH" => k < q)
    <2>1. CASE ops[o].item # 0 /\ ~ops[o].turned
      <3>1. ops[s[q]].item = source[ops[o].item].to
        BY <1>2, <1>3, <2>1 DEF Aims
      <3> QED
        BY <2>1, <3>1, ItemOrder
    <2>2. CASE ops[o].turned
      <3>1. next[o] \in alive /\ next[next[o]] = s[q] /\ ops[s[q]].kind = "PATCH"
        BY <1>2, <1>3, <2>2 DEF TurnedRight
      <3>2. k + 1 \in 1 .. n /\ next[o] = s[k + 1]
        <4>1. k # n
          <5>1. next[s[n]] = 0
            BY DEF Path
          <5> QED
            BY <3>1, <5>1, StartFacts
        <4> QED
          BY <1>1, <4>1 DEF Path
      <3>3. s[q] \in alive
        BY DEF Path
      <3>4. k + 2 \in 1 .. n /\ next[s[k + 1]] = s[k + 2]
        <4>1. k + 1 # n
          <5>1. next[s[n]] = 0
            BY DEF Path
          <5> QED
            BY <3>1, <3>2, <3>3, <5>1, StartFacts
        <4>2. k + 1 \in 1 .. n - 1 /\ (k + 1) + 1 = k + 2 /\ k + 2 \in 1 .. n
          BY <1>1, <3>2, <4>1
        <4> QED
          BY <4>2 DEF Path
      <3>5. q = k + 2
        <4>1. s[q] = s[k + 2]
          BY <3>1, <3>2, <3>4
        <4> QED
          BY <3>4, <4>1 DEF Path
      <3> QED
        BY <1>1, <3>1, <3>5
    <2>3. CASE ops[o].item = 0
      <3>1. MadeJump(o) /\ ops[o].kind = "JMP" /\ o # CODESTART
        BY <1>2, <2>3 DEF Stands, Refers, MadeJump
      <3>2. k # 1
        BY <3>1 DEF Path
      <3>3. k - 1 \in 1 .. n - 1 /\ (k - 1) + 1 = k /\ k - 1 \in 1 .. n
        BY <1>1, <3>2
      <3> DEFINE b == s[k - 1]
      <3>4. b \in alive /\ next[b] = o
        BY <3>3 DEF Path
      <3> HIDE DEF b
      <3>5. o # 0
        BY <1>1, StartFacts
      <3>6. ops[b].turned /\ ops[b].kind = "BRANCH" /\ Aims(b) /\ Stands(b)
        BY <3>1, <3>4, <3>5 DEF Core, TurnedRight
      <3>7. ops[b].item # 0
        BY <3>6 DEF Stands
      <3>8. ops[s[q]].item = source[ops[b].item].to
        BY <1>3, <3>4, <3>6, <3>7 DEF Aims, Refers
      <3>9. ops[b].kind \in Refers
        BY <3>6 DEF Refers
      <3>10. (ops[s[q]].kind = "LABEL" => q < k - 1) /\ (ops[s[q]].kind = "PATCH" => k - 1 < q)
        BY <3>3, <3>7, <3>8, <3>9, ItemOrder DEF b
      <3>11. ops[s[q]].kind = "PATCH" => q # k
        BY <3>1
      <3> QED
        BY <1>1, <3>3, <3>10, <3>11
    <2> QED
      BY <2>1, <2>2, <2>3
  <1> QED
    BY <1>3, <1>4, <1>5

(***************************************************************************)
(* A PATCH writes the displacement of a jump, or notes where a reference   *)
(* leads.                                                                  *)
(***************************************************************************)
Patches(o) ==
    LET c  == buf.cells
        e  == buf'.cells
        t  == ops[o].arg
        at == ops[t].pos + 2
    IN /\ Buffer(buf') /\ buf'.base = buf.base /\ Len(e) = Len(c)
       /\ \A k \in Ids : ops'[k].pos = ops[k].pos /\ ops'[k].loop_addr = ops[k].loop_addr
       /\ \A k \in Ids : ops'[k].fixed =
             IF k = t /\ ops[t].in_use /\ ops[t].kind \in Refs \cup DataRefs THEN Len(c) ELSE ops[k].fixed
       /\ \A x \in 1 .. Len(c) :
             /\ e[x].of = c[x].of /\ e[x].c = c[x].c /\ (e[x].turned <=> c[x].turned) /\ IsCell(e[x])
             /\ e[x].d = IF x = at /\ ops[t].in_use /\ ops[t].kind \notin Refs \cup DataRefs
                         THEN Len(c) - x ELSE c[x].d

LEMMA OtherDisplacement ==
    ASSUME NEW r, IsCell(r), NEW v
    PROVE  LET x == [r EXCEPT !.d = v]
           IN /\ x.of = r.of /\ x.c = r.c /\ (x.turned <=> r.turned) /\ x.d = v
              /\ IsCell(x)
  <1> DEFINE x == [r EXCEPT !.d = v]
  <1>1. PICK a, b, d, e : r = [of |-> a, c |-> b, d |-> d, turned |-> e]
    BY DEF IsCell
  <1>2. x = [of |-> a, c |-> b, d |-> v, turned |-> e]
    BY <1>1
  <1> HIDE DEF x
  <1>3. /\ x.of = a /\ x.c = b /\ x.d = v /\ x.turned = e
        /\ r.of = a /\ r.c = b /\ r.turned = e
    BY <1>1, <1>2
  <1>4. IsCell(x)
    BY <1>2, <1>3 DEF IsCell
  <1> QED
    BY <1>3, <1>4 DEF x

LEMMA EmitPatches ==
    ASSUME ops \in [Ids -> Op], Buffer(buf), NEW o \in Ids, EmitOp(o), ops[o].kind = "PATCH",
           \A x \in 1 .. Len(buf.cells) : IsCell(buf.cells[x])
    PROVE  Patches(o)
  <1> DEFINE c == buf.cells
             t == ops[o].arg
             at == ops[t].pos + 2
  <1>0. Len(c) \in Nat /\ DOMAIN c = 1 .. Len(c) /\ IsSeq(c)
    BY SeqFacts DEF Buffer
  <1>1. EmitPatch(o)
    BY DEF EmitOp, Refs, DataRefs
  <1>2. CASE ~ops[t].in_use
    <2>1. UNCHANGED <<ops, buf>>
      BY <1>1, <1>2 DEF EmitPatch, EmitNothing
    <2> QED
      BY <1>2, <2>1 DEF Patches
  <1>3. CASE ops[t].in_use /\ ops[t].kind \in Refs \cup DataRefs
    <2>1. ops' = [ops EXCEPT ![t].fixed = Len(c)] /\ UNCHANGED buf
      BY <1>1, <1>3 DEF EmitPatch
    <2>2. \A k \in Ids : ops'[k] = IF k = t THEN [ops[k] EXCEPT !.fixed = Len(c)] ELSE ops[k]
      BY <2>1
    <2>3. \A k \in Ids : ops[k] \in Op
      OBVIOUS
    <2>4. \A k \in Ids : /\ ops'[k].pos = ops[k].pos /\ ops'[k].loop_addr = ops[k].loop_addr
                          /\ ops'[k].fixed = IF k = t THEN Len(c) ELSE ops[k].fixed
      BY <2>2, <2>3 DEF Op
    <2> QED
      BY <1>3, <2>1, <2>4 DEF Patches
  <1>4. CASE ops[t].in_use /\ ops[t].kind \notin Refs \cup DataRefs
    <2>1. /\ buf' = [buf EXCEPT !.cells = Patched(@, ops[t].pos, Len(@))] /\ UNCHANGED ops
          /\ at \in DOMAIN c
      BY <1>1, <1>4 DEF EmitPatch
    <2> DEFINE x == [c[at] EXCEPT !.d = Len(c) - at]
               e == [c EXCEPT ![at] = x]
    <2>2. buf' = [buf EXCEPT !.cells = e]
      BY <2>1 DEF Patched
    <2>3. IsCell(c[at])
      BY <1>0, <2>1
    <2>4. /\ x.of = c[at].of /\ x.c = c[at].c /\ (x.turned <=> c[at].turned) /\ IsCell(x)
          /\ x.d = Len(c) - at
      BY <2>3, OtherDisplacement
    <2> HIDE DEF x, at
    <2>5. IsSeq(e) /\ Len(e) = Len(c)
      BY <1>0, ChangedSeq
    <2>6. \A k \in 1 .. Len(c) : e[k] = IF k = at THEN x ELSE c[k]
      BY <1>0
    <2> HIDE DEF e
    <2>7. buf'.cells = e /\ buf'.base = buf.base /\ Buffer(buf')
      BY <2>2, <2>5 DEF Buffer
    <2>8. \A k \in 1 .. Len(c) :
             /\ e[k].of = c[k].of /\ e[k].c = c[k].c /\ (e[k].turned <=> c[k].turned) /\ IsCell(e[k])
             /\ e[k].d = IF k = at THEN Len(c) - k ELSE c[k].d
      BY <2>4, <2>6
    <2> QED
      BY <1>4, <2>1, <2>5, <2>7, <2>8 DEF Patches, at
  <1> QED
    BY <1>2, <1>3, <1>4

(* st[k] is where the code of s[k] begins; m - 1 operations are written.   *)
Measured(n, st, m) ==
    /\ m \in 1 .. n + 1 /\ st \in [1 .. n + 1 -> Nat]
    /\ st[1] = 0 /\ st[m] = Len(buf.cells)
    /\ \A j, k \in 1 .. m : j <= k => st[j] <= st[k]

(* o ends at e, z lies from f to g.                                        *)
Linked(o, z, e, f, g) ==
    Used(o) =>
      /\ z = ops[o].jmp_addr /\ ops[o].kind \in Jumps => buf.cells[e].d = f - e
      /\ z = ops[o].jmp_addr /\ ops[o].kind \in Refs \cup DataRefs /\ ops[z].kind = "PATCH" =>
           ops[o].fixed = f
      /\ z = ops[o].arg /\ ops[o].kind = "TRANSFER_CPY" => buf.cells[e].d = (g - 1) - e

(* The code of o lies behind from, up to to.                               *)
LaidOut(o, from, to) ==
    /\ Block(buf.cells, o, from, to)
    /\ Noted(o, from, to)
    /\ ops[o].kind = "CODE_ALIGN" => to % ops[o].n = 0

(* The first m - 1 operations lie one behind the other, and those of them  *)
(* that refer to each other do it rightly.                                 *)
Layout(s, n, st, m) ==
    /\ Measured(n, st, m)
    /\ \A k \in 1 .. m - 1 : LaidOut(s[k], st[k], st[k + 1])
    /\ \A k, q \in 1 .. m - 1 : Linked(s[k], s[q], st[k + 1], st[q], st[q + 1])

(* The transfer loops whose jump back is still to be written know where    *)
(* they begin.                                                             *)
OpenLoops(s, n, st, m) ==
    \A k \in 1 .. m - 1, l \in m .. n :
      ops[s[l]].kind = "TRANSFER_CPY" /\ Used(s[l]) /\ ops[s[l]].arg = s[k] =>
        ops[s[k]].loop_addr = buf.base + st[k + 1] - 1

LEMMA EveryCell ==
    ASSUME NEW s, NEW n \in Nat, NEW st, NEW m, Layout(s, n, st, m), NEW x \in 1 .. Len(buf.cells)
    PROVE  \E k \in 1 .. m - 1 : x \in st[k] + 1 .. st[k + 1]
  <1>1. /\ m \in 1 .. n + 1 /\ st \in [1 .. n + 1 -> Nat] /\ st[1] = 0 /\ st[m] = Len(buf.cells)
    BY DEF Layout, Measured
  <1> DEFINE S == {k \in 1 .. m : x <= st[k]}
  <1>2. m \in S /\ S \subseteq Nat
    BY <1>1
  <1>3. PICK k \in S : \A j \in S : k <= j
    BY <1>2, LeastElement
  <1>4. k # 1 /\ k \in 1 .. m /\ x <= st[k] /\ m \in Nat
    BY <1>1, <1>3
  <1>5. k - 1 \in 1 .. m - 1 /\ k - 1 \in 1 .. m /\ (k - 1) + 1 = k /\ ~(k <= k - 1)
    BY <1>4
  <1>6. k - 1 \notin S
    BY <1>3, <1>5
  <1>7. st[k - 1] \in Nat /\ st[k] \in Nat
    BY <1>1, <1>4, <1>5
  <1>8. ~(x <= st[k - 1])
    BY <1>5, <1>6
  <1>9. x \in st[k - 1] + 1 .. st[k]
    BY <1>4, <1>7, <1>8
  <1> QED
    BY <1>5, <1>9

LEMMA LayoutFacts ==
    ASSUME NEW s, NEW n \in Nat, NEW st, NEW m, Layout(s, n, st, m)
    PROVE  /\ m \in Nat /\ m \in 1 .. n + 1 /\ Len(buf.cells) \in Nat
           /\ \A k \in 1 .. m - 1 : /\ k + 1 \in 1 .. m /\ st[k] \in Nat /\ st[k + 1] \in Nat
                                    /\ st[k] <= st[k + 1] /\ st[k + 1] <= Len(buf.cells)
                                    /\ Block(buf.cells, s[k], st[k], st[k + 1])
           /\ \A j, k \in 1 .. m - 1 : j < k => st[j + 1] <= st[k]
  <1>1. /\ m \in 1 .. n + 1 /\ st \in [1 .. n + 1 -> Nat] /\ st[1] = 0 /\ st[m] = Len(buf.cells)
        /\ \A j, k \in 1 .. m : j <= k => st[j] <= st[k]
    BY DEF Layout, Measured
  <1>2. m \in Nat /\ m \in 1 .. m /\ Len(buf.cells) \in Nat
    BY <1>1
  <1>3. ASSUME NEW k \in 1 .. m - 1
        PROVE  /\ k + 1 \in 1 .. m /\ st[k] \in Nat /\ st[k + 1] \in Nat
               /\ st[k] <= st[k + 1] /\ st[k + 1] <= Len(buf.cells)
    <2>1. /\ k \in 1 .. m /\ k + 1 \in 1 .. m /\ k <= k + 1 /\ k + 1 <= m
          /\ k \in 1 .. n + 1 /\ k + 1 \in 1 .. n + 1
      BY <1>1, <1>2
    <2> QED
      BY <1>1, <1>2, <2>1
  <1>4. ASSUME NEW j \in 1 .. m - 1, NEW k \in 1 .. m - 1, j < k PROVE st[j + 1] <= st[k]
    <2>1. j + 1 \in 1 .. m /\ k \in 1 .. m /\ j + 1 <= k
      BY <1>2, <1>4
    <2> QED
      BY <1>1, <2>1
  <1> QED
    BY <1>1, <1>2, <1>3, <1>4 DEF Layout, LaidOut

(* The cells of two operations that have any do not end in the same place. *)
LEMMA OneEnd ==
    ASSUME NEW s, NEW n \in Nat, NEW st, NEW m, Layout(s, n, st, m), \A k \in 1 .. n : Size(s[k]) \in Nat,
           NEW j \in 1 .. m - 1, NEW k \in 1 .. m - 1, Size(s[j]) # 0, Size(s[k]) # 0, st[j + 1] = st[k + 1]
    PROVE  j = k
  <1>1. ASSUME NEW x \in 1 .. m - 1, NEW y \in 1 .. m - 1, x < y, Size(s[y]) # 0, Size(s[y]) \in Nat
        PROVE  st[x + 1] < st[y + 1]
    <2>1. /\ st[x + 1] <= st[y] /\ st[x + 1] \in Nat /\ st[y] \in Nat /\ st[y + 1] \in Nat
          /\ Block(buf.cells, s[y], st[y], st[y + 1])
      BY <1>1, LayoutFacts
    <2>2. st[y] <= st[y + 1] - Size(s[y])
      BY <2>1 DEF Block
    <2> QED
      BY <1>1, <2>1, <2>2
  <1>2. m \in Nat /\ j \in 1 .. n /\ k \in 1 .. n /\ st[j + 1] \in Nat
    BY LayoutFacts
  <1> QED
    BY <1>1, <1>2

(* A transfer loop leads back to its TRANSFER.                             *)
LEMMA LoopOrder ==
    ASSUME ops \in [Ids -> Op], alive \subseteq Ids, source \in Programs,
           NEW n, NEW s, Path(s, n, alive, next, prev), Ordered(s, n), \A o \in alive : Core(o),
           NEW k \in 1 .. n, NEW q \in 1 .. n,
           ops[s[k]].kind = "TRANSFER_CPY", Used(s[k]), ops[s[k]].arg = s[q]
    PROVE  /\ q < k /\ ops[s[q]].kind = "TRANSFER"
           /\ ops[s[k]].item \in DOMAIN source /\ source[ops[s[k]].item].kind = "TRANSFER_CPY"
           /\ ops[s[q]].item = source[ops[s[k]].item].to
  <1>1. n \in Nat /\ s[k] \in alive /\ s[q] \in alive
    BY DEF Path
  <1> DEFINE i == ops[s[k]].item
             to == ops[s[q]].item
  <1>2. i \in DOMAIN source /\ source[i].kind = "TRANSFER_CPY" /\ i \in Nat /\ to \in Nat
    <2>1. Stands(s[k]) /\ ops[s[k]] \in Op /\ ops[s[q]] \in Op
      BY <1>1 DEF Core
    <2> QED
      BY <2>1 DEF Stands, Op
  <1>3. to = source[i].to
    <2>1. i \in Reached(source) /\ Loops(s[k])
      BY <1>1 DEF Core, Used, MadeJump
    <2> QED
      BY <2>1 DEF Loops
  <1>4. to \in 1 .. i - 1 /\ source[to].kind = "TRANSFER" /\ to \in DOMAIN source /\ to # 0
    <2>1. to \in 1 .. i - 1 /\ source[to].kind = "TRANSFER"
      BY <1>2, <1>3, ProgramFacts
    <2>2. DOMAIN source = 1 .. Len(source) /\ Len(source) \in Nat
      BY ProgramFacts
    <2> QED
      BY <1>2, <2>1, <2>2
  <1>5. ops[s[q]].kind = "TRANSFER"
    <2>1. Stands(s[q])
      BY <1>1 DEF Core
    <2> QED
      BY <1>4, <2>1 DEF Stands
  <1>6. k < q => i < to
    BY <1>4 DEF Ordered
  <1>7. k # q
    BY <1>2, <1>4
  <1> QED
    BY <1>1, <1>2, <1>3, <1>4, <1>5, <1>6, <1>7

(* What is kept of the block of an operation when others are written.      *)
LEMMA BlockSame ==
    ASSUME Notes, NEW o \in Ids, NEW from \in Nat, NEW to \in Nat, Size(o) \in Nat,
           Block(buf.cells, o, from, to),
           \A x \in from + 1 .. to :
              /\ buf'.cells[x].of = buf.cells[x].of /\ buf'.cells[x].c = buf.cells[x].c
              /\ (buf'.cells[x].turned <=> buf.cells[x].turned) /\ IsCell(buf'.cells[x])
    PROVE  Block(buf.cells, o, from, to)'
  <1> DEFINE c == buf.cells
             e == buf'.cells
  <1> HIDE DEF c, e
  <1>1. \A x \in from + 1 .. to :
              e[x].of = c[x].of /\ e[x].c = c[x].c /\ (e[x].turned <=> c[x].turned) /\ IsCell(e[x])
    BY DEF e, c
  <1>2. /\ ops'[o].kind = ops[o].kind /\ ops'[o].item = ops[o].item /\ ops'[o].n = ops[o].n
        /\ (ops'[o].turned <=> ops[o].turned)
    BY DEF Notes
  <1>3. Size(o)' = Size(o) /\ LastCell(o)' = LastCell(o)
    BY <1>2 DEF Size, LastCell
  <1>4. PICK body : body = to - Size(o) /\ body \in Int
    OBVIOUS
  <1>5. /\ from <= body
        /\ ops[o].kind \notin {"PROLOG", "CODE_ALIGN"} => from = body
        /\ \A x \in from + 1 .. body : c[x].of = 0 /\ c[x].c = "code"
        /\ \A x \in body + 1 .. to : c[x].of = ops[o].item
        /\ \A x \in body + 1 .. to - 1 : c[x].c \in {"code", "jump"}
        /\ Size(o) # 0 => c[to].c = LastCell(o) /\ (c[to].turned <=> ops[o].turned)
    BY <1>4 DEF Block, c
  <1>6. \A x \in from + 1 .. body : x \in from + 1 .. to
    BY <1>4
  <1>7. \A x \in body + 1 .. to : x \in from + 1 .. to
    BY <1>4, <1>5
  <1>8. \A x \in body + 1 .. to - 1 : x \in from + 1 .. to
    BY <1>4, <1>5
  <1>9. Size(o) # 0 => to \in from + 1 .. to
    BY <1>4, <1>5
  <1>10. /\ from <= body
         /\ \A x \in from + 1 .. to : IsCell(e[x])
         /\ ops'[o].kind \notin {"PROLOG", "CODE_ALIGN"} => from = body
         /\ \A x \in from + 1 .. body : e[x].of = 0 /\ e[x].c = "code"
         /\ \A x \in body + 1 .. to : e[x].of = ops'[o].item
         /\ \A x \in body + 1 .. to - 1 : e[x].c \in {"code", "jump"}
         /\ Size(o) # 0 => e[to].c = LastCell(o) /\ (e[to].turned <=> ops'[o].turned)
    BY <1>1, <1>2, <1>5, <1>6, <1>7, <1>8, <1>9
  <1>11. body = to - Size(o)'
    BY <1>3, <1>4
  <1> QED
    BY <1>3, <1>10, <1>11 DEF Block, e

LEMMA LaidOutKept ==
    ASSUME Notes, NEW o \in Ids, NEW from \in Nat, NEW to \in Nat, Size(o) \in Nat,
           LaidOut(o, from, to), ops'[o].pos = ops[o].pos,
           \A x \in from + 1 .. to :
              /\ buf'.cells[x].of = buf.cells[x].of /\ buf'.cells[x].c = buf.cells[x].c
              /\ (buf'.cells[x].turned <=> buf.cells[x].turned) /\ IsCell(buf'.cells[x])
    PROVE  LaidOut(o, from, to)'
  <1>1. Block(buf.cells, o, from, to)'
    <2>1. Block(buf.cells, o, from, to)
      BY DEF LaidOut
    <2> QED
      BY <2>1, BlockSame
  <1>2. ops'[o].kind = ops[o].kind /\ ops'[o].n = ops[o].n
    BY DEF Notes
  <1>3. Noted(o, from, to)'
    BY <1>2 DEF LaidOut, Noted
  <1>4. ops'[o].kind = "CODE_ALIGN" => to % ops'[o].n = 0
    BY <1>2 DEF LaidOut
  <1> QED
    BY <1>1, <1>3, <1>4 DEF LaidOut

LEMMA MeasuredGrows ==
    ASSUME NEW n \in Nat, NEW st, NEW m \in 1 .. n, Measured(n, st, m),
           NEW to \in Nat, to = Len(buf'.cells), st[m] <= to
    PROVE  LET st2 == [st EXCEPT ![m + 1] = to]
           IN /\ Measured(n, st2, m + 1)'
              /\ st2[m + 1] = to /\ \A k \in 1 .. m : st2[k] = st[k]
  <1>1. /\ m \in 1 .. n + 1 /\ st \in [1 .. n + 1 -> Nat] /\ st[1] = 0
        /\ \A j, k \in 1 .. m : j <= k => st[j] <= st[k]
    BY DEF Measured
  <1> DEFINE st2 == [st EXCEPT ![m + 1] = to]
  <1>2. /\ m + 1 \in 1 .. n + 1 /\ st2 \in [1 .. n + 1 -> Nat] /\ st2[m + 1] = to
        /\ \A k \in 1 .. m : st2[k] = st[k]
    <2>1. m + 1 \in 1 .. n + 1 /\ \A k \in 1 .. m : k \in 1 .. n + 1 /\ k # m + 1
      OBVIOUS
    <2> QED
      BY <1>1, <2>1
  <1> HIDE DEF st2
  <1>3. ASSUME NEW j \in 1 .. m + 1, NEW k \in 1 .. m + 1, j <= k PROVE st2[j] <= st2[k]
    <2>1. CASE k \in 1 .. m
      <3>1. j \in 1 .. m
        BY <1>3, <2>1
      <3> QED
        BY <1>1, <1>2, <1>3, <2>1, <3>1
    <2>2. CASE k = m + 1 /\ j \in 1 .. m
      <3>1. st[j] <= st[m] /\ m \in 1 .. m /\ j \in 1 .. n + 1
        BY <1>1, <2>2
      <3> QED
        BY <1>1, <1>2, <2>2, <3>1
    <2>3. CASE k = m + 1 /\ j = m + 1
      BY <1>2, <2>3
    <2> QED
      BY <1>3, <2>1, <2>2, <2>3
  <1>4. 1 \in 1 .. m
    OBVIOUS
  <1>5. Measured(n, st2, m + 1)'
    BY <1>1, <1>2, <1>3, <1>4 DEF Measured
  <1> QED
    BY <1>2, <1>5 DEF st2

(* The list while code is written.                                         *)
Listed(s, n) ==
    /\ ops \in [Ids -> Op] /\ alive \subseteq Ids /\ source \in Programs /\ Buffer(buf)
    /\ Path(s, n, alive, next, prev)
    /\ Ordered(s, n)
    /\ \A o \in alive : KeptOp(o)

LEMMA ListedFacts ==
    ASSUME NEW s, NEW n, Listed(s, n)
    PROVE  /\ n \in Nat /\ ops \in [Ids -> Op] /\ alive \subseteq Ids /\ source \in Programs
           /\ Path(s, n, alive, next, prev) /\ Ordered(s, n) /\ Buffer(buf)
           /\ \A o \in alive : Core(o) /\ (Used(o) => ops[o].in_use)
           /\ \A k \in 1 .. n : s[k] \in alive /\ s[k] \in Ids /\ Size(s[k]) \in Nat
           /\ \A j, k \in 1 .. n : s[j] = s[k] => j = k
  <1>1. ASSUME NEW k \in 1 .. n PROVE s[k] \in alive /\ s[k] \in Ids /\ Size(s[k]) \in Nat
    <2>1. s[k] \in alive /\ s[k] \in Ids
      BY DEF Listed, Path
    <2>2. ops[s[k]] \in Op
      BY <2>1 DEF Listed
    <2> QED
      BY <2>1, <2>2 DEF Size, Op
  <1> QED
    BY <1>1 DEF Listed, Path, KeptOp

LEMMA EmitLayout ==
    ASSUME NEW s, NEW n, Listed(s, n), NEW st, NEW m \in 1 .. n,
           Layout(s, n, st, m), OpenLoops(s, n, st, m),
           ops[s[m]].kind # "PATCH", NEW to, Wrote1(s[m], st[m], to), Noted1(s[m], st[m], to), Notes,
           UNCHANGED <<source, alive, next>>,
           ops[s[m]].kind = "CODE_ALIGN" => to % ops[s[m]].n = 0
    PROVE  LET st2 == [st EXCEPT ![m + 1] = to]
           IN Layout(s, n, st2, m + 1)' /\ OpenLoops(s, n, st2, m + 1)'
  <1> DEFINE o == s[m]
             from == st[m]
             c == buf.cells
             e == buf'.cells
             t2 == [st EXCEPT ![m + 1] = to]
  <1>0. /\ n \in Nat /\ ops \in [Ids -> Op] /\ alive \subseteq Ids /\ source \in Programs
        /\ Path(s, n, alive, next, prev) /\ Ordered(s, n) /\ Buffer(buf)
        /\ \A z \in alive : Core(z)
        /\ \A k \in 1 .. n : s[k] \in alive /\ s[k] \in Ids /\ Size(s[k]) \in Nat
        /\ \A j, k \in 1 .. n : s[j] = s[k] => j = k
    BY ListedFacts
  <1>1. /\ from = Len(c) /\ to = Len(e) /\ from \in Nat /\ to \in Nat /\ from <= to /\ buf'.base = buf.base
        /\ Block(e, o, from, to) /\ \A x \in 1 .. from : e[x] = c[x]
        /\ ops[o].kind \in Jumps => e[to].d = Displacement(o, to - 2)
        /\ ops[o].kind = "TRANSFER_CPY" => e[to].d = ops[ops[o].arg].loop_addr - (buf.base + to)
    BY DEF Wrote1
  <1>2. /\ Noted(o, from, to)'
        /\ ops[o].kind = "TRANSFER" => ops'[o].loop_addr = buf.base + to - 1
        /\ \A k \in Ids : k # o => ops'[k].pos = ops[k].pos /\ ops'[k].loop_addr = ops[k].loop_addr
        /\ \A k \in Ids : ops'[k].fixed = ops[k].fixed
    BY DEF Noted1
  <1>3. \A k \in Ids : /\ ops'[k].kind = ops[k].kind /\ ops'[k].item = ops[k].item
                       /\ ops'[k].n = ops[k].n /\ ops'[k].arg = ops[k].arg
                       /\ ops'[k].jmp_addr = ops[k].jmp_addr /\ (ops'[k].turned <=> ops[k].turned)
    BY DEF Notes
  <1>4. \A k \in Ids : Used(k)' <=> Used(k)
    BY <1>3 DEF Used, MadeJump
  <1>5. Measured(n, st, m) /\ m \in Nat
    BY <1>0 DEF Layout
  <1>6. PICK st2 : st2 = t2
    OBVIOUS
  <1>7. Measured(n, st2, m + 1)' /\ st2[m + 1] = to /\ \A k \in 1 .. m : st2[k] = st[k]
    <2>1. n \in Nat /\ to \in Nat /\ to = Len(buf'.cells) /\ st[m] <= to
      BY <1>0, <1>1
    <2>2. /\ Measured(n, t2, m + 1)'
          /\ t2[m + 1] = to /\ \A k \in 1 .. m : t2[k] = st[k]
      BY <1>5, <2>1, MeasuredGrows
    <2> QED
      BY <1>6, <2>2
  <1> HIDE DEF t2
  <1>8. \A k \in 1 .. m - 1 :
          /\ k \in 1 .. m /\ k \in 1 .. n /\ k + 1 \in 1 .. m /\ st[k] \in Nat /\ st[k + 1] \in Nat
          /\ st[k] <= st[k + 1] /\ st[k + 1] <= from /\ k # m
    <2>1. \A k \in 1 .. m - 1 : /\ k + 1 \in 1 .. m /\ st[k] \in Nat /\ st[k + 1] \in Nat
                                /\ st[k] <= st[k + 1] /\ st[k + 1] <= Len(buf.cells)
      BY <1>0, LayoutFacts
    <2>2. \A k \in 1 .. m - 1 : k \in 1 .. m /\ k \in 1 .. n /\ k # m
      BY <1>0, <1>5
    <2> QED
      BY <1>1, <2>1, <2>2
  <1>9. ASSUME NEW k \in 1 .. m - 1 PROVE LaidOut(s[k], st[k], st[k + 1])'
    <2>1. LaidOut(s[k], st[k], st[k + 1])
      BY DEF Layout
    <2>2. s[k] \in Ids /\ s[k] # o /\ Size(s[k]) \in Nat
      BY <1>0, <1>8
    <2>3. ASSUME NEW x \in st[k] + 1 .. st[k + 1] PROVE e[x] = c[x] /\ IsCell(e[x])
      <3>1. x \in 1 .. from
        BY <1>1, <1>8, <2>3
      <3>2. IsCell(c[x])
        BY <2>1 DEF LaidOut, Block
      <3> QED
        BY <1>1, <3>1, <3>2
    <2>4. ops'[s[k]].pos = ops[s[k]].pos /\ st[k] \in Nat /\ st[k + 1] \in Nat
      BY <1>2, <1>8, <2>2
    <2> QED
      BY <2>1, <2>2, <2>3, <2>4, LaidOutKept
  <1>10. LaidOut(o, from, to)'
    <2>1. Block(c, o, from, to)'
      <3>1. Block(e, o, from, to)
        BY <1>1
      <3>2. /\ ops'[o].kind = ops[o].kind /\ ops'[o].n = ops[o].n /\ ops'[o].item = ops[o].item
            /\ (ops'[o].turned <=> ops[o].turned)
        BY <1>0, <1>3
      <3>3. Size(o)' = Size(o) /\ LastCell(o)' = LastCell(o)
        BY <3>2 DEF Size, LastCell
      <3> QED
        BY <3>1, <3>2, <3>3 DEF Block
    <2>2. ops'[o].kind = "CODE_ALIGN" => to % ops'[o].n = 0
      BY <1>0, <1>3
    <2> QED
      BY <1>2, <2>1, <2>2 DEF LaidOut
  <1>11. ASSUME NEW k \in 1 .. m PROVE LaidOut(s[k], st2[k], st2[k + 1])'
    <2>1. CASE k = m
      BY <1>7, <1>10, <2>1
    <2>2. CASE k # m
      <3>1. k \in 1 .. m - 1
        BY <2>2
      <3> QED
        BY <1>7, <1>8, <1>9, <3>1
    <2> QED
      BY <2>1, <2>2
  (* What leads to o, and where o leads. *)
  <1>12. ASSUME NEW k \in 1 .. m, ops[s[k]].kind \in Refers, NEW q \in 1 .. m, s[q] = ops[s[k]].jmp_addr
         PROVE  \/ ops[s[q]].kind = "LABEL" /\ ops[s[k]].arg = s[q] /\ q < k
                \/ ops[s[q]].kind = "PATCH" /\ k < q /\ q # m
    <2>1. k \in 1 .. n /\ q \in 1 .. n
      BY <1>0
    <2>2. PICK y \in 1 .. n :
             /\ s[y] = ops[s[k]].jmp_addr
             /\ \/ ops[s[y]].kind = "LABEL" /\ ops[s[k]].arg = s[y] /\ y < k
                \/ ops[s[y]].kind = "PATCH" /\ ops[s[y]].arg = s[k] /\ ~IsLabel(ops[s[k]].arg) /\ k < y
      BY <1>0, <1>12, <2>1, TargetsLie
    <2>3. y = q
      BY <1>0, <1>12, <2>1, <2>2
    <2> QED
      BY <2>2, <2>3
  <1>13. ASSUME NEW k \in 1 .. m, ops[s[k]].kind = "TRANSFER_CPY", Used(s[k]), NEW q \in 1 .. m,
                s[q] = ops[s[k]].arg
         PROVE  q < k /\ ops[s[q]].kind = "TRANSFER"
    <2>1. k \in 1 .. n /\ q \in 1 .. n
      BY <1>0
    <2> QED
      BY <1>0, <1>13, <2>1, LoopOrder
  <1>14. ASSUME NEW k \in 1 .. m, NEW q \in 1 .. m PROVE Linked(s[k], s[q], st2[k + 1], st2[q], st2[q + 1])'
    <2>0. /\ s[k] \in Ids /\ s[q] \in Ids
      BY <1>0
    <2>1. CASE k # m /\ q # m
      <3>1. k \in 1 .. m - 1 /\ q \in 1 .. m - 1
        BY <2>1
      <3>2. Linked(s[k], s[q], st[k + 1], st[q], st[q + 1])
        BY <3>1 DEF Layout
      <3>3. ASSUME Size(s[k]) # 0 PROVE e[st[k + 1]] = c[st[k + 1]]
        <4>1. st[k] <= st[k + 1] - Size(s[k])
          BY <3>1 DEF Layout, LaidOut, Block
        <4>2. Size(s[k]) \in Nat
          BY <1>0, <1>8, <3>1
        <4>3. st[k + 1] \in 1 .. from
          BY <1>1, <1>8, <3>1, <3>3, <4>1, <4>2
        <4> QED
          BY <1>1, <4>3
      <3>4. ops[s[k]].kind \in Jumps \cup {"TRANSFER_CPY"} => Size(s[k]) # 0
        <4>1. ops[s[k]] \in Op
          BY <1>0, <2>0
        <4> QED
          BY <4>1 DEF Size, Jumps, Op
      <3>5. ops[s[k]].kind \in Jumps \cup {"TRANSFER_CPY"} => e[st[k + 1]].d = c[st[k + 1]].d
        BY <3>3, <3>4
      <3>6. st2[k + 1] = st[k + 1] /\ st2[q] = st[q] /\ st2[q + 1] = st[q + 1]
        BY <1>7, <1>8, <3>1
      <3> QED
        BY <1>2, <1>3, <1>4, <2>0, <3>2, <3>5, <3>6 DEF Linked
    <2>2. CASE q = m
      <3>1. ~(ops[s[k]].kind \in Refers /\ s[q] = ops[s[k]].jmp_addr)
        BY <1>12, <2>2
      <3>2. ~(ops[s[k]].kind = "TRANSFER_CPY" /\ Used(s[k]) /\ s[q] = ops[s[k]].arg)
        BY <1>5, <1>13, <2>2
      <3>3. Jumps \subseteq Refers /\ Refs \cup DataRefs \subseteq Refers
        BY DEF Jumps, Refers, Refs, DataRefs
      <3> QED
        BY <1>3, <1>4, <2>0, <3>1, <3>2, <3>3 DEF Linked
    <2>3. CASE k = m /\ q # m
      <3>1. q \in 1 .. m - 1 /\ st2[k + 1] = to /\ st2[q] = st[q] /\ st2[q + 1] = st[q + 1]
        BY <1>7, <1>8, <2>3
      <3>2. ASSUME ops[o].kind \in Refers, s[q] = ops[o].jmp_addr
            PROVE  ops[s[q]].kind = "LABEL" /\ ops[o].arg = s[q]
        <4>1. ~(m < q) /\ m \in 1 .. m
          BY <1>5, <3>1
        <4> QED
          BY <1>12, <3>2, <4>1
      <3>3. ASSUME ops[o].kind \in Jumps, s[q] = ops[o].jmp_addr PROVE e[to].d = st[q] - to
        <4>1. ops[s[q]].kind = "LABEL" /\ ops[o].arg = s[q]
          BY <3>2, <3>3 DEF Jumps, Refers
        <4>2. IsLabel(ops[o].arg)
          BY <2>0, <4>1, StartFacts DEF IsLabel
        <4>3. ops[s[q]].pos = st[q] /\ st[q] \in Nat
          BY <1>8, <3>1, <4>1 DEF Layout, LaidOut, Noted
        <4>4. Displacement(o, to - 2) = st[q] - ((to - 2) + 2)
          BY <4>1, <4>2, <4>3 DEF Displacement
        <4> QED
          BY <1>1, <3>3, <4>3, <4>4
      <3>4. ASSUME ops[o].kind = "TRANSFER_CPY", Used(o), s[q] = ops[o].arg
            PROVE  e[to].d = (st[q + 1] - 1) - to
        <4>1. ops[s[q]].loop_addr = buf.base + st[q + 1] - 1
          <5>1. m \in m .. n
            BY <1>0
          <5> QED
            BY <3>1, <3>4, <5>1 DEF OpenLoops
        <4>2. buf.base \in Nat /\ st[q + 1] \in Nat
          BY <1>0, <1>8, <3>1 DEF Buffer
        <4>3. e[to].d = (buf.base + st[q + 1] - 1) - (buf.base + to)
          BY <1>1, <3>4, <4>1
        <4> QED
          BY <1>1, <4>2, <4>3
      <3>5. ASSUME ops[o].kind \in Refs \cup DataRefs, s[q] = ops[o].jmp_addr PROVE ops[s[q]].kind # "PATCH"
        BY <3>2, <3>5 DEF Refers, Refs, DataRefs
      <3> QED
        BY <1>3, <1>4, <2>0, <2>3, <3>1, <3>3, <3>4, <3>5 DEF Linked
    <2> QED
      BY <2>1, <2>2, <2>3
  <1>15. Layout(s, n, st2, m + 1)'
    <2>1. (m + 1) - 1 = m
      BY <1>5
    <2> QED
      BY <1>7, <1>11, <1>14, <2>1 DEF Layout
  <1>16. ASSUME NEW k \in 1 .. m, NEW l \in m + 1 .. n,
                ops'[s[l]].kind = "TRANSFER_CPY", Used(s[l])', ops'[s[l]].arg = s[k]
         PROVE  ops'[s[k]].loop_addr = buf'.base + st2[k + 1] - 1
    <2>0. l \in 1 .. n /\ l \in m .. n /\ k \in 1 .. n
      BY <1>0
    <2>1. s[l] \in Ids /\ s[k] \in Ids
      BY <1>0, <2>0
    <2>2. ops[s[l]].kind = "TRANSFER_CPY" /\ Used(s[l]) /\ ops[s[l]].arg = s[k]
      BY <1>3, <1>4, <1>16, <2>1
    <2>3. CASE k = m
      <3>1. ops[s[k]].kind = "TRANSFER"
        BY <1>0, <2>0, <2>2, LoopOrder
      <3> QED
        BY <1>1, <1>2, <1>7, <2>3, <3>1
    <2>4. CASE k # m
      <3>1. k \in 1 .. m - 1
        BY <2>4
      <3>2. ops[s[k]].loop_addr = buf.base + st[k + 1] - 1
        BY <2>0, <2>2, <3>1 DEF OpenLoops
      <3>3. s[k] # o /\ st2[k + 1] = st[k + 1]
        BY <1>0, <1>7, <1>8, <2>0, <3>1
      <3> QED
        BY <1>1, <1>2, <2>1, <3>2, <3>3
    <2> QED
      BY <2>3, <2>4
  <1>17. OpenLoops(s, n, st2, m + 1)'
    <2>1. (m + 1) - 1 = m
      BY <1>5
    <2> QED
      BY <1>16, <2>1 DEF OpenLoops
  <1> QED
    BY <1>6, <1>15, <1>17 DEF t2

LEMMA PatchLayout ==
    ASSUME NEW s, NEW n, Listed(s, n), NEW st, NEW m \in 1 .. n,
           Layout(s, n, st, m), OpenLoops(s, n, st, m),
           ops[s[m]].kind = "PATCH", Patches(s[m]), Notes, UNCHANGED <<source, alive, next>>
    PROVE  LET st2 == [st EXCEPT ![m + 1] = st[m]]
           IN Layout(s, n, st2, m + 1)' /\ OpenLoops(s, n, st2, m + 1)'
  <1> DEFINE o == s[m]
             c == buf.cells
             e == buf'.cells
             t == ops[o].arg
             t2 == [st EXCEPT ![m + 1] = st[m]]
  <1>0. /\ n \in Nat /\ ops \in [Ids -> Op] /\ alive \subseteq Ids /\ source \in Programs
        /\ Path(s, n, alive, next, prev) /\ Ordered(s, n) /\ Buffer(buf)
        /\ \A z \in alive : Core(z) /\ (Used(z) => ops[z].in_use)
        /\ \A k \in 1 .. n : s[k] \in alive /\ s[k] \in Ids /\ Size(s[k]) \in Nat
        /\ \A j, k \in 1 .. n : s[j] = s[k] => j = k
    BY ListedFacts
  <1>1. /\ Buffer(buf') /\ buf'.base = buf.base /\ Len(e) = Len(c)
        /\ \A k \in Ids : ops'[k].pos = ops[k].pos /\ ops'[k].loop_addr = ops[k].loop_addr
    BY DEF Patches
  <1>2. \A x \in 1 .. Len(c) :
          /\ e[x].of = c[x].of /\ e[x].c = c[x].c /\ (e[x].turned <=> c[x].turned) /\ IsCell(e[x])
          /\ e[x].d = IF x = ops[t].pos + 2 /\ ops[t].in_use /\ ops[t].kind \notin Refs \cup DataRefs
                      THEN Len(c) - x ELSE c[x].d
    BY DEF Patches
  <1>2a. \A k \in Ids : ops'[k].fixed =
             IF k = t /\ ops[t].in_use /\ ops[t].kind \in Refs \cup DataRefs THEN Len(c) ELSE ops[k].fixed
    BY DEF Patches
  <1>3. \A k \in Ids : /\ ops'[k].kind = ops[k].kind /\ ops'[k].item = ops[k].item
                       /\ ops'[k].n = ops[k].n /\ ops'[k].arg = ops[k].arg
                       /\ ops'[k].jmp_addr = ops[k].jmp_addr /\ (ops'[k].turned <=> ops[k].turned)
    BY DEF Notes
  <1>4. \A k \in Ids : Used(k)' <=> Used(k)
    BY <1>3 DEF Used, MadeJump
  <1>5. Measured(n, st, m) /\ m \in Nat /\ st[m] \in Nat /\ st[m] = Len(c)
    BY <1>0 DEF Layout, Measured
  <1>6. PICK st2 : st2 = t2
    OBVIOUS
  <1>7. Measured(n, st2, m + 1)' /\ st2[m + 1] = st[m] /\ \A k \in 1 .. m : st2[k] = st[k]
    <2>1. n \in Nat /\ st[m] \in Nat /\ st[m] = Len(buf'.cells) /\ st[m] <= st[m]
      BY <1>0, <1>1, <1>5
    <2>2. PICK to \in Nat : to = st[m]
      BY <2>1
    <2>3. n \in Nat /\ to = Len(buf'.cells) /\ st[m] <= to
      BY <2>1, <2>2
    <2> DEFINE u == [st EXCEPT ![m + 1] = to]
    <2>4. Measured(n, u, m + 1)' /\ u[m + 1] = to /\ \A k \in 1 .. m : u[k] = st[k]
      BY <1>5, <2>3, MeasuredGrows
    <2>5. st2 = u
      BY <1>6, <2>2
    <2> QED
      BY <2>2, <2>4, <2>5
  <1> HIDE DEF t2
  <1>8. \A k \in 1 .. m - 1 :
          /\ k \in 1 .. m /\ k \in 1 .. n /\ k + 1 \in 1 .. m /\ st[k] \in Nat /\ st[k + 1] \in Nat
          /\ st[k] <= st[k + 1] /\ st[k + 1] <= Len(c) /\ k # m
    <2>1. \A k \in 1 .. m - 1 : /\ k + 1 \in 1 .. m /\ st[k] \in Nat /\ st[k + 1] \in Nat
                                /\ st[k] <= st[k + 1] /\ st[k + 1] <= Len(buf.cells)
      BY <1>0, LayoutFacts
    <2>2. \A k \in 1 .. m - 1 : k \in 1 .. m /\ k \in 1 .. n /\ k # m
      BY <1>0, <1>5
    <2> QED
      BY <2>1, <2>2
  (* What the PATCH names. *)
  <1>9. t \in alive /\ ops[t].kind \in Refers /\ ops[t].jmp_addr = o
    <2>1. Wired(o)
      BY <1>0 DEF Core
    <2> QED
      BY <2>1 DEF Wired
  <1>10. PICK j \in 1 .. n : t = s[j]
    BY <1>0, <1>9 DEF Path
  <1>11. j \in 1 .. m - 1
    <2>1. PICK q \in 1 .. n :
             /\ s[q] = ops[s[j]].jmp_addr
             /\ \/ ops[s[q]].kind = "LABEL" /\ ops[s[j]].arg = s[q] /\ q < j
                \/ ops[s[q]].kind = "PATCH" /\ ops[s[q]].arg = s[j] /\ ~IsLabel(ops[s[j]].arg) /\ j < q
      BY <1>0, <1>9, <1>10, TargetsLie
    <2>2. q = m
      BY <1>0, <1>9, <1>10, <2>1
    <2>3. j < m
      BY <2>1, <2>2
    <2> QED
      BY <1>0, <2>3
  <1>12. ops[t].kind \in Jumps => ops[t].pos + 2 = st[j + 1]
    <2>1. Noted(t, st[j], st[j + 1])
      BY <1>10, <1>11 DEF Layout, LaidOut
    <2> QED
      BY <1>8, <1>11, <2>1 DEF Noted
  <1>13. Refers = Jumps \cup Refs \cup DataRefs /\ Jumps \cap (Refs \cup DataRefs) = {}
    BY DEF Refers, Jumps, Refs, DataRefs
  <1>14. ASSUME NEW k \in 1 .. m - 1 PROVE LaidOut(s[k], st[k], st[k + 1])'
    <2>1. LaidOut(s[k], st[k], st[k + 1])
      BY DEF Layout
    <2>2. s[k] \in Ids /\ Size(s[k]) \in Nat
      BY <1>0, <1>8
    <2>3. ASSUME NEW x \in st[k] + 1 .. st[k + 1] PROVE x \in 1 .. Len(c)
      BY <1>8, <1>5, <2>3
    <2>4. ops'[s[k]].pos = ops[s[k]].pos /\ st[k] \in Nat /\ st[k + 1] \in Nat
      BY <1>1, <1>8, <2>2
    <2> QED
      BY <1>2, <2>1, <2>2, <2>3, <2>4, LaidOutKept
  <1>15. LaidOut(o, st[m], st[m])'
    <2>1. ops'[o].kind = "PATCH"
      BY <1>0, <1>3
    <2>2. Size(o)' = 0
      BY <2>1 DEF Size
    <2>3. Block(c, o, st[m], st[m])'
      BY <1>5, <2>1, <2>2 DEF Block
    <2> QED
      BY <2>1, <2>3 DEF LaidOut, Noted, Jumps, Refs, DataRefs
  <1>16. ASSUME NEW k \in 1 .. m PROVE LaidOut(s[k], st2[k], st2[k + 1])'
    <2>1. CASE k = m
      BY <1>7, <1>15, <2>1
    <2>2. CASE k # m
      <3>1. k \in 1 .. m - 1
        BY <2>2
      <3> QED
        BY <1>7, <1>8, <1>14, <3>1
    <2> QED
      BY <2>1, <2>2
  <1>17. ASSUME NEW k \in 1 .. m, NEW q \in 1 .. m PROVE Linked(s[k], s[q], st2[k + 1], st2[q], st2[q + 1])'
    <2>0. s[k] \in Ids /\ s[q] \in Ids /\ s[k] \in alive /\ k \in 1 .. n /\ q \in 1 .. n
      BY <1>0
    <2>1. CASE k # m /\ q # m
      <3>1. k \in 1 .. m - 1 /\ q \in 1 .. m - 1
        BY <2>1
      <3>2. Linked(s[k], s[q], st[k + 1], st[q], st[q + 1])
        BY <3>1 DEF Layout
      <3>3. st2[k + 1] = st[k + 1] /\ st2[q] = st[q] /\ st2[q + 1] = st[q + 1]
        BY <1>7, <1>8, <3>1
      <3>4. ASSUME s[k] = t PROVE s[q] # ops[s[k]].jmp_addr
        <4>1. s[q] # s[m]
          BY <1>0, <2>0, <2>1
        <4> QED
          BY <1>9, <3>4, <4>1
      <3>5. ASSUME ops[s[k]].kind \in Jumps \cup {"TRANSFER_CPY"}, s[k] # t
            PROVE  e[st[k + 1]].d = c[st[k + 1]].d
        <4>1. ops[s[k]] \in Op
          BY <1>0, <2>0
        <4>2. Size(s[k]) # 0 /\ Size(s[k]) \in Nat
          BY <1>0, <2>0, <3>5, <4>1 DEF Size, Jumps, Op
        <4>3. st[k] <= st[k + 1] - Size(s[k])
          BY <3>1 DEF Layout, LaidOut, Block
        <4>4. st[k + 1] \in 1 .. Len(c)
          BY <1>5, <1>8, <3>1, <4>2, <4>3
        <4>5. ASSUME ops[t].kind \in Jumps, st[k + 1] = ops[t].pos + 2 PROVE FALSE
          <5>1. st[j + 1] = st[k + 1]
            BY <1>12, <4>5
          <5>2. ops[t] \in Op
            BY <1>0, <1>9
          <5>3. Size(s[j]) # 0
            BY <1>10, <4>5, <5>2 DEF Size, Jumps, Op
          <5>4. \A y \in 1 .. n : Size(s[y]) \in Nat
            BY <1>0
          <5>5. j = k
            BY <1>0, <1>11, <3>1, <4>2, <5>1, <5>3, <5>4, OneEnd
          <5> QED
            BY <1>10, <3>5, <5>5
        <4>6. ops[t].kind \in Jumps \/ ops[t].kind \in Refs \cup DataRefs
          BY <1>9, <1>13
        <4> QED
          BY <1>2, <4>4, <4>5, <4>6
      <3>6. s[k] # t => ops'[s[k]].fixed = ops[s[k]].fixed
        BY <1>2a, <2>0
      <3>7. ops[s[k]].kind = "TRANSFER_CPY" => s[k] # t
        BY <1>9 DEF Refers
      <3>8. Used(s[k])' => /\ s[q] = ops'[s[k]].jmp_addr /\ ops'[s[k]].kind \in Jumps =>
                                e[st[k + 1]].d = st[q] - st[k + 1]
                           /\ s[q] = ops'[s[k]].jmp_addr /\ ops'[s[k]].kind \in Refs \cup DataRefs
                                /\ ops'[s[q]].kind = "PATCH" => ops'[s[k]].fixed = st[q]
                           /\ s[q] = ops'[s[k]].arg /\ ops'[s[k]].kind = "TRANSFER_CPY" =>
                                e[st[k + 1]].d = (st[q + 1] - 1) - st[k + 1]
        BY <1>3, <1>4, <2>0, <3>2, <3>4, <3>5, <3>6, <3>7 DEF Linked
      <3> QED
        BY <3>3, <3>8 DEF Linked
    <2>2. CASE k = m
      <3>1. ops'[s[k]].kind = "PATCH"
        BY <1>3, <2>0, <2>2
      <3> QED
        BY <3>1 DEF Linked, Jumps, Refs, DataRefs
    <2>3. CASE q = m /\ k # m
      <3>1. k \in 1 .. m - 1 /\ st2[k + 1] = st[k + 1] /\ st2[q] = Len(c)
        BY <1>5, <1>7, <1>8, <2>3
      <3>2. ASSUME ops[s[k]].kind \in Refers, o = ops[s[k]].jmp_addr, Used(s[k])
            PROVE  s[k] = t /\ ops[t].in_use
        <4>1. Wired(s[k]) /\ ops[s[k]].in_use
          BY <1>0, <2>0, <3>2 DEF Core
        <4> QED
          BY <3>2, <4>1 DEF Wired
      <3>3. ASSUME ops[s[k]].kind = "TRANSFER_CPY", Used(s[k]) PROVE o # ops[s[k]].arg
        BY <1>0, <2>0, <3>3, LoopOrder
      <3>4. ASSUME ops[s[k]].kind \in Jumps, s[k] = t, ops[t].in_use
            PROVE  e[st[k + 1]].d = Len(c) - st[k + 1]
        <4>1. ops[s[k]] \in Op
          BY <1>0, <2>0
        <4>2. Size(s[k]) # 0 /\ Size(s[k]) \in Nat
          BY <1>0, <2>0, <3>4, <4>1 DEF Size, Jumps, Op
        <4>3. st[k] <= st[k + 1] - Size(s[k])
          BY <3>1 DEF Layout, LaidOut, Block
        <4>4. st[k + 1] \in 1 .. Len(c)
          BY <1>5, <1>8, <3>1, <4>2, <4>3
        <4>5. k = j
          BY <1>0, <1>10, <2>0, <3>4
        <4> QED
          BY <1>2, <1>12, <1>13, <3>4, <4>4, <4>5
      <3>5. Used(s[k])' => /\ s[q] = ops'[s[k]].jmp_addr /\ ops'[s[k]].kind \in Jumps =>
                                e[st[k + 1]].d = Len(c) - st[k + 1]
                           /\ s[q] = ops'[s[k]].jmp_addr /\ ops'[s[k]].kind \in Refs \cup DataRefs =>
                                ops'[s[k]].fixed = Len(c)
                           /\ s[q] = ops'[s[k]].arg => ops'[s[k]].kind # "TRANSFER_CPY"
        BY <1>2a, <1>3, <1>4, <1>13, <2>0, <2>3, <3>2, <3>3, <3>4
      <3> QED
        BY <3>1, <3>5 DEF Linked
    <2> QED
      BY <2>1, <2>2, <2>3
  <1>18. Layout(s, n, st2, m + 1)'
    <2>1. (m + 1) - 1 = m
      BY <1>5
    <2> QED
      BY <1>7, <1>16, <1>17, <2>1 DEF Layout
  <1>19. ASSUME NEW k \in 1 .. m, NEW l \in m + 1 .. n,
                ops'[s[l]].kind = "TRANSFER_CPY", Used(s[l])', ops'[s[l]].arg = s[k]
         PROVE  ops'[s[k]].loop_addr = buf'.base + st2[k + 1] - 1
    <2>0. l \in 1 .. n /\ l \in m .. n /\ k \in 1 .. n
      BY <1>0
    <2>1. s[l] \in Ids /\ s[k] \in Ids
      BY <1>0, <2>0
    <2>2. ops[s[l]].kind = "TRANSFER_CPY" /\ Used(s[l]) /\ ops[s[l]].arg = s[k]
      BY <1>3, <1>4, <1>19, <2>1
    <2>3. k # m
      BY <1>0, <2>0, <2>2, LoopOrder
    <2>4. k \in 1 .. m - 1
      BY <2>3
    <2>5. ops[s[k]].loop_addr = buf.base + st[k + 1] - 1
      BY <2>0, <2>2, <2>4 DEF OpenLoops
    <2>6. st2[k + 1] = st[k + 1]
      BY <1>7, <1>8, <2>4
    <2> QED
      BY <1>1, <2>1, <2>5, <2>6
  <1>20. OpenLoops(s, n, st2, m + 1)'
    <2>1. (m + 1) - 1 = m
      BY <1>5
    <2> QED
      BY <1>19, <2>1 DEF OpenLoops
  <1> QED
    BY <1>6, <1>18, <1>20 DEF t2

(* Memory that malloc and mmap return is aligned as programs ask.          *)
LEMMA Multiples ==
    ASSUME NEW a \in Nat, NEW b \in Nat, NEW n \in Nat \ {0}, a % n = 0
    PROVE  (a + b) % n = 0 <=> b % n = 0
  <1>1. \A x \in Int : (n * x) % n = 0
    OBVIOUS
  <1>2. PICK q \in Int : a = n * q
    <2>1. a = n * (a \div n) /\ a \div n \in Int
      OBVIOUS
    <2> QED
      BY <2>1
  <1>3. ASSUME b % n = 0 PROVE (a + b) % n = 0
    <2>1. PICK r \in Int : b = n * r
      <3>1. b = n * (b \div n) /\ b \div n \in Int
        BY <1>3
      <3> QED
        BY <3>1
    <2>2. a + b = n * (q + r) /\ q + r \in Int
      BY <1>2, <2>1
    <2> QED
      BY <1>1, <2>2
  <1>4. ASSUME (a + b) % n = 0 PROVE b % n = 0
    <2>1. PICK r \in Int : a + b = n * r
      <3>1. a + b = n * ((a + b) \div n) /\ (a + b) \div n \in Int
        BY <1>4
      <3> QED
        BY <3>1
    <2>2. b = n * (r - q) /\ r - q \in Int
      BY <1>2, <2>1
    <2> QED
      BY <1>1, <2>2
  <1> QED
    BY <1>3, <1>4

-----------------------------------------------------------------------------
(* The invariant of the code.                                              *)

(* While code is written, s[m] being the next.                             *)
Writing(n, s, st, m) ==
    /\ Path(s, n, alive, next, prev)
    /\ Ordered(s, n)
    /\ Layout(s, n, st, m)
    /\ OpenLoops(s, n, st, m)
    /\ cur = IF m <= n THEN s[m] ELSE 0
    /\ pass = "emit" => m <= n

(* The first a - 1 operations hold the addresses they refer to.            *)
Addressed(s, n, st, a) ==
    \A k \in 1 .. a - 1, q \in 1 .. n :
      ops[s[k]].kind \in Refs \cup DataRefs /\ Used(s[k]) /\ s[q] = ops[s[k]].jmp_addr =>
        buf.cells[st[k + 1]].d = buf.base + st[q]

(* While addresses are filled in, s[a] being the next.                     *)
Addressing(n, s, st, a) ==
    /\ Path(s, n, alive, next, prev)
    /\ Ordered(s, n)
    /\ Layout(s, n, st, n + 1)
    /\ a \in 1 .. n + 1
    /\ cur = IF a <= n THEN s[a] ELSE 0
    /\ Addressed(s, n, st, a)

(* While code is written it lies on the heap; its addresses are filled in  *)
(* when it has moved to its pages.                                         *)
LayoutInv ==
    /\ pass \in {"room", "emit"} =>
         buf.base \in Heap /\ \E n, s, st, m : Writing(n, s, st, m)
    /\ pass = "addresses" =>
         buf.base \in Pages /\ \E n, s, st, a : Addressing(n, s, st, a)

LEMMA ListedNow ==
    ASSUME ListIInv, KeptInv, pass \in {"room", "emit", "addresses"},
           NEW s, NEW n, Path(s, n, alive, next, prev), Ordered(s, n)
    PROVE  Listed(s, n)
  <1>1. \A o \in alive : KeptOp(o)
    BY DEF KeptInv, Kept
  <1> QED
    BY <1>1 DEF Listed, ListIInv, ListInv, ListTyped

(* Code begins to be written.                                              *)
LEMMA StartLaid ==
    ASSUME ListIInv, KeptInv, AllocateBuffer
    PROVE  LayoutInv'
  <1>1. /\ pass' = "room" /\ cur' = CODESTART /\ UNCHANGED <<ops, next, prev, alive, source>>
        /\ pass = "branches"
    BY DEF AllocateBuffer, Goto, list
  <1>2. PICK n, s : Path(s, n, alive, next, prev) /\ Ordered(s, n)
    BY <1>1 DEF KeptInv, Kept
  <1>3. PICK a \in Heap : buf' = [base |-> a, capacity |-> BUF_SIZE, cells |-> <<>>]
    BY DEF AllocateBuffer
  <1>4. buf'.base \in Heap /\ Len(buf'.cells) = 0
    BY <1>3, ShortSeqs
  <1> DEFINE st == [k \in 1 .. n + 1 |-> 0]
  <1>5. n \in Nat \ {0} /\ s[1] = CODESTART
    BY <1>2 DEF Path
  <1>6. st \in [1 .. n + 1 -> Nat] /\ \A k \in 1 .. 1 : st[k] = 0
    BY <1>5
  <1> HIDE DEF st
  <1>7. Measured(n, st, 1)'
    BY <1>4, <1>5, <1>6 DEF Measured
  <1>8. Layout(s, n, st, 1)'
    BY <1>7 DEF Layout
  <1>9. OpenLoops(s, n, st, 1)'
    BY DEF OpenLoops
  <1>10. Path(s, n, alive, next, prev)'
    BY <1>1, <1>2
  <1>11. Ordered(s, n)'
    BY <1>1, <1>2 DEF Ordered
  <1>12. cur' = IF 1 <= n THEN s[1] ELSE 0
    BY <1>1, <1>5
  <1>13. Writing(n, s, st, 1)'
    BY <1>1, <1>8, <1>9, <1>10, <1>11, <1>12 DEF Writing
  <1> QED
    BY <1>1, <1>4, <1>13 DEF LayoutInv

LEMMA AfterNext ==
    ASSUME NEW A, NEW nx, NEW pv, NEW n, NEW s, Path(s, n, A, nx, pv), NEW m \in 1 .. n
    PROVE  nx[s[m]] = IF m + 1 <= n THEN s[m + 1] ELSE 0
  <1>1. n \in Nat \ {0} /\ nx[s[n]] = 0 /\ \A j \in 1 .. n - 1 : nx[s[j]] = s[j + 1]
    BY DEF Path
  <1>2. CASE m = n
    BY <1>1, <1>2
  <1>3. CASE m # n
    <2>1. m \in 1 .. n - 1 /\ m + 1 <= n
      BY <1>1, <1>3
    <2> QED
      BY <1>1, <2>1
  <1> QED
    BY <1>2, <1>3

LEMMA EmitLaid ==
    ASSUME MemoryAligned, ListIInv, KeptInv, LayoutInv, Emit
    PROVE  LayoutInv'
  <1>1. /\ pass = "emit" /\ pass' = "room" /\ cur' = next[cur] /\ EmitOp(cur)
        /\ UNCHANGED <<source, next, prev, alive>>
    BY DEF Emit, Goto, list
  <1>2. PICK n, s, st, m : Writing(n, s, st, m)
    BY <1>1 DEF LayoutInv
  <1>3. /\ Path(s, n, alive, next, prev) /\ Ordered(s, n) /\ Layout(s, n, st, m)
        /\ OpenLoops(s, n, st, m) /\ m \in 1 .. n + 1 /\ m <= n /\ cur = s[m]
    BY <1>1, <1>2 DEF Writing, Layout, Measured
  <1>4. Listed(s, n)
    BY <1>1, <1>3, ListedNow
  <1>5. /\ n \in Nat /\ m \in 1 .. n /\ ops \in [Ids -> Op] /\ alive \subseteq Ids /\ Buffer(buf)
        /\ source \in Programs /\ buf.base \in Heap /\ buf.base \in Nat
        /\ s[m] \in alive /\ s[m] \in Ids /\ Core(s[m])
    <2>1. n \in Nat /\ m \in 1 .. n
      BY <1>3, <1>4, ListedFacts
    <2> QED
      BY <1>1, <1>4, <2>1, ListedFacts DEF LayoutInv, Buffer
  <1>6. PICK o : o = s[m]
    OBVIOUS
  <1>7. Notes
    BY <1>1, <1>3, <1>5, EmitOpStep
  <1>8. cur' = IF m + 1 <= n THEN s[m + 1] ELSE 0
    BY <1>1, <1>3, <1>5, AfterNext
  <1>9. Ordered(s, n)'
    <2>1. \A k \in 1 .. n : s[k] \in Ids
      BY <1>4, ListedFacts
    <2> QED
      BY <1>3, <1>7, <2>1 DEF Ordered, Notes
  <1>10. \E to : Layout(s, n, [st EXCEPT ![m + 1] = to], m + 1)'
                 /\ OpenLoops(s, n, [st EXCEPT ![m + 1] = to], m + 1)' /\ buf'.base = buf.base
    <2>1. CASE ops[s[m]].kind = "PATCH"
      <3>1. ASSUME NEW x \in 1 .. Len(buf.cells) PROVE IsCell(buf.cells[x])
        <4>1. PICK k \in 1 .. m - 1 : x \in st[k] + 1 .. st[k + 1]
          BY <1>3, <1>5, EveryCell
        <4> QED
          BY <1>3, <4>1 DEF Layout, LaidOut, Block
      <3>2. Patches(s[m])
        BY <1>1, <1>3, <1>5, <2>1, <3>1, EmitPatches
      <3>3. LET st2 == [st EXCEPT ![m + 1] = st[m]]
            IN Layout(s, n, st2, m + 1)' /\ OpenLoops(s, n, st2, m + 1)'
        BY <1>1, <1>3, <1>4, <1>5, <1>7, <2>1, <3>2, PatchLayout
      <3>4. buf'.base = buf.base
        BY <3>2 DEF Patches
      <3>5. PICK to : to = st[m]
        OBVIOUS
      <3> QED
        BY <3>3, <3>4, <3>5
    <2>2. CASE ops[s[m]].kind # "PATCH"
      <3>1. ops[s[m]].kind \in Jumps => ops[s[m]].n >= 2
        <4>1. Stands(s[m]) /\ WellFormed(source)
          BY <1>5, ProgramsAssumption DEF Core
        <4>2. CASE ops[s[m]].item = 0
          BY <4>1, <4>2 DEF Stands, Jumps
        <4>3. CASE ops[s[m]].item # 0
          BY <4>1, <4>3 DEF Stands, Jumps, WellFormed
        <4> QED
          BY <4>2, <4>3
      <3>2. ops[s[m]].turned => ops[s[m]].kind = "BRANCH"
        BY <1>5 DEF Core, TurnedRight
      <3>3. PICK from, to : Wrote1(s[m], from, to) /\ Noted1(s[m], from, to)
        BY <1>1, <1>3, <1>5, <2>2, <3>1, <3>2, EmitWrites
      <3>4. from = st[m] /\ buf'.base = buf.base /\ to \in Nat
        BY <1>3, <3>3 DEF Layout, Measured, Wrote1
      <3>5. ops[s[m]].kind = "CODE_ALIGN" => to % ops[s[m]].n = 0
        <4> SUFFICES ASSUME ops[s[m]].kind = "CODE_ALIGN" PROVE to % ops[s[m]].n = 0
          OBVIOUS
        <4>1. Stands(s[m]) /\ ops[s[m]] \in Op
          BY <1>5 DEF Core
        <4>2. /\ ops[s[m]].item \in DOMAIN source /\ ops[s[m]].n = source[ops[s[m]].item].n
              /\ source[ops[s[m]].item].kind = "CODE_ALIGN" /\ ops[s[m]].n \in Nat \ {0}
          BY <4>1 DEF Stands, Op
        <4>3. buf.base % ops[s[m]].n = 0
          BY <1>5, <4>2 DEF MemoryAligned
        <4>4. (buf.base + to) % ops[s[m]].n = 0
          BY <3>3 DEF Wrote1
        <4> QED
          BY <1>5, <3>4, <4>2, <4>3, <4>4, Multiples
      <3>6. LET st2 == [st EXCEPT ![m + 1] = to]
            IN Layout(s, n, st2, m + 1)' /\ OpenLoops(s, n, st2, m + 1)'
        BY <1>1, <1>3, <1>4, <1>5, <1>7, <2>2, <3>3, <3>4, <3>5, EmitLayout
      <3> QED
        BY <3>4, <3>6
    <2> QED
      BY <2>1, <2>2
  <1>11. PICK to : /\ Layout(s, n, [st EXCEPT ![m + 1] = to], m + 1)'
                   /\ OpenLoops(s, n, [st EXCEPT ![m + 1] = to], m + 1)' /\ buf'.base = buf.base
    BY <1>10
  <1>12. PICK st2 : st2 = [st EXCEPT ![m + 1] = to]
    OBVIOUS
  <1>13. Layout(s, n, st2, m + 1)' /\ OpenLoops(s, n, st2, m + 1)' /\ Path(s, n, alive, next, prev)'
    BY <1>1, <1>3, <1>11, <1>12
  <1>14. Writing(n, s, st2, m + 1)'
    BY <1>1, <1>8, <1>9, <1>13 DEF Writing
  <1> QED
    BY <1>1, <1>5, <1>11, <1>14 DEF LayoutInv

(* A transfer loop is open while its TRANSFER is written and its jump back *)
(* is not.                                                                 *)
LoopOpen ==
    \E k \in Reached(source) :
      /\ source[k].kind = "TRANSFER_CPY"
      /\ \E x \in DOMAIN buf.cells : buf.cells[x].of = source[k].to
      /\ \A x \in DOMAIN buf.cells : buf.cells[x].of # k

(* The buffer does not move while a loop is open: the address the loop     *)
(* keeps of its beginning (loop_addr) is one in the buffer it was written  *)
(* to.                                                                     *)
LoopStays == LoopOpen /\ pass \in {"room", "emit"} /\ cur # 0 => buf'.base = buf.base

(* Nothing of it depends on where the buffer is.                           *)
LEMMA LayoutStays ==
    ASSUME NEW s, NEW n, NEW st, NEW m, Layout(s, n, st, m), UNCHANGED ops,
           UNCHANGED source, buf'.cells = buf.cells
    PROVE  Layout(s, n, st, m)'
  <1>1. Measured(n, st, m)'
    BY DEF Layout, Measured
  <1>2. ASSUME NEW k \in 1 .. m - 1 PROVE LaidOut(s[k], st[k], st[k + 1])'
    <2>1. LaidOut(s[k], st[k], st[k + 1])
      BY DEF Layout
    <2>2. Size(s[k])' = Size(s[k]) /\ LastCell(s[k])' = LastCell(s[k])
      BY DEF Size, LastCell
    <2>3. Block(buf.cells, s[k], st[k], st[k + 1])'
      BY <2>1, <2>2 DEF LaidOut, Block
    <2> QED
      BY <2>1, <2>3 DEF LaidOut, Noted
  <1>3. ASSUME NEW k \in 1 .. m - 1, NEW q \in 1 .. m - 1
        PROVE  Linked(s[k], s[q], st[k + 1], st[q], st[q + 1])'
    <2>1. Linked(s[k], s[q], st[k + 1], st[q], st[q + 1])
      BY DEF Layout
    <2>2. Used(s[k])' <=> Used(s[k])
      BY DEF Used, MadeJump
    <2> QED
      BY <2>1, <2>2 DEF Linked
  <1> QED
    BY <1>1, <1>2, <1>3 DEF Layout

LEMMA OpenIsOpen ==
    ASSUME NEW s, NEW n, Listed(s, n), NEW st, NEW m, Layout(s, n, st, m),
           NEW k \in 1 .. m - 1, NEW l \in m .. n,
           ops[s[l]].kind = "TRANSFER_CPY", Used(s[l]), ops[s[l]].arg = s[k]
    PROVE  LoopOpen
  <1>0. /\ n \in Nat /\ ops \in [Ids -> Op] /\ alive \subseteq Ids /\ source \in Programs
        /\ Path(s, n, alive, next, prev) /\ Ordered(s, n) /\ Buffer(buf)
        /\ \A z \in alive : Core(z)
        /\ \A j \in 1 .. n : s[j] \in alive /\ s[j] \in Ids /\ Size(s[j]) \in Nat
    BY ListedFacts
  <1>1. /\ m \in Nat /\ m \in 1 .. n + 1 /\ Len(buf.cells) \in Nat
        /\ st[k] \in Nat /\ st[k + 1] \in Nat /\ st[k + 1] <= Len(buf.cells)
        /\ Block(buf.cells, s[k], st[k], st[k + 1])
    BY <1>0, LayoutFacts
  <1>2. k \in 1 .. n /\ l \in 1 .. n /\ DOMAIN buf.cells = 1 .. Len(buf.cells)
    BY <1>0, <1>1, SeqFacts DEF Buffer
  <1> DEFINE i == ops[s[l]].item
  <1>3. /\ ops[s[k]].kind = "TRANSFER" /\ i \in DOMAIN source
        /\ source[i].kind = "TRANSFER_CPY" /\ ops[s[k]].item = source[i].to
    BY <1>0, <1>2, LoopOrder
  <1>4. i \in Reached(source) /\ i \in Nat \ {0}
    <2>1. i \in Reached(source)
      BY DEF Used, MadeJump
    <2>2. i \in Nat \ {0}
      BY <1>0, <1>3, ProgramFacts
    <2> QED
      BY <2>1, <2>2
  <1>5. buf.cells[st[k + 1]].of = source[i].to /\ st[k + 1] \in 1 .. Len(buf.cells)
    <2>1. ops[s[k]] \in Op
      BY <1>0, <1>2
    <2>2. Size(s[k]) \in Nat \ {0}
      BY <1>3, <2>1 DEF Size, Op
    <2>3. st[k] <= st[k + 1] - Size(s[k])
      BY <1>1 DEF Block
    <2>4. st[k + 1] \in (st[k + 1] - Size(s[k])) + 1 .. st[k + 1] /\ st[k + 1] \in 1 .. Len(buf.cells)
      BY <1>1, <2>2, <2>3
    <2> QED
      BY <1>1, <1>3, <2>4 DEF Block
  <1>6. ASSUME NEW x \in 1 .. Len(buf.cells) PROVE buf.cells[x].of # i
    <2>1. PICK j \in 1 .. m - 1 : x \in st[j] + 1 .. st[j + 1]
      BY <1>0, EveryCell
    <2>2. /\ st[j] \in Nat /\ st[j + 1] \in Nat /\ Block(buf.cells, s[j], st[j], st[j + 1])
          /\ j \in 1 .. n /\ j < l
      BY <1>0, <1>1, LayoutFacts
    <2>3. buf.cells[x].of = 0 \/ buf.cells[x].of = ops[s[j]].item
      <3>1. Size(s[j]) \in Nat
        BY <1>0, <2>2
      <3>2. \/ x \in st[j] + 1 .. st[j + 1] - Size(s[j])
            \/ x \in (st[j + 1] - Size(s[j])) + 1 .. st[j + 1]
        BY <2>1, <2>2, <3>1
      <3> QED
        BY <2>2, <3>2 DEF Block
    <2>4. ops[s[j]].item < i
      BY <1>0, <1>2, <1>4, <2>2 DEF Ordered
    <2>5. ops[s[j]].item \in Nat
      BY <1>0, <2>2 DEF Op
    <2> QED
      BY <1>4, <2>3, <2>4, <2>5
  <1> HIDE DEF i
  <1> QED
    BY <1>2, <1>3, <1>4, <1>5, <1>6 DEF LoopOpen

(* The buffer may move where no loop is open.                              *)
LEMMA MovedLaid ==
    ASSUME ListIInv, KeptInv, LayoutInv, LoopStays, CheckRoom \/ RoomForData
    PROVE  LayoutInv'
  <1>1. /\ pass \in {"room", "emit"} /\ pass' = "emit" /\ cur' = cur
        /\ UNCHANGED <<ops, source, next, prev, alive>>
    BY DEF CheckRoom, RoomForData, Goto, list
  <1>2. Buffer(buf)
    BY DEF ListIInv
  <1>3. buf'.cells = buf.cells /\ buf'.base \in Heap
    <2>1. CASE Expand
      <3>1. buf'.cells = buf.cells
        BY <1>2, <2>1, ExpandBuffer
      <3>2. PICK a \in Heap : buf' = [buf EXCEPT !.base = a, !.capacity = 2 * @]
        BY <2>1 DEF Expand
      <3>3. buf'.base = a
        BY <1>2, <3>2 DEF Buffer
      <3> QED
        BY <3>1, <3>3
    <2>2. CASE UNCHANGED buf
      BY <1>1, <2>2 DEF LayoutInv
    <2> QED
      BY <2>1, <2>2 DEF CheckRoom, RoomForData
  <1>4. PICK n, s, st, m : Writing(n, s, st, m)
    BY <1>1 DEF LayoutInv
  <1>5. /\ Path(s, n, alive, next, prev) /\ Ordered(s, n) /\ Layout(s, n, st, m)
        /\ OpenLoops(s, n, st, m) /\ m \in 1 .. n + 1 /\ cur = IF m <= n THEN s[m] ELSE 0
    BY <1>4 DEF Writing, Layout, Measured
  <1>6. Listed(s, n) /\ n \in Nat
    <2>1. Listed(s, n)
      BY <1>1, <1>5, ListedNow
    <2> QED
      BY <2>1, ListedFacts
  <1>7. m <= n /\ cur # 0
    <2>1. CASE CheckRoom
      BY <1>5, <2>1 DEF CheckRoom
    <2>2. CASE RoomForData
      <3>1. m <= n
        BY <1>4, <2>2 DEF RoomForData, Writing
      <3>2. s[m] \in Ids
        BY <1>5, <1>6, <3>1, ListedFacts
      <3> QED
        BY <1>5, <3>1, <3>2, StartFacts
    <2> QED
      BY <2>1, <2>2
  <1>8. OpenLoops(s, n, st, m)'
    <2> SUFFICES ASSUME NEW k \in 1 .. m - 1, NEW l \in m .. n,
                        ops[s[l]].kind = "TRANSFER_CPY", Used(s[l]), ops[s[l]].arg = s[k]
                 PROVE  ops[s[k]].loop_addr = buf'.base + st[k + 1] - 1
      BY <1>1 DEF OpenLoops, Used, MadeJump
    <2>1. LoopOpen
      BY <1>5, <1>6, OpenIsOpen
    <2>2. buf'.base = buf.base
      BY <1>1, <1>7, <2>1 DEF LoopStays
    <2> QED
      BY <1>5, <2>2 DEF OpenLoops
  <1>9. Layout(s, n, st, m)'
    BY <1>1, <1>3, <1>5, LayoutStays
  <1>10. Writing(n, s, st, m)'
    BY <1>1, <1>5, <1>7, <1>8, <1>9 DEF Writing, Ordered
  <1> QED
    BY <1>1, <1>3, <1>10 DEF LayoutInv

(* All code is written; it moves to the pages.                             *)
LEMMA MoveLaid ==
    ASSUME ListIInv, KeptInv, LayoutInv, Move
    PROVE  LayoutInv'
  <1>1. /\ pass = "room" /\ pass' = "addresses" /\ cur = 0 /\ cur' = First
        /\ UNCHANGED <<ops, source, next, prev, alive>>
    BY DEF Move, Goto, list
  <1>2. buf'.cells = buf.cells /\ buf'.base \in Pages
    BY DEF Move, ListIInv, Buffer
  <1>3. PICK n, s, st, m : Writing(n, s, st, m)
    BY <1>1 DEF LayoutInv
  <1>4. /\ Path(s, n, alive, next, prev) /\ Ordered(s, n) /\ Layout(s, n, st, m)
        /\ m \in 1 .. n + 1 /\ cur = IF m <= n THEN s[m] ELSE 0
    BY <1>3 DEF Writing, Layout, Measured
  <1>5. Listed(s, n) /\ n \in Nat
    <2>1. Listed(s, n)
      BY <1>1, <1>4, ListedNow
    <2> QED
      BY <2>1, ListedFacts
  <1>6. m = n + 1
    <2> SUFFICES ASSUME m <= n PROVE FALSE
      BY <1>4, <1>5
    <2>1. m \in 1 .. n
      BY <1>4, <1>5
    <2>2. s[m] \in Ids
      BY <1>5, <2>1, ListedFacts
    <2> QED
      BY <1>1, <1>4, <2>2, StartFacts
  <1>7. First = CODESTART /\ s[1] = CODESTART /\ 1 <= n
    <2>1. alive \subseteq Ids
      BY <1>5, ListedFacts
    <2>2. First = CODESTART
      BY <1>4, <2>1, FirstIsStart
    <2> QED
      BY <1>4, <2>2 DEF Path
  <1>8. Layout(s, n, st, n + 1)'
    BY <1>1, <1>2, <1>4, <1>6, LayoutStays
  <1>9. Addressed(s, n, st, 1)'
    BY DEF Addressed
  <1>10. cur' = IF 1 <= n THEN s[1] ELSE 0
    BY <1>1, <1>7
  <1>11. 1 \in 1 .. n + 1 /\ Path(s, n, alive, next, prev)' /\ Ordered(s, n)'
    BY <1>1, <1>4, <1>5 DEF Ordered
  <1>12. Addressing(n, s, st, 1)'
    BY <1>8, <1>9, <1>10, <1>11 DEF Addressing
  <1> QED
    BY <1>1, <1>2, <1>12 DEF LayoutInv

(* The address of what a reference that is used leads to.                  *)
LEMMA AddressRight ==
    ASSUME NEW s, NEW n, Listed(s, n), NEW st, Layout(s, n, st, n + 1),
           NEW a \in 1 .. n, ops[s[a]].kind \in Refs \cup DataRefs, Used(s[a]),
           NEW q \in 1 .. n, s[q] = ops[s[a]].jmp_addr
    PROVE  AddressOf(s[a]) = buf.base + st[q]
  <1>0. /\ n \in Nat /\ ops \in [Ids -> Op] /\ alive \subseteq Ids /\ source \in Programs
        /\ Path(s, n, alive, next, prev) /\ Ordered(s, n) /\ Buffer(buf)
        /\ \A z \in alive : Core(z)
        /\ \A j \in 1 .. n : s[j] \in alive /\ s[j] \in Ids /\ Size(s[j]) \in Nat
        /\ \A j, k \in 1 .. n : s[j] = s[k] => j = k
    BY ListedFacts
  <1>1. ops[s[a]].kind \in Refers
    BY DEF Refs, DataRefs, Refers
  <1>2. PICK y \in 1 .. n :
             /\ s[y] = ops[s[a]].jmp_addr
             /\ \/ ops[s[y]].kind = "LABEL" /\ ops[s[a]].arg = s[y] /\ y < a
                \/ ops[s[y]].kind = "PATCH" /\ ops[s[y]].arg = s[a] /\ ~IsLabel(ops[s[a]].arg) /\ a < y
    BY <1>0, <1>1, TargetsLie
  <1>3. y = q
    BY <1>0, <1>2
  <1>4. (n + 1) - 1 = n
    BY <1>0
  <1>5. CASE ops[s[q]].kind = "LABEL" /\ ops[s[a]].arg = s[q]
    <2>1. ops[s[q]].pos = st[q]
      BY <1>4, <1>5 DEF Layout, LaidOut, Noted
    <2>2. IsLabel(ops[s[a]].arg)
      BY <1>0, <1>5, StartFacts DEF IsLabel
    <2> QED
      BY <1>5, <2>1, <2>2 DEF AddressOf
  <1>6. CASE ops[s[q]].kind = "PATCH" /\ ~IsLabel(ops[s[a]].arg)
    <2>1. Linked(s[a], s[q], st[a + 1], st[q], st[q + 1])
      BY <1>4 DEF Layout
    <2>2. ops[s[a]].fixed = st[q]
      BY <1>6, <2>1 DEF Linked
    <2> QED
      BY <1>6, <2>2 DEF AddressOf
  <1> QED
    BY <1>2, <1>3, <1>5, <1>6

LEMMA AddressCells ==
    ASSUME Buffer(buf), PatchLocalAddr, NEW from, NEW y,
           ops[cur].kind \in Refs \cup DataRefs =>
             ops[cur].pos = from /\ y = RefCells(cur, AddressOf(cur))
    PROVE  /\ buf'.base = buf.base /\ Len(buf'.cells) = Len(buf.cells)
           /\ \A x \in 1 .. Len(buf.cells) :
                buf'.cells[x] = IF ops[cur].kind \in Refs \cup DataRefs /\ x \in from + 1 .. from + Len(y)
                                THEN y[x - from] ELSE buf.cells[x]
  <1>1. CASE ops[cur].kind \notin Refs \cup DataRefs
    <2>1. buf' = buf
      BY <1>1 DEF PatchLocalAddr
    <2> QED
      BY <1>1, <2>1
  <1>2. CASE ops[cur].kind \in Refs \cup DataRefs
    <2>1. PICK e : e = Overwritten(buf.cells, from, y)
      OBVIOUS
    <2>2. buf' = [buf EXCEPT !.cells = e]
      BY <1>2, <2>1 DEF PatchLocalAddr
    <2>3. /\ Len(e) = Len(buf.cells)
          /\ \A x \in 1 .. Len(buf.cells) :
               e[x] = IF x \in from + 1 .. from + Len(y) THEN y[x - from] ELSE buf.cells[x]
      BY <2>1, OverwrittenSeq DEF Buffer
    <2>4. buf'.cells = e /\ buf'.base = buf.base
      BY <2>2 DEF Buffer
    <2> QED
      BY <1>2, <2>3, <2>4
  <1> QED
    BY <1>1, <1>2

LEMMA AddressLaid ==
    ASSUME ListIInv, KeptInv, LayoutInv, PatchLocalAddr
    PROVE  LayoutInv'
  <1>1. /\ pass = "addresses" /\ pass' = "addresses" /\ cur # 0 /\ cur' = next[cur]
        /\ UNCHANGED <<ops, source, next, prev, alive>>
    BY DEF PatchLocalAddr, Goto, list
  <1>2. PICK n, s, st, a : Addressing(n, s, st, a)
    BY <1>1 DEF LayoutInv
  <1>3. /\ Path(s, n, alive, next, prev) /\ Ordered(s, n) /\ Layout(s, n, st, n + 1)
        /\ a \in 1 .. n + 1 /\ cur = s[a] /\ a <= n /\ Addressed(s, n, st, a)
    BY <1>1, <1>2 DEF Addressing
  <1>4. Listed(s, n)
    BY <1>1, <1>3, ListedNow
  <1>5. /\ n \in Nat /\ ops \in [Ids -> Op] /\ alive \subseteq Ids /\ source \in Programs
        /\ Buffer(buf) /\ a \in 1 .. n /\ (n + 1) - 1 = n /\ a \in Nat
        /\ \A j \in 1 .. n : s[j] \in alive /\ s[j] \in Ids /\ Size(s[j]) \in Nat
    <2>1. n \in Nat
      BY <1>4, ListedFacts
    <2> QED
      BY <1>3, <1>4, <2>1, ListedFacts
  <1>6. PICK y : y = RefCells(cur, AddressOf(cur))
    OBVIOUS
  <1> DEFINE c == buf.cells
             e == buf'.cells
  <1>7. /\ n + 1 \in Nat /\ Len(c) \in Nat
        /\ \A k \in 1 .. n : /\ k + 1 \in 1 .. n + 1 /\ st[k] \in Nat /\ st[k + 1] \in Nat
                             /\ st[k] <= st[k + 1] /\ st[k + 1] <= Len(c)
                             /\ Block(c, s[k], st[k], st[k + 1])
        /\ \A j, k \in 1 .. n : j < k => st[j + 1] <= st[k]
    BY <1>3, <1>5, LayoutFacts
  <1>8. ops[s[a]].kind \in Refs \cup DataRefs =>
          /\ Size(s[a]) = ops[s[a]].n /\ ops[s[a]].n \in Nat \ {0} /\ ~ops[s[a]].turned
          /\ LastCell(s[a]) = "addr" /\ ops[s[a]].pos = st[a] /\ st[a + 1] = st[a] + ops[s[a]].n
          /\ ops[s[a]].kind \notin {"TRANSFER", "PROLOG", "CODE_ALIGN"}
    <2> SUFFICES ASSUME ops[s[a]].kind \in Refs \cup DataRefs
                 PROVE  /\ Size(s[a]) = ops[s[a]].n /\ ops[s[a]].n \in Nat \ {0} /\ ~ops[s[a]].turned
                        /\ LastCell(s[a]) = "addr" /\ ops[s[a]].pos = st[a]
                        /\ st[a + 1] = st[a] + ops[s[a]].n
                        /\ ops[s[a]].kind \notin {"TRANSFER", "PROLOG", "CODE_ALIGN"}
      OBVIOUS
    <2>1. Noted(s[a], st[a], st[a + 1])
      BY <1>3, <1>5 DEF Layout, LaidOut
    <2>2. ops[s[a]] \in Op
      BY <1>5
    <2>3. Size(s[a]) = ops[s[a]].n /\ ops[s[a]].n \in Nat \ {0} /\ LastCell(s[a]) = "addr"
      BY <2>2 DEF Size, LastCell, Jumps, Refs, DataRefs, Op
    <2>4. ops[s[a]].pos = st[a] /\ st[a] = st[a + 1] - Size(s[a])
      BY <1>5, <1>7, <2>1, <2>3 DEF Noted, Block, Refs, DataRefs
    <2>5. ~ops[s[a]].turned
      <3>1. KeptOp(s[a])
        BY <1>1, <1>5 DEF KeptInv, Kept
      <3> QED
        BY <3>1 DEF KeptOp, Core, TurnedRight, Refs, DataRefs
    <2>6. st[a + 1] = st[a] + ops[s[a]].n
      BY <1>5, <1>7, <2>3, <2>4
    <2> QED
      BY <2>3, <2>4, <2>5, <2>6 DEF Refs, DataRefs
  <1>9. ops[s[a]].kind \in Refs \cup DataRefs =>
          /\ Len(y) = ops[s[a]].n /\ Block(y, s[a], 0, Len(y)) /\ y[Len(y)].d = AddressOf(cur)
    <2> SUFFICES ASSUME ops[s[a]].kind \in Refs \cup DataRefs
                 PROVE  Len(y) = ops[s[a]].n /\ Block(y, s[a], 0, Len(y)) /\ y[Len(y)].d = AddressOf(cur)
      OBVIOUS
    <2>1. PICK d : d = AddressOf(cur)
      OBVIOUS
    <2>2. y = Plain(ops[s[a]].item, ops[s[a]].n - 1) \o <<Cell(ops[s[a]].item, LastCell(s[a]), d, FALSE)>>
      BY <1>3, <1>6, <1>8, <2>1 DEF RefCells
    <2> QED
      BY <1>8, <2>1, <2>2, LastBlock
  <1>10. /\ buf'.base = buf.base /\ Len(e) = Len(c)
         /\ \A x \in 1 .. Len(c) :
              e[x] = IF ops[s[a]].kind \in Refs \cup DataRefs /\ x \in st[a] + 1 .. st[a] + Len(y)
                     THEN y[x - st[a]] ELSE c[x]
    <2>1. PICK from : from = st[a]
      OBVIOUS
    <2>2. ops[cur].kind \in Refs \cup DataRefs =>
             ops[cur].pos = from /\ y = RefCells(cur, AddressOf(cur))
      BY <1>3, <1>6, <1>8, <2>1
    <2>3. Buffer(buf)
      BY <1>5
    <2> HIDE DEF c, e
    <2>4. /\ buf'.base = buf.base /\ Len(buf'.cells) = Len(buf.cells)
          /\ \A x \in 1 .. Len(buf.cells) :
               buf'.cells[x] = IF ops[cur].kind \in Refs \cup DataRefs /\ x \in from + 1 .. from + Len(y)
                               THEN y[x - from] ELSE buf.cells[x]
      BY <2>2, <2>3, AddressCells
    <2> QED
      BY <1>3, <2>1, <2>4 DEF c, e
  <1>11. ASSUME NEW k \in 1 .. n, ~(k = a /\ ops[s[a]].kind \in Refs \cup DataRefs),
                NEW x \in st[k] + 1 .. st[k + 1]
         PROVE  e[x] = c[x] /\ IsCell(e[x])
    <2>1. x \in 1 .. Len(c)
      BY <1>7, <1>11
    <2>2. ASSUME ops[s[a]].kind \notin Refs \cup DataRefs PROVE e[x] = c[x]
      BY <1>10, <2>1, <2>2
    <2>3. ASSUME ops[s[a]].kind \in Refs \cup DataRefs PROVE e[x] = c[x]
      <3>1. k < a \/ a < k
        BY <1>5, <1>11, <2>3
      <3>2. st[k + 1] <= st[a] \/ st[a + 1] <= st[k]
        BY <1>5, <1>7, <3>1
      <3>3. st[a] \in Nat /\ st[a + 1] \in Nat /\ st[k] \in Nat /\ st[k + 1] \in Nat
        BY <1>5, <1>7
      <3>4. st[a] + Len(y) = st[a + 1]
        BY <1>8, <1>9, <2>3
      <3>5. x \notin st[a] + 1 .. st[a] + Len(y)
        BY <3>2, <3>3, <3>4
      <3> QED
        BY <1>10, <2>1, <3>5
    <2>4. IsCell(c[x])
      BY <1>7 DEF Block
    <2> QED
      BY <2>2, <2>3, <2>4
  <1>12. Notes
    BY <1>1, <1>5 DEF Notes
  <1>13. \A k \in 1 .. n : LaidOut(s[k], st[k], st[k + 1])'
    <2> SUFFICES ASSUME NEW k \in 1 .. n PROVE LaidOut(s[k], st[k], st[k + 1])'
      OBVIOUS
    <2>1. LaidOut(s[k], st[k], st[k + 1])
      BY <1>3, <1>5 DEF Layout
    <2>2. s[k] \in Ids /\ Size(s[k]) \in Nat /\ ops'[s[k]].pos = ops[s[k]].pos
      BY <1>1, <1>5
    <2>3. st[k] \in Nat /\ st[k + 1] \in Nat
      BY <1>7
    <2>4. CASE ~(k = a /\ ops[s[a]].kind \in Refs \cup DataRefs)
      BY <1>11, <1>12, <2>1, <2>2, <2>3, <2>4, LaidOutKept
    <2>5. CASE k = a /\ ops[s[a]].kind \in Refs \cup DataRefs
      <3>1. Len(y) \in Nat /\ st[a] + Len(y) = st[a + 1] /\ Block(y, s[a], 0, Len(y))
        BY <1>8, <1>9, <2>5
      <3>2. ASSUME NEW x \in st[a] + 1 .. st[a] + Len(y) PROVE e[x] = y[x - st[a]]
        <4>1. x \in 1 .. Len(c)
          BY <1>7, <2>3, <2>5, <3>1, <3>2
        <4> QED
          BY <1>10, <2>5, <3>2, <4>1
      <3>3. Block(e, s[a], st[a], st[a + 1])
        BY <2>2, <2>3, <2>5, <3>1, <3>2, BlockPlaced
      <3>4. Size(s[a])' = Size(s[a]) /\ LastCell(s[a])' = LastCell(s[a])
        BY <1>1 DEF Size, LastCell
      <3>5. Block(buf.cells, s[a], st[a], st[a + 1])'
        BY <1>1, <3>3, <3>4 DEF Block
      <3>6. Noted(s[a], st[a], st[a + 1])'
        BY <1>1, <2>1, <2>5, <3>4 DEF LaidOut, Noted
      <3> QED
        BY <1>1, <1>8, <2>5, <3>5, <3>6 DEF LaidOut
    <2> QED
      BY <2>4, <2>5
  <1>15. ASSUME NEW k \in 1 .. n, Size(s[k]) # 0, ~(k = a /\ ops[s[a]].kind \in Refs \cup DataRefs)
         PROVE  e[st[k + 1]].d = c[st[k + 1]].d
    <2>1. st[k] <= st[k + 1] - Size(s[k]) /\ st[k] \in Nat /\ st[k + 1] \in Nat /\ Size(s[k]) \in Nat
      BY <1>5, <1>7 DEF Block
    <2>2. st[k + 1] \in st[k] + 1 .. st[k + 1]
      BY <1>15, <2>1
    <2> QED
      BY <1>11, <1>15, <2>2
  <1>16. \A k, q \in 1 .. n : Linked(s[k], s[q], st[k + 1], st[q], st[q + 1])'
    <2> SUFFICES ASSUME NEW k \in 1 .. n, NEW q \in 1 .. n
                 PROVE  Linked(s[k], s[q], st[k + 1], st[q], st[q + 1])'
      OBVIOUS
    <2>1. Linked(s[k], s[q], st[k + 1], st[q], st[q + 1])
      BY <1>3, <1>5 DEF Layout
    <2>2. ASSUME ops[s[k]].kind \in Jumps \cup {"TRANSFER_CPY"} PROVE e[st[k + 1]].d = c[st[k + 1]].d
      <3>1. ops[s[k]] \in Op
        BY <1>5
      <3>2. Size(s[k]) # 0
        BY <2>2, <3>1 DEF Size, Jumps, Op
      <3>3. ops[s[k]].kind \notin Refs \cup DataRefs
        BY <2>2 DEF Jumps, Refs, DataRefs
      <3> QED
        BY <1>15, <3>2, <3>3
    <2> QED
      BY <1>1, <2>1, <2>2 DEF Linked, Used, MadeJump
  <1>17. Layout(s, n, st, n + 1)'
    <2>1. Measured(n, st, n + 1)'
      BY <1>3, <1>10 DEF Layout, Measured
    <2> QED
      BY <1>5, <1>13, <1>16, <2>1 DEF Layout
  <1>18. Addressed(s, n, st, a + 1)'
    <2> SUFFICES ASSUME NEW k \in 1 .. a, NEW q \in 1 .. n,
                        ops[s[k]].kind \in Refs \cup DataRefs, Used(s[k]), s[q] = ops[s[k]].jmp_addr
                 PROVE  e[st[k + 1]].d = buf'.base + st[q]
      <3>1. (a + 1) - 1 = a
        BY <1>5
      <3> QED
        BY <1>1, <3>1 DEF Addressed, Used, MadeJump
    <2>0. k \in 1 .. n
      BY <1>5
    <2>1. CASE k = a
      <3>1. AddressOf(s[a]) = buf.base + st[q]
        BY <1>3, <1>4, <1>5, <2>1, AddressRight
      <3>2. Len(y) \in Nat \ {0} /\ st[a] + Len(y) = st[a + 1] /\ st[a] \in Nat /\ st[a + 1] \in Nat
            /\ st[a + 1] <= Len(c)
        BY <1>5, <1>7, <1>8, <1>9, <2>1
      <3>3. /\ st[a + 1] \in 1 .. Len(c) /\ st[a + 1] \in st[a] + 1 .. st[a] + Len(y)
            /\ st[a + 1] - st[a] = Len(y)
        BY <1>7, <3>2
      <3>4. e[st[a + 1]] = y[Len(y)]
        BY <1>10, <2>1, <3>3
      <3> QED
        BY <1>3, <1>9, <1>10, <2>1, <3>1, <3>4
    <2>2. CASE k # a
      <3>1. k \in 1 .. a - 1
        BY <1>5, <2>2
      <3>2. c[st[k + 1]].d = buf.base + st[q]
        BY <1>3, <3>1 DEF Addressed
      <3>3. ops[s[k]] \in Op
        BY <1>5, <2>0
      <3>4. Size(s[k]) # 0
        BY <3>3 DEF Size, Refs, DataRefs, Op
      <3> QED
        BY <1>10, <1>15, <2>0, <2>2, <3>2, <3>4
    <2> QED
      BY <2>1, <2>2
  <1>19. cur' = IF a + 1 <= n THEN s[a + 1] ELSE 0
    BY <1>1, <1>3, <1>5, AfterNext
  <1>20. a + 1 \in 1 .. n + 1 /\ Path(s, n, alive, next, prev)' /\ Ordered(s, n)'
    BY <1>1, <1>3, <1>5 DEF Ordered
  <1>21. Addressing(n, s, st, a + 1)'
    BY <1>17, <1>18, <1>19, <1>20 DEF Addressing
  <1>22. buf'.base \in Pages
    BY <1>1, <1>10 DEF LayoutInv
  <1> QED
    BY <1>1, <1>21, <1>22 DEF LayoutInv

LEMMA LayoutStep ==
    ASSUME MemoryAligned, ListIInv, KeptInv, LayoutInv, [Next]_vars, LoopStays
    PROVE  LayoutInv' \/ Init'
  <1>1. CASE FreeAndInit
    BY <1>1, FreeStep DEF ListIInv
  <1>2. CASE UNCHANGED vars
    <2>1. UNCHANGED <<pass, cur, ops, next, prev, alive, source, buf>>
      BY <1>2 DEF vars
    <2>2. \A s, n, st, m : Layout(s, n, st, m) => Layout(s, n, st, m)'
      BY <2>1, LayoutStays
    <2>3. \A s, n, st, m : Writing(n, s, st, m) => Writing(n, s, st, m)'
      BY <2>1, <2>2 DEF Writing, Ordered, OpenLoops, Used, MadeJump
    <2>4. \A s, n, st, m : Addressing(n, s, st, m) => Addressing(n, s, st, m)'
      BY <2>1, <2>2 DEF Addressing, Addressed, Ordered, Used, MadeJump
    <2> QED
      BY <2>1, <2>3, <2>4 DEF LayoutInv
  <1>3. CASE \/ AddOp \/ ExpandPatchesAndLabels \/ PrepareSpill \/ NoSpill
             \/ MarkLiveCode \/ DeleteOp \/ KeepOp \/ Swept \/ AdjustBranch \/ LeaveBranch
             \/ AssignFunctions
    <2>1. pass' \notin {"room", "emit", "addresses"}
      BY <1>3 DEF AddOp, ExpandPatchesAndLabels, PrepareSpill, NoSpill, MarkLiveCode, DeleteOp, KeepOp,
                  Swept, AdjustBranch, LeaveBranch, AssignFunctions, Goto
    <2> QED
      BY <2>1 DEF LayoutInv
  <1> QED
    BY <1>1, <1>2, <1>3, StartLaid, EmitLaid, MovedLaid, MoveLaid, AddressLaid DEF Next

(* What is reached occupies cells, and what it leads to is reached.        *)
LEMMA ReachedIsClosed ==
    ASSUME source \in Programs
    PROVE  /\ Reached(source) \subseteq Sized(source)
           /\ \A i \in DOMAIN source : source[i].kind = "PROLOG" => i \in Reached(source)
           /\ \A i \in Reached(source) :
                FallsThrough(source, i) => FirstFrom(source, i + 1) \in Reached(source)
           /\ \A i \in Reached(source) :
                source[i].kind \in Refers /\ FirstFrom(source, source[i].to) \in Sized(source) =>
                  FirstFrom(source, source[i].to) \in Reached(source)
  <1> DEFINE N == Len(source)
             X == Sized(source)
             T == SUBSET X
             Roots == {i \in DOMAIN source : source[i].kind = "PROLOG"}
                        \cup {FirstFrom(source, source[i].to) :
                                i \in {k \in DOMAIN source : source[k].kind = "DATA_REF_CODE"}}
             Onward(S) == {FirstFrom(source, i + 1) : i \in {k \in S : FallsThrough(source, k)}}
                            \cup {FirstFrom(source, source[i].to) :
                                    i \in {k \in S : source[k].kind \in Refers}}
             Defined(w) == w = [k \in 0 .. N |->
                 IF k = 0 THEN Roots \cap X ELSE w[k - 1] \cup (Onward(w[k - 1]) \cap X)]
             steps == CHOOSE w : Defined(w)
             step == [S \in T |-> S \cup (Onward(S) \cap X)]
  <1>0. N \in Nat /\ DOMAIN source = 1 .. N /\ X \subseteq 1 .. N
    BY ProgramFacts DEF Sized
  <1>1. Roots \cap X \in T /\ \A S \in T : Onward(S) \cap X \in T
    OBVIOUS
  <1>2. IsFiniteSet(X) /\ Cardinality(X) <= N
    <2>1. 1 \in Int /\ N \in Int
      BY <1>0
    <2>2. IsFiniteSet(1 .. N) /\ Cardinality(1 .. N) = N
      <3>1. Cardinality(1 .. N) = IF 1 > N THEN 0 ELSE N - 1 + 1
        BY <2>1, FS_Interval
      <3>2. IsFiniteSet(1 .. N)
        BY <2>1, FS_Interval
      <3> QED
        BY <1>0, <3>1, <3>2
    <2> HIDE DEF X, N
    <2>3. X \in SUBSET (1 .. N)
      BY <1>0
    <2>4. PICK I : I = 1 .. N
      OBVIOUS
    <2>5. IsFiniteSet(X) /\ Cardinality(X) <= Cardinality(I)
      BY <2>2, <2>3, <2>4, FS_Subset
    <2> QED
      BY <2>2, <2>4, <2>5
  <1> HIDE DEF Roots, Onward, X
  <1>4. step \in [T -> T] /\ \A S \in T : step[S] = S \cup (Onward(S) \cap X)
    BY <1>1
  <1>5. PICK w \in [0 .. N -> T] : IsWalk(w, N, Roots \cap X, step)
    <2> HIDE DEF step, T, N
    <2> QED
      BY <1>0, <1>1, <1>4, WalkExists
  <1>6. \E v : Defined(v)
    <2>1. ASSUME NEW k \in 0 .. N
          PROVE  (IF k = 0 THEN Roots \cap X ELSE step[w[k - 1]]) =
                 (IF k = 0 THEN Roots \cap X ELSE w[k - 1] \cup (Onward(w[k - 1]) \cap X))
      BY <1>0, <1>4
    <2>2. Defined(w)
      BY <1>5, <2>1, Zenon DEF IsWalk
    <2> HIDE DEF Defined
    <2> QED
      BY <2>2
  <1>7. Defined(steps)
    <2> HIDE DEF Defined
    <2> QED
      BY <1>6
  <1>8. Reached(source) = steps[N]
    BY DEF Reached, Roots, Onward, X
  <1> HIDE DEF steps
  <1>9. steps[0] = Roots \cap X
    BY <1>0, <1>7
  <1>10. ASSUME NEW k \in 1 .. N PROVE steps[k] = steps[k - 1] \cup (Onward(steps[k - 1]) \cap X)
    <2>1. k \in 0 .. N /\ k # 0
      BY <1>0
    <2> QED
      BY <1>7, <2>1, Zenon
  <1> DEFINE S == {k \in 0 .. N : steps[k] \in T /\ Roots \cap X \subseteq steps[k]}
  <1>11. \A k \in 0 .. N : steps[k] \in T /\ Roots \cap X \subseteq steps[k]
    <2>1. 0 \in S
      BY <1>0, <1>1, <1>9
    <2>2. ASSUME NEW k \in 0 .. N - 1, k \in S PROVE k + 1 \in S
      <3>1. steps[k + 1] = steps[k] \cup (Onward(steps[k]) \cap X)
        BY <1>0, <1>10
      <3> QED
        BY <1>0, <1>1, <2>2, <3>1
    <2>3. 0 .. N \subseteq S
      <3> HIDE DEF S, N
      <3> QED
        BY <1>0, <2>1, <2>2, InductionTo
    <2> QED
      BY <2>3
  <1> DEFINE C == [k \in 0 .. N + 1 |-> IF k = 0 THEN Roots \cap X ELSE
                                        steps[k - 1] \cup (Onward(steps[k - 1]) \cap X)]
  <1>a. \A k \in 0 .. N + 1 :
            C[k] = IF k = 0 THEN Roots \cap X ELSE steps[k - 1] \cup (Onward(steps[k - 1]) \cap X)
    BY Zenon
  <1> HIDE DEF C, N
  <1>12. ASSUME NEW k \in 0 .. N PROVE C[k] = steps[k]
    <2>1. k \in 0 .. N + 1
      BY <1>0
    <2>2. CASE k = 0
      BY <1>a, <1>9, <2>1, <2>2
    <2>3. CASE k # 0
      <3>1. k \in 1 .. N
        BY <1>0, <2>3
      <3> QED
        BY <1>a, <1>10, <2>1, <2>3, <3>1
    <2> QED
      BY <2>2, <2>3
  <1>13. ASSUME NEW k \in 0 .. N PROVE C[k + 1] = C[k] \cup (Onward(C[k]) \cap X)
    <2>1. k + 1 \in 0 .. N + 1 /\ k + 1 # 0 /\ (k + 1) - 1 = k
      BY <1>0
    <2>2. C[k + 1] = steps[k] \cup (Onward(steps[k]) \cap X)
      BY <1>a, <2>1
    <2> QED
      BY <1>12, <2>2
  <1>14. \A k \in 0 .. N + 1 : C[k] \subseteq X
    <2>1. ASSUME NEW k \in 0 .. N + 1 PROVE C[k] \subseteq X
      <3>1. CASE k = N + 1
        <4>1. N \in 0 .. N /\ N + 1 # 0 /\ (N + 1) - 1 = N
          BY <1>0
        <4>2. C[k] = steps[N] \cup (Onward(steps[N]) \cap X)
          BY <1>a, <3>1, <4>1
        <4>3. steps[N] \in T
          BY <1>11, <4>1
        <4> QED
          BY <4>2, <4>3
      <3>2. CASE k # N + 1
        BY <1>0, <1>11, <1>12, <3>2
      <3> QED
        BY <3>1, <3>2
    <2> QED
      BY <2>1
  <1>15. C[N] = C[N + 1]
    <2>1. \A k \in 0 .. N : C[k] \subseteq C[k + 1]
      BY <1>13
    <2>2. \A k \in 0 .. N - 1 : C[k] = C[k + 1] => C[k + 1] = C[k + 2]
      <3>1. ASSUME NEW k \in 0 .. N - 1, C[k] = C[k + 1] PROVE C[k + 1] = C[k + 2]
        <4>1. k \in 0 .. N /\ k + 1 \in 0 .. N /\ (k + 1) + 1 = k + 2
          BY <1>0
        <4>2. C[k + 1] = C[k] \cup (Onward(C[k]) \cap X)
          BY <1>13, <4>1
        <4>3. C[k + 2] = C[k + 1] \cup (Onward(C[k + 1]) \cap X)
          BY <1>13, <4>1
        <4> QED
          BY <3>1, <4>2, <4>3
      <3> QED
        BY <3>1
    <2> QED
      BY <1>0, <1>2, <1>14, <2>1, <2>2, ChainSettles
  <1>16. /\ Reached(source) \subseteq X /\ Roots \cap X \subseteq Reached(source)
         /\ Onward(Reached(source)) \cap X \subseteq Reached(source)
    <2>1. N \in 0 .. N
      BY <1>0
    <2>2. steps[N] = steps[N] \cup (Onward(steps[N]) \cap X)
      BY <1>12, <1>13, <1>15, <2>1
    <2> QED
      BY <1>8, <1>11, <2>1, <2>2
  <1>17. \A i \in DOMAIN source : source[i].kind = "PROLOG" => i \in Roots \cap X
    BY DEF Roots, X, Sized
  <1>18. \A i \in Reached(source) : FallsThrough(source, i) =>
            FirstFrom(source, i + 1) \in Onward(Reached(source)) \cap X
    BY DEF Onward, FallsThrough, X
  <1>19. \A i \in Reached(source) : source[i].kind \in Refers =>
            FirstFrom(source, source[i].to) \in Onward(Reached(source))
    BY DEF Onward
  <1> QED
    BY <1>16, <1>17, <1>18, <1>19 DEF X

-----------------------------------------------------------------------------
(* Where control lands.                                                    *)

(* One step over what is not the program's: along a jump, or on.           *)
Onto(c, b) ==
    IF b \notin DOMAIN c \/ c[b].of # 0 THEN b
    ELSE IF c[b].dest # 0 THEN c[b].dest ELSE b + 1

LEMMA LandsIs ==
    ASSUME NEW c, NEW N \in Nat, Cardinality(DOMAIN c) = N, NEW a, NEW f, f[0] = a,
           \A n \in 1 .. N : f[n] = Onto(c, f[n - 1])
    PROVE  Promise!Lands(c, a) = f[N]
  <1> DEFINE M == Cardinality(DOMAIN c)
             Found(w) == w = [n \in 0 .. M |-> IF n = 0 THEN a ELSE Onto(c, w[n - 1])]
             Defined(w) == w = [n \in 0 .. N |-> IF n = 0 THEN a ELSE Onto(c, w[n - 1])]
             walk == CHOOSE w : Found(w)
             h == [n \in 0 .. N |-> f[n]]
  <1>1. Promise!Lands(c, a) = walk[N]
    <2>1. Promise!Lands(c, a) = walk[M]
      BY DEF Promise!Lands, Promise!Cardinality, Cardinality, Onto
    <2> QED
      BY <2>1
  <1>2. Defined(h)
    <2>1. \A n \in 0 .. N : f[n] = IF n = 0 THEN a ELSE Onto(c, h[n - 1])
      <3> SUFFICES ASSUME NEW n \in 0 .. N PROVE f[n] = IF n = 0 THEN a ELSE Onto(c, h[n - 1])
        OBVIOUS
      <3>1. CASE n = 0
        BY <3>1
      <3>2. CASE n # 0
        <4>1. n \in 1 .. N /\ n - 1 \in 0 .. N
          BY <3>2
        <4>2. h[n - 1] = f[n - 1]
          BY <4>1
        <4> QED
          BY <3>2, <4>1, <4>2
      <3> QED
        BY <3>1, <3>2
    <2> DEFINE g == [n \in 0 .. N |-> IF n = 0 THEN a ELSE Onto(c, h[n - 1])]
    <2>2. h = g
      BY <2>1
    <2> QED
      BY <2>2
  <1>3. Defined(walk)
    <2>1. \A w : Found(w) <=> Defined(w)
      OBVIOUS
    <2>2. Found(h)
      BY <1>2, <2>1
    <2>3. Found(walk)
      <3> HIDE DEF Found
      <3> QED
        BY <2>2
    <2> QED
      BY <2>1, <2>3
  <1> HIDE DEF walk
  <1>4. walk[0] = a /\ \A n \in 1 .. N : walk[n] = Onto(c, walk[n - 1])
    <2>1. 0 \in 0 .. N /\ \A n \in 1 .. N : n \in 0 .. N /\ n # 0
      OBVIOUS
    <2> QED
      BY <1>3, <2>1, Zenon
  <1> DEFINE S == {n \in 0 .. N : walk[n] = f[n]}
  <1>5. 0 \in S
    BY <1>4
  <1>6. ASSUME NEW n \in 0 .. N - 1, n \in S PROVE n + 1 \in S
    <2>1. n + 1 \in 1 .. N /\ (n + 1) - 1 = n /\ n + 1 \in 0 .. N
      OBVIOUS
    <2> QED
      BY <1>4, <1>6, <2>1
  <1>7. 0 .. N \subseteq S
    <2> HIDE DEF S
    <2> QED
      BY <1>5, <1>6, InductionTo
  <1> QED
    BY <1>1, <1>7

(* From a, nothing of the program's and no jump stands before x.           *)
Glides(c, a, x) ==
    /\ a \in Int /\ x \in Int /\ a <= x
    /\ \A b \in a .. x - 1 : b \in DOMAIN c /\ c[b].of = 0 /\ c[b].dest = 0

LEMMA LandsAhead ==
    ASSUME NEW c, NEW from \in Int, NEW to \in Int, DOMAIN c = from .. to,
           NEW a, NEW x, Glides(c, a, x), from <= a, x \in DOMAIN c, c[x].of # 0
    PROVE  Promise!Lands(c, a) = x
  <1>1. a \in Int /\ x \in Int /\ a <= x /\ from <= to /\ x <= to
    BY DEF Glides
  <1> DEFINE N == to - from + 1
             f == [n \in 0 .. N |-> IF a + n <= x THEN a + n ELSE x]
  <1>2. N \in Nat /\ Cardinality(DOMAIN c) = N
    <2>1. Cardinality(from .. to) = IF from > to THEN 0 ELSE to - from + 1
      BY FS_Interval
    <2> QED
      BY <1>1, <2>1
  <1>3. f[0] = a /\ f[N] = x
    BY <1>1, <1>2
  <1>4. ASSUME NEW n \in 1 .. N PROVE f[n] = Onto(c, f[n - 1])
    <2>1. n \in 0 .. N /\ n - 1 \in 0 .. N
      BY <1>2
    <2>2. CASE a + n <= x
      <3>0. a + (n - 1) <= x /\ a + (n - 1) \in a .. x - 1 /\ a + (n - 1) + 1 = a + n
        BY <1>1, <2>2
      <3>1. f[n] = a + n /\ f[n - 1] = a + (n - 1)
        BY <2>1, <2>2, <3>0
      <3>2. Onto(c, a + (n - 1)) = a + (n - 1) + 1
        BY <3>0 DEF Glides, Onto
      <3> QED
        BY <3>0, <3>1, <3>2
    <2>3. CASE ~(a + n <= x)
      <3>1. f[n] = x /\ f[n - 1] = x
        BY <1>1, <2>1, <2>3
      <3> QED
        BY <3>1 DEF Onto
    <2> QED
      BY <2>2, <2>3
  <1> HIDE DEF f, N
  <1> QED
    BY <1>2, <1>3, <1>4, LandsIs

(* As before, but for one jump at y, which leads to z.                     *)
LEMMA LandsAround ==
    ASSUME NEW c, NEW from \in Int, NEW to \in Int, DOMAIN c = from .. to,
           NEW a, NEW y, Glides(c, a, y), from <= a, y \in DOMAIN c, c[y].of = 0,
           NEW z, c[y].dest = z, z # 0,
           NEW x, Glides(c, z, x), from <= z, x \in DOMAIN c, c[x].of # 0
    PROVE  Promise!Lands(c, a) = x
  <1>1. /\ a \in Int /\ x \in Int /\ y \in Int /\ z \in Int /\ a <= y /\ z <= x
        /\ x <= to /\ y <= to /\ from <= x /\ from <= y
    BY DEF Glides
  <1> DEFINE N == to - from + 1
             l == y - a + 1
             f == [n \in 0 .. N |-> IF n < l THEN a + n
                                    ELSE IF z + (n - l) <= x THEN z + (n - l) ELSE x]
  <1>2. N \in Nat /\ Cardinality(DOMAIN c) = N
    <2>1. Cardinality(from .. to) = IF from > to THEN 0 ELSE to - from + 1
      BY FS_Interval
    <2> QED
      BY <1>1, <2>1
  <1>3. l + (x - z) <= N /\ l \in Nat /\ l >= 1
    <2>1. CASE z > y
      BY <1>1, <2>1
    <2>2. CASE z <= y
      <3>1. x <= y
        <4> SUFFICES ASSUME y < x PROVE FALSE
          BY <1>1
        <4>1. y \in z .. x - 1
          BY <1>1, <2>2
        <4> QED
          BY <4>1 DEF Glides
      <3>2. x < a
        <4> SUFFICES ASSUME a <= x PROVE FALSE
          BY <1>1
        <4>1. x = y \/ x \in a .. y - 1
          BY <1>1, <3>1
        <4> QED
          BY <4>1 DEF Glides
      <3> QED
        BY <1>1, <2>2, <3>2
    <2> QED
      BY <1>1, <2>1, <2>2
  <1>4. f[0] = a /\ f[N] = x
    <2> HIDE DEF l, N
    <2>1. 0 \in 0 .. N /\ N \in 0 .. N /\ 0 < l /\ ~(N < l) /\ z + (N - l) >= x
      BY <1>1, <1>2, <1>3
    <2>2. f[0] = a + 0
      BY <2>1
    <2>3. f[N] = x
      <3>1. l \in Int /\ N \in Int
        BY <1>2, <1>3
      <3> QED
        BY <1>1, <2>1, <3>1
    <2> QED
      BY <1>1, <2>2, <2>3
  <1>5. ASSUME NEW n \in 1 .. N PROVE f[n] = Onto(c, f[n - 1])
    <2>1. n \in 0 .. N /\ n - 1 \in 0 .. N /\ n \in Int
      BY <1>2
    <2>2. CASE n < l
      <3>1. f[n] = a + n /\ f[n - 1] = a + (n - 1) /\ a + (n - 1) \in a .. y - 1
        BY <1>1, <2>1, <2>2
      <3>2. Onto(c, a + (n - 1)) = a + (n - 1) + 1
        BY <3>1 DEF Glides, Onto
      <3> QED
        BY <1>1, <3>1, <3>2
    <2>3. CASE n = l
      <3>1. f[n] = z
        BY <1>1, <2>1, <2>3
      <3>2. f[n - 1] = y
        BY <1>1, <2>1, <2>3
      <3> QED
        BY <3>1, <3>2 DEF Onto
    <2>4. CASE n > l /\ z + (n - l) <= x
      <3>1. f[n] = z + (n - l) /\ f[n - 1] = z + (n - l - 1) /\ z + (n - l - 1) \in z .. x - 1
        BY <1>1, <2>1, <2>4
      <3>2. Onto(c, z + (n - l - 1)) = z + (n - l - 1) + 1
        BY <3>1 DEF Glides, Onto
      <3>3. z \in Int /\ l \in Int /\ n \in Int
        BY <1>1, <1>3, <2>1
      <3>4. z + (n - l - 1) + 1 = z + (n - l)
        BY <3>3
      <3> QED
        BY <3>1, <3>2, <3>4
    <2>5. CASE n > l /\ ~(z + (n - l) <= x)
      <3>1. f[n] = x
        BY <1>1, <2>1, <2>5
      <3>2. f[n - 1] = x
        BY <1>1, <2>1, <2>5
      <3> QED
        BY <3>1, <3>2 DEF Onto
    <2>6. l \in Int /\ z + (n - l) \in Int
      BY <1>1, <1>3, <2>1
    <2> HIDE DEF l, f, N
    <2>7. n < l \/ n = l \/ n > l
      BY <2>1, <2>6
    <2> QED
      BY <2>2, <2>3, <2>4, <2>5, <2>7
  <1> HIDE DEF f, N
  <1> QED
    BY <1>2, <1>4, <1>5, LandsIs

(* Assembly speaks of the same programs.                                   *)
LEMMA SameReached ==
    ASSUME NEW p
    PROVE  Promise!Reached(p) = Reached(p)
  BY DEF Promise!Reached, Reached, Promise!Sized, Sized, Promise!FirstFrom, FirstFrom,
         Promise!FallsThrough, FallsThrough, Promise!Refers, Refers

LEMMA SameSized ==
    ASSUME NEW p
    PROVE  /\ Promise!Sized(p) = Sized(p)
           /\ \A i : Promise!FirstFrom(p, i) = FirstFrom(p, i)
           /\ \A i : Promise!FallsThrough(p, i) <=> FallsThrough(p, i)
  BY DEF Promise!Sized, Sized, Promise!FirstFrom, FirstFrom, Promise!FallsThrough, FallsThrough

-----------------------------------------------------------------------------
(* The code when it is finished.                                           *)

(* All code is written and all addresses are filled in.                    *)
Finished(s, n, st) ==
    /\ Listed(s, n)
    /\ Layout(s, n, st, n + 1)
    /\ Addressed(s, n, st, n + 1)
    /\ Present

(* The cells by their addresses, as Implements reads them.                 *)
Code == [a \in buf.base .. Ip - 1 |-> CellAt(a - buf.base + 1)]

LEMMA FinishedFacts ==
    ASSUME NEW s, NEW n, NEW st, Finished(s, n, st)
    PROVE  /\ n \in Nat /\ ops \in [Ids -> Op] /\ alive \subseteq Ids /\ source \in Programs
           /\ Path(s, n, alive, next, prev) /\ Ordered(s, n) /\ Buffer(buf)
           /\ buf.base \in Nat /\ Len(buf.cells) \in Nat
           /\ \A o \in alive : Core(o) /\ (Used(o) => ops[o].in_use)
           /\ \A k \in 1 .. n : s[k] \in alive /\ s[k] \in Ids /\ Size(s[k]) \in Nat
           /\ \A j, k \in 1 .. n : s[j] = s[k] => j = k
           /\ \A k \in 1 .. n : /\ k + 1 \in 1 .. n + 1 /\ st[k] \in Nat /\ st[k + 1] \in Nat
                                /\ st[k] <= st[k + 1] - Size(s[k]) /\ st[k + 1] <= Len(buf.cells)
                                /\ Block(buf.cells, s[k], st[k], st[k + 1])
                                /\ Noted(s[k], st[k], st[k + 1])
           /\ \A j, k \in 1 .. n : j < k => st[j + 1] <= st[k]
  <1>1. Listed(s, n) /\ Layout(s, n, st, n + 1)
    BY DEF Finished
  <1>2. n \in Nat
    BY <1>1, ListedFacts
  <1>3. n + 1 \in Nat /\ (n + 1) - 1 = n
    BY <1>2
  <1>4. /\ Len(buf.cells) \in Nat
        /\ \A k \in 1 .. n : /\ k + 1 \in 1 .. n + 1 /\ st[k] \in Nat /\ st[k + 1] \in Nat
                             /\ st[k + 1] <= Len(buf.cells) /\ Block(buf.cells, s[k], st[k], st[k + 1])
        /\ \A j, k \in 1 .. n : j < k => st[j + 1] <= st[k]
    BY <1>1, <1>2, <1>3, LayoutFacts
  <1>5. ASSUME NEW k \in 1 .. n PROVE st[k] <= st[k + 1] - Size(s[k]) /\ Noted(s[k], st[k], st[k + 1])
    <2>1. LaidOut(s[k], st[k], st[k + 1])
      BY <1>1, <1>3 DEF Layout
    <2> QED
      BY <2>1 DEF LaidOut, Block
  <1> QED
    BY <1>1, <1>2, <1>4, <1>5, ListedFacts DEF Buffer

LEMMA CodeAt ==
    ASSUME NEW s, NEW n, NEW st, Finished(s, n, st)
    PROVE  /\ DOMAIN Code = buf.base .. buf.base + Len(buf.cells) - 1
           /\ \A x \in 1 .. Len(buf.cells) :
                buf.base + x - 1 \in DOMAIN Code /\ Code[buf.base + x - 1] = CellAt(x)
  <1>1. buf.base \in Nat /\ Len(buf.cells) \in Nat
    BY FinishedFacts
  <1>2. \A x \in 1 .. Len(buf.cells) :
          buf.base + x - 1 \in buf.base .. Ip - 1 /\ (buf.base + x - 1) - buf.base + 1 = x
    BY <1>1 DEF Ip
  <1>3. PICK top : top = Ip - 1 /\ top = buf.base + Len(buf.cells) - 1
    BY <1>1 DEF Ip
  <1>4. Code = [a \in buf.base .. top |-> CellAt(a - buf.base + 1)]
    BY <1>3 DEF Code
  <1>5. DOMAIN Code = buf.base .. top
    BY <1>4
  <1>6. \A a \in buf.base .. top : Code[a] = CellAt(a - buf.base + 1)
    BY <1>4
  <1>7. ASSUME NEW x \in 1 .. Len(buf.cells) PROVE Code[buf.base + x - 1] = CellAt(x)
    <2>1. buf.base + x - 1 \in buf.base .. top /\ (buf.base + x - 1) - buf.base + 1 = x
      BY <1>2, <1>3
    <2> QED
      BY <1>6, <2>1
  <1> QED
    BY <1>2, <1>3, <1>5, <1>7

LEMMA BodyAt ==
    ASSUME NEW s, NEW n, NEW st, Finished(s, n, st), NEW k \in 1 .. n
    PROVE  /\ \A x \in st[k + 1] - Size(s[k]) + 1 .. st[k + 1] :
                x \in 1 .. Len(buf.cells) /\ Code[buf.base + x - 1].of = ops[s[k]].item
           /\ Size(s[k]) # 0 =>
                LET last == Code[buf.base + st[k + 1] - 1]
                    d == buf.cells[st[k + 1]].d
                IN /\ st[k + 1] \in 1 .. Len(buf.cells)
                   /\ last.turned <=> ops[s[k]].turned
                   /\ LastCell(s[k]) = "disp" => last.dest = buf.base + st[k + 1] + d
                   /\ LastCell(s[k]) = "addr" => last.dest = d
                   /\ LastCell(s[k]) = "code" => last.dest = 0
  <1>1. /\ buf.base \in Nat /\ Len(buf.cells) \in Nat /\ st[k] \in Nat /\ st[k + 1] \in Nat
        /\ Size(s[k]) \in Nat /\ st[k] <= st[k + 1] - Size(s[k]) /\ st[k + 1] <= Len(buf.cells)
        /\ Block(buf.cells, s[k], st[k], st[k + 1])
    BY FinishedFacts
  <1>2. ASSUME NEW x \in st[k + 1] - Size(s[k]) + 1 .. st[k + 1]
        PROVE  x \in 1 .. Len(buf.cells) /\ Code[buf.base + x - 1].of = ops[s[k]].item
    <2>1. x \in 1 .. Len(buf.cells)
      BY <1>1
    <2>2. buf.cells[x].of = ops[s[k]].item
      BY <1>1 DEF Block
    <2>3. CellAt(x).of = buf.cells[x].of
      BY DEF CellAt
    <2> QED
      BY <2>1, <2>2, <2>3, CodeAt
  <1>3. ASSUME Size(s[k]) # 0
        PROVE  LET last == Code[buf.base + st[k + 1] - 1]
                   d == buf.cells[st[k + 1]].d
               IN /\ st[k + 1] \in 1 .. Len(buf.cells)
                  /\ last.turned <=> ops[s[k]].turned
                  /\ LastCell(s[k]) = "disp" => last.dest = buf.base + st[k + 1] + d
                  /\ LastCell(s[k]) = "addr" => last.dest = d
                  /\ LastCell(s[k]) = "code" => last.dest = 0
    <2> DEFINE e == st[k + 1]
    <2>1. e \in 1 .. Len(buf.cells)
      BY <1>1, <1>3
    <2>2. Code[buf.base + e - 1] = CellAt(e)
      BY <2>1, CodeAt
    <2>3. buf.cells[e].c = LastCell(s[k]) /\ (buf.cells[e].turned <=> ops[s[k]].turned)
      BY <1>1, <1>3 DEF Block
    <2> HIDE DEF e
    <2>4. /\ CellAt(e).turned = buf.cells[e].turned
          /\ buf.cells[e].c = "disp" => CellAt(e).dest = buf.base + e + buf.cells[e].d
          /\ buf.cells[e].c = "addr" => CellAt(e).dest = buf.cells[e].d
          /\ buf.cells[e].c = "code" => CellAt(e).dest = 0
      BY DEF CellAt
    <2>5. /\ e \in 1 .. Len(buf.cells)
          /\ Code[buf.base + e - 1].turned <=> ops[s[k]].turned
          /\ LastCell(s[k]) = "disp" => Code[buf.base + e - 1].dest = buf.base + e + buf.cells[e].d
          /\ LastCell(s[k]) = "addr" => Code[buf.base + e - 1].dest = buf.cells[e].d
          /\ LastCell(s[k]) = "code" => Code[buf.base + e - 1].dest = 0
      BY <2>1, <2>2, <2>3, <2>4
    <2> QED
      BY <2>5 DEF e
  <1> QED
    BY <1>2, <1>3

(* The operations that write nothing, or nothing that does anything.       *)
Passable(o) == ops[o].kind \in {"CODESTART", "LABEL", "PATCH", "CODE_ALIGN", "FULL_SPILL"}

LEMMA GlideOver ==
    ASSUME NEW s, NEW n, NEW st, Finished(s, n, st), NEW r \in 1 .. n, NEW j \in 1 .. r,
           \A w \in j .. r - 1 : Passable(s[w]),
           Size(s[r]) # 0, ops[s[r]].item # 0
    PROVE  LET x == buf.base + st[r + 1] - Size(s[r])
           IN /\ Glides(Code, buf.base + st[j], x)
              /\ buf.base <= buf.base + st[j] /\ x \in DOMAIN Code /\ Code[x].of # 0
  <1>1. /\ n \in Nat /\ buf.base \in Nat /\ Len(buf.cells) \in Nat
        /\ \A k \in 1 .. n : /\ k + 1 \in 1 .. n + 1 /\ st[k] \in Nat /\ st[k + 1] \in Nat
                             /\ st[k] <= st[k + 1] - Size(s[k]) /\ st[k + 1] <= Len(buf.cells)
                             /\ Block(buf.cells, s[k], st[k], st[k + 1])
                             /\ Size(s[k]) \in Nat /\ s[k] \in alive
        /\ \A k, l \in 1 .. n : k < l => st[k + 1] <= st[l]
        /\ \A o \in alive : Core(o)
    BY FinishedFacts
  <1>2. j \in 1 .. n /\ r \in Nat /\ j \in Nat
    BY <1>1
  <1>2a. /\ st[j] \in Nat /\ st[r] \in Nat /\ st[r + 1] \in Nat /\ Size(s[r]) \in Nat
         /\ st[r] <= st[r + 1] - Size(s[r]) /\ st[r + 1] <= Len(buf.cells)
         /\ Len(buf.cells) \in Nat
    BY <1>1, <1>2
  <1>3. PICK end : end = st[r + 1] - Size(s[r])
    OBVIOUS
  <1>4. /\ end \in Nat /\ end < st[r + 1] /\ end < Len(buf.cells) /\ st[r] <= end
        /\ end + 1 \in st[r + 1] - Size(s[r]) + 1 .. st[r + 1]
    <2>1. Size(s[r]) # 0
      OBVIOUS
    <2>2. /\ end \in Nat /\ end < st[r + 1] /\ st[r] <= end
      BY <1>2a, <1>3, <2>1
    <2>3. end < Len(buf.cells)
      BY <1>2a, <2>2
    <2>4. end + 1 \in st[r + 1] - Size(s[r]) + 1 .. st[r + 1]
      BY <1>2a, <1>3, <2>2
    <2> QED
      BY <2>2, <2>3, <2>4
  <1>5. st[j] <= end /\ st[j] \in Nat
    <2>0. st[j] \in Nat
      BY <1>2a
    <2>1. CASE j = r
      <3>1. st[j] <= end
        BY <1>4, <2>1
      <3> QED
        BY <2>0, <3>1
    <2>2. CASE j < r
      <3>1. st[j + 1] <= st[r] /\ st[j + 1] \in Nat
        BY <1>1, <1>2, <2>2
      <3>2. st[j] <= st[j + 1] - Size(s[j]) /\ Size(s[j]) \in Nat
        BY <1>1, <1>2
      <3>3. st[r] \in Nat
        BY <1>2a
      <3>4. st[j] <= st[j + 1]
        BY <2>0, <3>1, <3>2
      <3>5. st[j] <= st[r]
        BY <2>0, <3>1, <3>3, <3>4
      <3>6. st[j] <= end
        BY <1>4, <2>0, <3>3, <3>5
      <3> QED
        BY <2>0, <3>6
    <2> QED
      BY <1>2, <2>1, <2>2
  <1>6. ASSUME NEW x \in st[j] + 1 .. end
        PROVE  x \in 1 .. Len(buf.cells) /\ buf.cells[x].of = 0 /\ buf.cells[x].c \in {"code", "jump"}
    <2>1. x \in 1 .. Len(buf.cells) /\ x \in Nat
      BY <1>2a, <1>4, <1>5
    <2>2. PICK k \in 1 .. n : x \in st[k] + 1 .. st[k + 1]
      <3>1. Layout(s, n, st, n + 1) /\ (n + 1) - 1 = n
        BY <1>1 DEF Finished
      <3> QED
        BY <1>1, <2>1, <3>1, EveryCell
    <2>3. ~(k < j)
      <3> SUFFICES ASSUME k < j PROVE FALSE
        OBVIOUS
      <3>1. st[k + 1] <= st[j] /\ st[k + 1] \in Nat
        BY <1>1, <1>2
      <3> QED
        BY <1>5, <2>1, <2>2, <3>1
    <2>4. ~(r < k)
      <3> SUFFICES ASSUME r < k PROVE FALSE
        OBVIOUS
      <3>1. st[r + 1] <= st[k] /\ st[k] \in Nat /\ st[r + 1] \in Nat
        BY <1>1
      <3>2. x <= end
        OBVIOUS
      <3> QED
        BY <1>4, <2>1, <2>2, <3>1, <3>2
    <2>5. k \in j .. r
      BY <1>2, <2>3, <2>4
    <2>6. /\ Size(s[k]) \in Nat /\ st[k] \in Nat /\ st[k + 1] \in Nat
          /\ \A y \in st[k] + 1 .. st[k + 1] - Size(s[k]) : buf.cells[y].of = 0 /\ buf.cells[y].c = "code"
          /\ \A y \in st[k + 1] - Size(s[k]) + 1 .. st[k + 1] : buf.cells[y].of = ops[s[k]].item
          /\ \A y \in st[k + 1] - Size(s[k]) + 1 .. st[k + 1] - 1 : buf.cells[y].c \in {"code", "jump"}
          /\ Size(s[k]) # 0 => buf.cells[st[k + 1]].c = LastCell(s[k])
      BY <1>1 DEF Block
    <2>7. CASE k = r
      <3>1. x \in st[k] + 1 .. st[k + 1] - Size(s[k])
        BY <1>3, <2>2, <2>7
      <3> QED
        BY <2>1, <2>6, <3>1
    <2>8. CASE k # r
      <3>1. Passable(s[k])
        BY <1>2, <2>5, <2>8
      <3>2. CASE x \in st[k] + 1 .. st[k + 1] - Size(s[k])
        BY <2>1, <2>6, <3>2
      <3>3. CASE x \notin st[k] + 1 .. st[k + 1] - Size(s[k])
        <4>1. x \in st[k + 1] - Size(s[k]) + 1 .. st[k + 1] /\ Size(s[k]) # 0
          BY <2>2, <2>6, <3>3
        <4>2. ops[s[k]].kind = "FULL_SPILL"
          BY <3>1, <4>1 DEF Passable, Size
        <4>3. ops[s[k]].item = 0
          <5>1. Stands(s[k]) /\ source \in Programs
            BY <1>1, FinishedFacts DEF Core
          <5>2. \A i \in DOMAIN source : source[i].kind # "FULL_SPILL"
            BY <5>1, ProgramFacts DEF Kinds
          <5> QED
            BY <4>2, <5>1, <5>2 DEF Stands
        <4>4. LastCell(s[k]) = "code"
          BY <4>2 DEF LastCell, Jumps, Refs, DataRefs
        <4>5. x = st[k + 1] \/ x \in st[k + 1] - Size(s[k]) + 1 .. st[k + 1] - 1
          BY <2>6, <4>1
        <4> QED
          BY <2>1, <2>6, <4>1, <4>3, <4>4, <4>5
      <3> QED
        BY <3>2, <3>3
    <2> QED
      BY <2>7, <2>8
  <1>7. ASSUME NEW b \in buf.base + st[j] .. buf.base + end - 1
        PROVE  b \in DOMAIN Code /\ Code[b].of = 0 /\ Code[b].dest = 0
    <2>1. PICK x, f, base : x = b - buf.base + 1 /\ f = st[j] /\ base = buf.base
      OBVIOUS
    <2>a. f \in Nat /\ base \in Nat /\ b \in base + f .. base + end - 1 /\ x = b - base + 1
      BY <1>1, <1>5, <2>1
    <2>b. x \in f + 1 .. end /\ b = base + x - 1
      <3>1. end \in Int /\ base + f <= b /\ b <= base + end - 1 /\ b \in Int
        BY <1>4, <2>a
      <3> QED
        BY <2>a, <3>1
    <2>2. x \in st[j] + 1 .. end /\ b = buf.base + x - 1
      BY <2>1, <2>b
    <2>3. x \in 1 .. Len(buf.cells) /\ buf.cells[x].of = 0 /\ buf.cells[x].c \in {"code", "jump"}
      BY <1>6, <2>2
    <2>4. CellAt(x).of = 0 /\ CellAt(x).dest = 0
      BY <2>3 DEF CellAt
    <2> QED
      BY <2>2, <2>3, <2>4, CodeAt
  <1>8. PICK place : place = buf.base + end
    OBVIOUS
  <1>9. Glides(Code, buf.base + st[j], place) /\ buf.base <= buf.base + st[j]
    <2>1. PICK f, base : f = st[j] /\ base = buf.base
      OBVIOUS
    <2>2. f \in Nat /\ base \in Nat /\ f <= end
      BY <1>1, <1>5, <2>1
    <2>3. base + f \in Int /\ place \in Int /\ base + f <= place /\ base <= base + f
      BY <1>4, <1>8, <2>1, <2>2
    <2>4. \A b \in base + f .. place - 1 : b \in DOMAIN Code /\ Code[b].of = 0 /\ Code[b].dest = 0
      <3>1. base + f = buf.base + st[j] /\ place - 1 = buf.base + end - 1
        <4>1. base + f = buf.base + st[j]
          BY <2>1
        <4>2. place - 1 = base + end - 1
          <5>1. place = base + end /\ end \in Nat /\ base \in Nat
            BY <1>4, <1>8, <2>1, <2>2
          <5> QED
            BY <5>1
        <4> QED
          BY <2>1, <4>1, <4>2
      <3>2. \A b \in buf.base + st[j] .. buf.base + end - 1 :
              b \in DOMAIN Code /\ Code[b].of = 0 /\ Code[b].dest = 0
        BY <1>7
      <3> QED
        BY <3>1, <3>2, Zenon
    <2> QED
      BY <2>1, <2>3, <2>4 DEF Glides
  <1>10. place \in DOMAIN Code /\ Code[place].of # 0
    <2>1. end + 1 \in 1 .. Len(buf.cells) /\ Code[buf.base + (end + 1) - 1].of = ops[s[r]].item
      BY <1>4, BodyAt
    <2>2. buf.base + (end + 1) - 1 = place
      BY <1>1, <1>4, <1>8
    <2>3. place \in DOMAIN Code
      BY <2>1, <2>2, CodeAt
    <2> QED
      BY <2>1, <2>2, <2>3
  <1>11. place = buf.base + st[r + 1] - Size(s[r])
    BY <1>1, <1>3, <1>8
  <1> QED
    BY <1>9, <1>10, <1>11

LEMMA OneOp ==
    ASSUME NEW s, NEW n \in Nat, Ordered(s, n), \A k \in 1 .. n : ops[s[k]].item \in Nat,
           NEW j \in 1 .. n, NEW k \in 1 .. n, ops[s[j]].item = ops[s[k]].item, ops[s[k]].item # 0
    PROVE  j = k
  <1>1. ~(j < k) /\ ~(k < j)
    BY DEF Ordered
  <1> QED
    BY <1>1

(* What is reached is in the list, at k.                                   *)
At(s, k, i) ==
    /\ ops[s[k]].item = i /\ ops[s[k]].kind = source[i].kind /\ ops[s[k]].n = source[i].n
    /\ Size(s[k]) = source[i].n /\ Size(s[k]) \in Nat \ {0}

LEMMA OpIsThere ==
    ASSUME NEW s, NEW n, NEW st, Finished(s, n, st), NEW i \in Reached(source)
    PROVE  /\ i \in DOMAIN source /\ i \in Nat \ {0} /\ i \in Sized(source)
           /\ \E k \in 1 .. n : At(s, k, i) /\ Used(s[k])
  <1>1. /\ source \in Programs /\ n \in Nat /\ Path(s, n, alive, next, prev)
        /\ \A o \in alive : Core(o)
    BY FinishedFacts
  <1>2. i \in Sized(source) /\ i \in DOMAIN source /\ i \in Nat \ {0}
    <2>1. i \in Sized(source)
      BY <1>1, ReachedIsClosed
    <2> QED
      BY <1>1, <2>1, ProgramFacts DEF Sized
  <1>3. PICK o \in alive : ops[o].item = i
    BY <1>2 DEF Finished, Present
  <1>4. PICK k \in 1 .. n : o = s[k]
    BY <1>1 DEF Path
  <1>5. ops[o].kind = source[i].kind /\ ops[o].n = source[i].n
    BY <1>1, <1>2, <1>3 DEF Core, Stands
  <1>6. Size(o) = source[i].n /\ source[i].n \in Nat \ {0}
    <2>1. source[i].kind \notin {"LABEL", "PATCH", "CODE_ALIGN"} /\ source[i].kind \in Kinds
          /\ source[i].n \in Nat \ {0}
      BY <1>1, <1>2, ProgramFacts DEF Sized
    <2>2. source[i].kind # "CODESTART"
      BY <2>1 DEF Kinds
    <2> QED
      BY <1>5, <2>1, <2>2 DEF Size
  <1> QED
    BY <1>2, <1>3, <1>4, <1>5, <1>6 DEF At, Used

(* y is the first after x to occupy cells.                                 *)
Follows(x, y) == y \in Sized(source) /\ x < y /\ \A z \in Sized(source) : x < z => y <= z

(* Between an operation and the next one that occupies cells there is      *)
(* nothing else, but for the jump behind a branch that was turned around.  *)
LEMMA Gap ==
    ASSUME NEW s, NEW n, NEW st, Finished(s, n, st), NEW k \in 1 .. n, NEW r \in 1 .. n,
           ops[s[k]].item # 0, Follows(ops[s[k]].item, ops[s[r]].item)
    PROVE  /\ k < r
           /\ \A w \in k + 1 .. r - 1 :
                Passable(s[w]) \/ (w = k + 1 /\ MadeJump(s[w]) /\ ops[s[k]].turned)
           /\ \A w \in k + 1 .. r - 1 : ops[s[w]].item # 0 =>
                ops[s[w]].item \in ops[s[k]].item + 1 .. ops[s[r]].item - 1
  <1> DEFINE x == ops[s[k]].item
             y == ops[s[r]].item
  <1>1. /\ n \in Nat /\ source \in Programs /\ Path(s, n, alive, next, prev) /\ Ordered(s, n)
        /\ \A o \in alive : Core(o)
        /\ \A w \in 1 .. n : s[w] \in alive /\ s[w] \in Ids /\ ops[s[w]].item \in Nat
    <2>1. ops \in [Ids -> Op] /\ \A w \in 1 .. n : s[w] \in alive /\ s[w] \in Ids
      BY FinishedFacts
    <2>2. \A w \in 1 .. n : ops[s[w]].item \in Nat
      BY <2>1 DEF Op
    <2> QED
      BY <2>1, <2>2, FinishedFacts
  <1>2. x \in Nat /\ y \in Nat /\ x + 1 \in Nat /\ y >= x + 1 /\ y # 0
    BY <1>1 DEF Follows
  <1>3. \A z \in Sized(source) : z >= x + 1 => y <= z
    <2>1. \A z \in Sized(source) : z \in Nat
      BY <1>1, ProgramFacts DEF Sized
    <2> QED
      BY <1>2, <2>1 DEF Follows
  <1>4. k < r
    <2>1. ~(r < k)
      <3> SUFFICES ASSUME r < k PROVE FALSE
        OBVIOUS
      <3>1. y < x
        BY <1>1, <1>2 DEF Ordered
      <3> QED
        BY <1>2, <3>1
    <2>2. r # k
      BY <1>2
    <2> QED
      BY <1>1, <2>1, <2>2
  <1>5. ASSUME NEW w \in k + 1 .. r - 1, ops[s[w]].item # 0
        PROVE  /\ ops[s[w]].item \in x + 1 .. y - 1
               /\ ops[s[w]].kind \in {"LABEL", "PATCH", "CODE_ALIGN"}
    <2>1. w \in 1 .. n /\ k < w /\ w < r
      BY <1>1, <1>4
    <2>2. x < ops[s[w]].item /\ ops[s[w]].item < y
      BY <1>1, <1>2, <1>5, <2>1 DEF Ordered
    <2>3. ops[s[w]].item \in x + 1 .. y - 1
      BY <1>1, <1>2, <2>1, <2>2
    <2>4. ops[s[w]].item \notin Sized(source)
      BY <1>2, <1>3, <2>3
    <2>5. ops[s[w]].item \in DOMAIN source /\ ops[s[w]].kind = source[ops[s[w]].item].kind
      BY <1>1, <1>5, <2>1 DEF Core, Stands
    <2> QED
      BY <2>3, <2>4, <2>5 DEF Sized
  <1>6. ASSUME NEW w \in k + 1 .. r - 1, ~Passable(s[w])
        PROVE  w = k + 1 /\ MadeJump(s[w]) /\ ops[s[k]].turned
    <2>1. w \in 1 .. n /\ k < w /\ w < r /\ w - 1 \in 1 .. n /\ w - 1 \in 1 .. n - 1 /\ (w - 1) + 1 = w
      BY <1>1, <1>4
    <2>2. ops[s[w]].item = 0
      BY <1>5, <1>6 DEF Passable
    <2>3. MadeJump(s[w])
      BY <1>1, <1>6, <2>1, <2>2 DEF Core, Stands, MadeJump, Passable
    <2>4. next[s[w - 1]] = s[w] /\ s[w] # 0
      <3>1. next[s[w - 1]] = s[(w - 1) + 1]
        BY <1>1, <2>1 DEF Path
      <3>2. s[w] \in Ids
        BY <1>1, <2>1
      <3> QED
        BY <2>1, <3>1, <3>2, StartFacts
    <2>5. ops[s[w - 1]].turned /\ ops[s[w - 1]].kind = "BRANCH" /\ ops[s[w - 1]].item # 0
      <3>1. TurnedRight(s[w - 1]) /\ Stands(s[w - 1])
        BY <1>1, <2>1 DEF Core
      <3>2. ops[s[w - 1]].turned /\ ops[s[w - 1]].kind = "BRANCH"
        BY <2>3, <2>4, <3>1 DEF TurnedRight
      <3> QED
        BY <3>1, <3>2 DEF Stands
    <2>6. w - 1 \notin k + 1 .. r - 1
      BY <1>5, <2>5
    <2>7. w = k + 1
      BY <2>1, <2>6
    <2>8. w - 1 = k
      BY <2>7
    <2> QED
      BY <2>3, <2>5, <2>7, <2>8
  <1> QED
    BY <1>4, <1>5, <1>6

(* What comes behind a branch that was turned around.                      *)
LEMMA Turned ==
    ASSUME NEW s, NEW n, NEW st, Finished(s, n, st), NEW k \in 1 .. n, ops[s[k]].turned
    PROVE  /\ k + 2 \in 1 .. n /\ k + 1 \in 1 .. n /\ ops[s[k]].kind = "BRANCH"
           /\ MadeJump(s[k + 1]) /\ s[k + 2] = ops[s[k]].jmp_addr /\ ops[s[k + 2]].kind = "PATCH"
           /\ next[s[k]] = s[k + 1]
  <1>1. /\ n \in Nat /\ Path(s, n, alive, next, prev)
        /\ \A o \in alive : Core(o)
        /\ \A w \in 1 .. n : s[w] \in alive /\ s[w] \in Ids
    BY FinishedFacts
  <1>2. /\ ops[s[k]].kind = "BRANCH"
        /\ next[s[k]] \in alive /\ MadeJump(next[s[k]])
        /\ next[next[s[k]]] = ops[s[k]].jmp_addr /\ ops[ops[s[k]].jmp_addr].kind = "PATCH"
    BY <1>1 DEF Core, TurnedRight
  <1>3. next[s[k]] # 0 /\ alive \subseteq Ids
    BY <1>2, StartFacts, FinishedFacts
  <1>4. k + 1 \in 1 .. n /\ next[s[k]] = s[k + 1]
    <2>1. next[s[k]] = IF k + 1 <= n THEN s[k + 1] ELSE 0
      BY <1>1, AfterNext
    <2> QED
      BY <1>1, <1>3, <2>1
  <1>5. ops[s[k]].jmp_addr \in alive
    <2>1. Wired(s[k])
      BY <1>1 DEF Core
    <2> QED
      BY <1>2, <2>1 DEF Wired, Refers
  <1>6. k + 2 \in 1 .. n /\ next[s[k + 1]] = s[k + 2]
    <2>1. next[s[k + 1]] = IF (k + 1) + 1 <= n THEN s[(k + 1) + 1] ELSE 0
      BY <1>1, <1>4, AfterNext
    <2>2. next[s[k + 1]] # 0 /\ (k + 1) + 1 = k + 2
      BY <1>2, <1>3, <1>4, <1>5, StartFacts
    <2> QED
      BY <1>1, <1>4, <2>1, <2>2
  <1> QED
    BY <1>2, <1>4, <1>6

LEMMA FirstFollows ==
    ASSUME source \in Programs, NEW x \in Nat, NEW y \in Sized(source),
           \/ y = FirstFrom(source, x + 1)
           \/ y = FirstFrom(source, x) /\ x \notin Sized(source)
    PROVE  Follows(x, y)
  <1>1. \A z \in Sized(source) : z \in Nat
    BY ProgramFacts DEF Sized
  <1>2. x + 1 \in Nat
    OBVIOUS
  <1>3. CASE y = FirstFrom(source, x + 1)
    <2>1. y >= x + 1 /\ \A z \in Sized(source) : z >= x + 1 => y <= z
      BY <1>2, <1>3, FirstFromFacts
    <2> QED
      BY <1>1, <2>1 DEF Follows
  <1>4. CASE y = FirstFrom(source, x) /\ x \notin Sized(source)
    <2>1. y >= x /\ \A z \in Sized(source) : z >= x => y <= z
      BY <1>4, FirstFromFacts
    <2> QED
      BY <1>1, <1>4, <2>1 DEF Follows
  <1> QED
    BY <1>3, <1>4

(* Where the last cell of an operation leads.                              *)
LEMMA DestOf ==
    ASSUME NEW s, NEW n, NEW st, Finished(s, n, st), NEW k \in 1 .. n, Used(s[k]),
           ops[s[k]].kind \in Refers, NEW q \in 1 .. n, s[q] = ops[s[k]].jmp_addr
    PROVE  Code[buf.base + st[k + 1] - 1].dest = buf.base + st[q]
  <1>1. /\ n \in Nat /\ buf.base \in Nat /\ st[k + 1] \in Nat /\ st[q] \in Nat /\ ops[s[k]] \in Op
        /\ Size(s[k]) \in Nat
    BY FinishedFacts
  <1>2. Size(s[k]) # 0
    BY <1>1 DEF Size, Op, Refers
  <1>3. (n + 1) - 1 = n
    BY <1>1
  <1>4. CASE ops[s[k]].kind \in Jumps
    <2>1. LastCell(s[k]) = "disp"
      BY <1>4 DEF LastCell
    <2>2. Code[buf.base + st[k + 1] - 1].dest = buf.base + st[k + 1] + buf.cells[st[k + 1]].d
      BY <1>2, <2>1, BodyAt
    <2>3. Linked(s[k], s[q], st[k + 1], st[q], st[q + 1])
      BY <1>3 DEF Finished, Layout
    <2>4. buf.cells[st[k + 1]].d = st[q] - st[k + 1]
      BY <1>4, <2>3 DEF Linked
    <2>5. \A a, e, f \in Int : a + e + (f - e) = a + f
      OBVIOUS
    <2> QED
      BY <1>1, <2>2, <2>4, <2>5
  <1>5. CASE ops[s[k]].kind \in Refs \cup DataRefs
    <2>1. LastCell(s[k]) = "addr"
      BY <1>5 DEF LastCell, Jumps, Refs, DataRefs
    <2>2. Code[buf.base + st[k + 1] - 1].dest = buf.cells[st[k + 1]].d
      BY <1>2, <2>1, BodyAt
    <2>3. buf.cells[st[k + 1]].d = buf.base + st[q]
      BY <1>3, <1>5 DEF Finished, Addressed
    <2> QED
      BY <2>2, <2>3
  <1> QED
    BY <1>4, <1>5 DEF Refers, Jumps, Refs, DataRefs

(* Control goes on to the next operation that occupies cells.              *)
LEMMA GoesOn ==
    ASSUME NEW s, NEW n, NEW st, Finished(s, n, st), NEW k \in 1 .. n, Used(s[k]),
           NEW i \in Nat \ {0}, At(s, k, i),
           NEW r \in 1 .. n, NEW y, At(s, r, y), Follows(i, y)
    PROVE  LET last == Code[buf.base + st[k + 1] - 1]
           IN Promise!Lands(Code, IF last.turned THEN last.dest ELSE buf.base + st[k + 1])
                = buf.base + st[r + 1] - Size(s[r])
  <1>1. /\ n \in Nat /\ buf.base \in Nat /\ Len(buf.cells) \in Nat /\ ops \in [Ids -> Op]
        /\ source \in Programs
    BY FinishedFacts
  <1>2. /\ Size(s[k]) # 0 /\ Size(s[r]) # 0 /\ ops[s[k]].item = i /\ ops[s[r]].item = y
        /\ ops[s[k]].item # 0
    BY DEF At
  <1>3. y \in Nat \ {0}
    BY <1>1, ProgramFacts DEF Follows, Sized
  <1>4. /\ k < r
        /\ \A w \in k + 1 .. r - 1 :
             Passable(s[w]) \/ (w = k + 1 /\ MadeJump(s[w]) /\ ops[s[k]].turned)
    BY <1>2, Gap
  <1>5. Code[buf.base + st[k + 1] - 1].turned <=> ops[s[k]].turned
    BY <1>2, BodyAt
  <1> DEFINE from == buf.base
             to == buf.base + Len(buf.cells) - 1
             x == buf.base + st[r + 1] - Size(s[r])
  <1>6. from \in Int /\ to \in Int /\ DOMAIN Code = from .. to
    BY <1>1, CodeAt
  <1>7. CASE ~ops[s[k]].turned
    <2>1. k + 1 \in 1 .. r /\ \A w \in k + 1 .. r - 1 : Passable(s[w])
      BY <1>1, <1>4, <1>7
    <2>2. /\ Glides(Code, buf.base + st[k + 1], x) /\ from <= buf.base + st[k + 1]
          /\ x \in DOMAIN Code /\ Code[x].of # 0
      BY <1>2, <1>3, <2>1, GlideOver
    <2> HIDE DEF from, to, x
    <2>3. Promise!Lands(Code, buf.base + st[k + 1]) = x
      BY <1>6, <2>2, LandsAhead
    <2> QED
      BY <1>5, <1>7, <2>3 DEF x
  <1>8. CASE ops[s[k]].turned
    <2>1. /\ k + 2 \in 1 .. n /\ k + 1 \in 1 .. n /\ ops[s[k]].kind = "BRANCH"
          /\ MadeJump(s[k + 1]) /\ s[k + 2] = ops[s[k]].jmp_addr /\ ops[s[k + 2]].kind = "PATCH"
      BY <1>8, Turned
    <2>2. Code[buf.base + st[k + 1] - 1].dest = buf.base + st[k + 2]
      BY <2>1, DestOf DEF Refers
    <2>3. r # k + 1 /\ r # k + 2
      <3>1. ops[s[r]].kind # "PATCH"
        BY DEF At, Follows, Sized
      <3> QED
        BY <1>2, <1>3, <2>1, <3>1 DEF MadeJump
    <2>4. k + 2 \in 1 .. r /\ \A w \in k + 2 .. r - 1 : w \in k + 1 .. r - 1 /\ w # k + 1
      BY <1>1, <1>4, <2>3
    <2>5. \A w \in k + 2 .. r - 1 : Passable(s[w])
      BY <1>4, <2>4
    <2>6. /\ Glides(Code, buf.base + st[k + 2], x) /\ from <= buf.base + st[k + 2]
          /\ x \in DOMAIN Code /\ Code[x].of # 0
      BY <1>2, <1>3, <2>4, <2>5, GlideOver
    <2> HIDE DEF from, to, x
    <2>7. Promise!Lands(Code, buf.base + st[k + 2]) = x
      BY <1>6, <2>6, LandsAhead
    <2> QED
      BY <1>5, <1>8, <2>2, <2>7 DEF x
  <1> QED
    BY <1>7, <1>8

(* What a jump, a call or a reference that the program made leads to.      *)
LEMMA AimAt ==
    ASSUME NEW s, NEW n, NEW st, Finished(s, n, st), NEW k \in 1 .. n,
           NEW i \in DOMAIN source, i # 0, At(s, k, i), source[i].kind \in Refers
    PROVE  \E q \in 1 .. n :
             /\ s[q] = ops[IF ops[s[k]].turned THEN s[k + 1] ELSE s[k]].jmp_addr
             /\ ops[s[q]].item = source[i].to /\ ops[s[q]].kind \in {"LABEL", "PATCH"}
             /\ source[i].to \in DOMAIN source /\ source[i].to \in Nat \ {0}
             /\ source[source[i].to].kind = ops[s[q]].kind
             /\ source[i].to \notin Sized(source)
  <1>1. /\ n \in Nat /\ source \in Programs /\ Path(s, n, alive, next, prev)
        /\ \A o \in alive : Core(o)
        /\ \A w \in 1 .. n : s[w] \in alive
    BY FinishedFacts
  <1>2. PICK o : o = IF ops[s[k]].turned THEN s[k + 1] ELSE s[k]
    OBVIOUS
  <1>3. o \in alive /\ ops[o].kind \in Refers
    <2>1. CASE ops[s[k]].turned
      <3>1. k + 1 \in 1 .. n /\ MadeJump(s[k + 1])
        BY <2>1, Turned
      <3> QED
        BY <1>1, <1>2, <2>1, <3>1 DEF MadeJump, Refers
    <2>2. CASE ~ops[s[k]].turned
      BY <1>1, <1>2, <2>2 DEF At
    <2> QED
      BY <2>1, <2>2
  <1>4. /\ ops[o].jmp_addr \in alive
        /\ ops[ops[o].jmp_addr].kind \in {"LABEL", "PATCH"}
    <2>1. Wired(o)
      BY <1>1, <1>3 DEF Core
    <2> QED
      BY <1>3, <2>1 DEF Wired
  <1>5. ops[ops[o].jmp_addr].item = source[i].to
    <2>1. Aims(s[k]) /\ ops[s[k]].item = i /\ ops[s[k]].kind \in Refers
      BY <1>1 DEF Core, At
    <2>2. o = IF ops[s[k]].turned THEN next[s[k]] ELSE s[k]
      BY <1>2, Turned
    <2>3. ops[ops[IF ops[s[k]].turned THEN next[s[k]] ELSE s[k]].jmp_addr].item
             = source[ops[s[k]].item].to
      BY <2>1 DEF Aims
    <2> QED
      BY <2>1, <2>2, <2>3
  <1>6. /\ source[i].to \in DOMAIN source /\ source[i].to \in Nat \ {0}
        /\ source[source[i].to].kind \in {"LABEL", "PATCH"}
    <2>1. /\ DOMAIN source = 1 .. Len(source) /\ Len(source) \in Nat
          /\ \/ source[i].to \in 1 .. i - 1 /\ source[source[i].to].kind = "LABEL"
             \/ source[i].to \in i + 1 .. Len(source) /\ source[source[i].to].kind = "PATCH"
      BY <1>1, ProgramFacts
    <2> QED
      BY <2>1
  <1>7. ops[ops[o].jmp_addr].kind = source[source[i].to].kind
    <2>1. Stands(ops[o].jmp_addr)
      BY <1>1, <1>4 DEF Core
    <2> QED
      BY <1>5, <1>6, <2>1 DEF Stands
  <1>8. PICK q \in 1 .. n : s[q] = ops[o].jmp_addr
    BY <1>1, <1>4 DEF Path
  <1>9. source[i].to \notin Sized(source)
    BY <1>6 DEF Sized
  <1> QED
    BY <1>2, <1>4, <1>5, <1>6, <1>7, <1>8, <1>9

(* A label is never where the code begins: a function stands before it.    *)
LEMMA PastFirst ==
    ASSUME NEW s, NEW n, NEW st, Finished(s, n, st), NEW q \in 1 .. n,
           ops[s[q]].item # 0, ops[s[q]].kind \in {"LABEL", "PATCH"}
    PROVE  st[q] >= 1
  <1>1. /\ n \in Nat /\ source \in Programs /\ Ordered(s, n) /\ ops \in [Ids -> Op]
        /\ \A w \in 1 .. n : /\ s[w] \in Ids /\ st[w] \in Nat /\ st[w + 1] \in Nat
                             /\ st[w] <= st[w + 1] - Size(s[w])
        /\ \A j, w \in 1 .. n : j < w => st[j + 1] <= st[w]
    BY FinishedFacts
  <1>2. 1 \in Reached(source) /\ source[1].kind = "PROLOG"
    <2>1. source # <<>> /\ source[1].kind = "PROLOG"
      BY <1>1, ProgramsAssumption DEF WellFormed
    <2>2. 1 \in DOMAIN source
      BY <1>1, <2>1, ProgramFacts
    <2> QED
      BY <1>1, <2>1, <2>2, ReachedIsClosed
  <1>3. PICK p \in 1 .. n : At(s, p, 1)
    BY <1>2, OpIsThere
  <1>4. p # q
    BY <1>2, <1>3 DEF At
  <1>5. ~(q < p)
    <2>1. ops[s[q]].item \in Nat \ {0}
      BY <1>1 DEF Op
    <2>2. q < p => ops[s[q]].item < 1
      BY <1>1, <1>3 DEF At, Ordered
    <2> QED
      BY <2>1, <2>2
  <1>6. p < q
    BY <1>1, <1>4, <1>5
  <1>7. st[p + 1] <= st[q]
    BY <1>1, <1>6
  <1>8. Size(s[p]) \in Nat \ {0}
    BY <1>3 DEF At
  <1> QED
    BY <1>1, <1>7, <1>8

(* What control runs through from where a label or a patch is.             *)
LEMMA LabelLeads ==
    ASSUME NEW s, NEW n, NEW st, Finished(s, n, st), NEW q \in 1 .. n,
           ops[s[q]].item # 0, ops[s[q]].kind \in {"LABEL", "PATCH"},
           NEW r \in 1 .. n, NEW y, At(s, r, y), y \in Sized(source), y = FirstFrom(source, ops[s[q]].item)
    PROVE  LET x == buf.base + st[r + 1] - Size(s[r])
           IN /\ Glides(Code, buf.base + st[q], x)
              /\ buf.base <= buf.base + st[q] /\ x \in DOMAIN Code /\ Code[x].of # 0
  <1>1. /\ n \in Nat /\ source \in Programs /\ ops \in [Ids -> Op]
        /\ \A o \in alive : Core(o) /\ (Used(o) => ops[o].in_use)
        /\ \A w \in 1 .. n : s[w] \in alive /\ s[w] \in Ids
    BY FinishedFacts
  <1>2. ops[s[q]].item \in Nat /\ ops[s[q]].item \notin Sized(source)
    <2>1. Stands(s[q]) /\ ops[s[q]] \in Op
      BY <1>1 DEF Core
    <2>2. source[ops[s[q]].item].kind = ops[s[q]].kind
      BY <2>1 DEF Stands
    <2> QED
      BY <2>1, <2>2 DEF Op, Sized
  <1>3. Follows(ops[s[q]].item, ops[s[r]].item)
    <2>1. Follows(ops[s[q]].item, y)
      BY <1>1, <1>2, FirstFollows
    <2> QED
      BY <2>1 DEF At
  <1>4. q < r /\ \A w \in q + 1 .. r - 1 :
                    Passable(s[w]) \/ (w = q + 1 /\ MadeJump(s[w]) /\ ops[s[q]].turned)
    BY <1>3, Gap
  <1>5. ~ops[s[q]].turned
    <2>1. TurnedRight(s[q])
      BY <1>1 DEF Core
    <2> QED
      BY <2>1 DEF TurnedRight
  <1>6. q \in 1 .. r /\ \A w \in q .. r - 1 : Passable(s[w])
    <2>1. q \in 1 .. r
      BY <1>1, <1>4
    <2>2. ASSUME NEW w \in q .. r - 1 PROVE Passable(s[w])
      <3>1. CASE w = q
        BY <3>1 DEF Passable
      <3>2. CASE w # q
        <4>1. w \in q + 1 .. r - 1
          BY <3>2
        <4> QED
          BY <1>4, <1>5, <4>1
      <3> QED
        BY <3>1, <3>2
    <2> QED
      BY <2>1, <2>2
  <1>7. Size(s[r]) # 0 /\ ops[s[r]].item # 0
    <2>1. y # 0
      BY <1>1, ProgramFacts DEF Sized
    <2> QED
      BY <2>1 DEF At
  <1> QED
    BY <1>6, <1>7, GlideOver

(* The jump the compiler added behind a branch.                            *)
LEMMA AroundTheJump ==
    ASSUME NEW s, NEW n, NEW st, Finished(s, n, st), NEW k \in 1 .. n, ops[s[k]].turned
    PROVE  /\ Glides(Code, buf.base + st[k + 1], buf.base + st[k + 2] - 1)
           /\ buf.base <= buf.base + st[k + 1]
           /\ buf.base + st[k + 2] - 1 \in DOMAIN Code
           /\ Code[buf.base + st[k + 2] - 1].of = 0
  <1>1. k + 1 \in 1 .. n /\ MadeJump(s[k + 1])
    BY Turned
  <1>2. /\ n \in Nat /\ buf.base \in Nat /\ Len(buf.cells) \in Nat /\ st[k + 1] \in Nat
        /\ (k + 1) + 1 = k + 2 /\ st[k + 2] \in Nat /\ st[k + 2] <= Len(buf.cells)
        /\ Block(buf.cells, s[k + 1], st[k + 1], st[k + 2]) /\ s[k + 1] \in alive
        /\ \A o \in alive : Core(o)
    <2>1. (k + 1) + 1 = k + 2
      BY <1>1
    <2> QED
      BY <1>1, <2>1, FinishedFacts
  <1>3. ops[s[k + 1]].item = 0 /\ ops[s[k + 1]].kind = "JMP" /\ Size(s[k + 1]) = 2
    BY <1>1, <1>2 DEF Core, Stands, MadeJump, Size
  <1>4. PICK e, f, base : e = st[k + 1] /\ f = st[k + 2] /\ base = buf.base
    OBVIOUS
  <1>5. e \in Nat /\ f = e + 2 /\ base \in Nat /\ f <= Len(buf.cells)
    <2>1. st[k + 1] = st[k + 2] - 2
      BY <1>2, <1>3 DEF Block
    <2> QED
      BY <1>2, <1>4, <2>1
  <1>6. buf.cells[e + 1].of = 0 /\ buf.cells[e + 2].of = 0 /\ buf.cells[e + 1].c \in {"code", "jump"}
    <2>1. f - 2 = e /\ e + 1 \in e + 1 .. f /\ e + 2 \in e + 1 .. f /\ e + 1 \in e + 1 .. f - 1
      BY <1>5
    <2>2. /\ \A x \in f - 2 + 1 .. f : buf.cells[x].of = 0
          /\ \A x \in f - 2 + 1 .. f - 1 : buf.cells[x].c \in {"code", "jump"}
      BY <1>2, <1>3, <1>4 DEF Block
    <2> QED
      BY <2>1, <2>2
  <1>7. e + 1 \in 1 .. Len(buf.cells) /\ e + 2 \in 1 .. Len(buf.cells)
    BY <1>2, <1>5
  <1>8. /\ base + (e + 1) - 1 \in DOMAIN Code /\ Code[base + (e + 1) - 1] = CellAt(e + 1)
        /\ base + (e + 2) - 1 \in DOMAIN Code /\ Code[base + (e + 2) - 1] = CellAt(e + 2)
    BY <1>4, <1>7, CodeAt
  <1>9. base + (e + 1) - 1 = base + e /\ base + (e + 2) - 1 = base + f - 1
    BY <1>5
  <1>10. CellAt(e + 1).of = 0 /\ CellAt(e + 1).dest = 0 /\ CellAt(e + 2).of = 0
    BY <1>6 DEF CellAt
  <1>11. Glides(Code, base + e, base + f - 1)
    <2>1. base + e \in Int /\ base + f - 1 \in Int /\ base + e <= base + f - 1
      BY <1>5
    <2>2. \A b \in base + e .. (base + f - 1) - 1 : b = base + e
      BY <1>5
    <2> QED
      BY <1>8, <1>9, <1>10, <2>1, <2>2 DEF Glides
  <1>12. base <= base + e
    BY <1>5
  <1> QED
    BY <1>4, <1>8, <1>9, <1>10, <1>11, <1>12

(* Control goes, and addresses lead, where the program said.               *)
LEMMA LeadsOn ==
    ASSUME NEW s, NEW n, NEW st, Finished(s, n, st), NEW k \in 1 .. n, Used(s[k]),
           NEW i \in DOMAIN source, i # 0, At(s, k, i), source[i].kind \in Refers,
           NEW r \in 1 .. n, NEW y, At(s, r, y), y \in Sized(source), y = FirstFrom(source, source[i].to)
    PROVE  LET last == Code[buf.base + st[k + 1] - 1]
           IN Promise!Lands(Code, IF last.turned THEN buf.base + st[k + 1] ELSE last.dest)
                = buf.base + st[r + 1] - Size(s[r])
  <1>1. /\ n \in Nat /\ buf.base \in Nat /\ Len(buf.cells) \in Nat
        /\ \A w \in 1 .. n : st[w] \in Nat
    BY FinishedFacts
  <1>2. PICK q \in 1 .. n :
          /\ s[q] = ops[IF ops[s[k]].turned THEN s[k + 1] ELSE s[k]].jmp_addr
          /\ ops[s[q]].item = source[i].to /\ ops[s[q]].item # 0
          /\ ops[s[q]].kind \in {"LABEL", "PATCH"}
    <2>1. \E q \in 1 .. n :
             /\ s[q] = ops[IF ops[s[k]].turned THEN s[k + 1] ELSE s[k]].jmp_addr
             /\ ops[s[q]].item = source[i].to /\ ops[s[q]].kind \in {"LABEL", "PATCH"}
             /\ source[i].to \in Nat \ {0}
      BY AimAt
    <2> QED
      BY <2>1
  <1> DEFINE from == buf.base
             to == buf.base + Len(buf.cells) - 1
             x == buf.base + st[r + 1] - Size(s[r])
  <1>3. from \in Int /\ to \in Int /\ DOMAIN Code = from .. to
    BY <1>1, CodeAt
  <1>4. /\ Glides(Code, buf.base + st[q], x)
        /\ from <= buf.base + st[q] /\ x \in DOMAIN Code /\ Code[x].of # 0
    BY <1>2, LabelLeads
  <1>5. Code[buf.base + st[k + 1] - 1].turned <=> ops[s[k]].turned
    BY BodyAt DEF At
  <1> HIDE DEF from, to, x
  <1>6. CASE ~ops[s[k]].turned
    <2>1. Code[buf.base + st[k + 1] - 1].dest = buf.base + st[q]
      <3>1. ops[s[k]].kind \in Refers /\ s[q] = ops[s[k]].jmp_addr
        BY <1>2, <1>6 DEF At
      <3> QED
        BY <3>1, DestOf
    <2>2. Promise!Lands(Code, buf.base + st[q]) = x
      BY <1>3, <1>4, LandsAhead
    <2> QED
      BY <1>5, <1>6, <2>1, <2>2 DEF x
  <1>7. CASE ops[s[k]].turned
    <2>1. k + 1 \in 1 .. n /\ MadeJump(s[k + 1]) /\ (k + 1) + 1 = k + 2
      BY <1>7, Turned
    <2>2. Code[buf.base + st[k + 2] - 1].dest = buf.base + st[q]
      <3>1. Used(s[k + 1]) /\ ops[s[k + 1]].kind \in Refers /\ s[q] = ops[s[k + 1]].jmp_addr
        BY <1>2, <1>7, <2>1 DEF Used, MadeJump, Refers
      <3> QED
        BY <2>1, <3>1, DestOf
    <2>3. buf.base + st[q] # 0
      <3>1. st[q] >= 1
        BY <1>2, PastFirst
      <3> QED
        BY <1>1, <3>1
    <2>4. /\ Glides(Code, buf.base + st[k + 1], buf.base + st[k + 2] - 1)
          /\ from <= buf.base + st[k + 1]
          /\ buf.base + st[k + 2] - 1 \in DOMAIN Code
          /\ Code[buf.base + st[k + 2] - 1].of = 0
      BY <1>7, AroundTheJump DEF from
    <2>5. Promise!Lands(Code, buf.base + st[k + 1]) = x
      BY <1>3, <1>4, <2>2, <2>3, <2>4, LandsAround
    <2> QED
      BY <1>5, <1>7, <2>5 DEF x
  <1> QED
    BY <1>6, <1>7

LEMMA NothingBetween ==
    ASSUME NEW s, NEW n, NEW st, Finished(s, n, st), NEW q \in 1 .. n,
           ops[s[q]].item # 0, ops[s[q]].kind \in {"LABEL", "PATCH", "CODE_ALIGN"},
           NEW r \in 1 .. n, NEW y, At(s, r, y), y \in Sized(source), y = FirstFrom(source, ops[s[q]].item),
           source[y].kind # "PROLOG", Bare(source, ops[s[q]].item)
    PROVE  st[q + 1] = st[r + 1] - Size(s[r])
  <1>1. /\ n \in Nat /\ source \in Programs /\ ops \in [Ids -> Op]
        /\ Path(s, n, alive, next, prev)
        /\ \A o \in alive : Core(o)
        /\ \A w \in 1 .. n : /\ s[w] \in alive /\ s[w] \in Ids /\ Size(s[w]) \in Nat
                             /\ st[w] \in Nat /\ st[w + 1] \in Nat
                             /\ Block(buf.cells, s[w], st[w], st[w + 1])
    BY FinishedFacts
  <1>2. PICK x : x = ops[s[q]].item
    OBVIOUS
  <1>3. x \in Nat \ {0} /\ x \in DOMAIN source /\ x \notin Sized(source)
    <2>1. Stands(s[q]) /\ ops[s[q]] \in Op
      BY <1>1 DEF Core
    <2>2. source[x].kind = ops[s[q]].kind /\ x \in DOMAIN source
      BY <1>2, <2>1 DEF Stands
    <2> QED
      BY <1>2, <2>1, <2>2 DEF Op, Sized
  <1>4. y \in DOMAIN source /\ y \in Nat \ {0}
    BY <1>1, ProgramFacts DEF Sized
  <1>5. Follows(ops[s[q]].item, ops[s[r]].item)
    <2>1. Follows(x, y)
      BY <1>1, <1>2, <1>3, FirstFollows
    <2> QED
      BY <1>2, <2>1 DEF At
  <1>6. /\ q < r
        /\ \A w \in q + 1 .. r - 1 :
             Passable(s[w]) \/ (w = q + 1 /\ MadeJump(s[w]) /\ ops[s[q]].turned)
        /\ \A w \in q + 1 .. r - 1 : ops[s[w]].item # 0 => ops[s[w]].item \in x + 1 .. y - 1
    <2>1. /\ q < r
          /\ \A w \in q + 1 .. r - 1 :
               Passable(s[w]) \/ (w = q + 1 /\ MadeJump(s[w]) /\ ops[s[q]].turned)
          /\ \A w \in q + 1 .. r - 1 : ops[s[w]].item # 0 =>
               ops[s[w]].item \in ops[s[q]].item + 1 .. ops[s[r]].item - 1
      BY <1>5, Gap
    <2>2. ops[s[r]].item = y
      BY DEF At
    <2> QED
      BY <1>2, <2>1, <2>2
  <1>7. ~ops[s[q]].turned
    <2>1. TurnedRight(s[q])
      BY <1>1 DEF Core
    <2> QED
      BY <2>1 DEF TurnedRight
  <1>8. \A k \in x + 1 .. y - 1 : source[k].kind # "CODE_ALIGN" /\ k \notin CodeNamed(source)
    BY <1>2 DEF Bare
  <1>9. \A w \in q + 1 .. r : w \in 1 .. n /\ ops[s[w]].item \notin CodeNamed(source)
    <2> SUFFICES ASSUME NEW w \in q + 1 .. r
                 PROVE  w \in 1 .. n /\ ops[s[w]].item \notin CodeNamed(source)
      OBVIOUS
    <2>1. \A k \in CodeNamed(source) : k # 0 /\ k \notin Sized(source)
      <3> SUFFICES ASSUME NEW m \in DOMAIN source, source[m].kind \in {"REF_CODE", "DATA_REF_CODE"}
                   PROVE  source[m].to # 0 /\ source[m].to \notin Sized(source)
        BY DEF CodeNamed
      <3>1. /\ m \in 1 .. Len(source) /\ Len(source) \in Nat
            /\ \/ source[m].to \in 1 .. m - 1 /\ source[source[m].to].kind = "LABEL"
               \/ source[m].to \in m + 1 .. Len(source) /\ source[source[m].to].kind = "PATCH"
        BY <1>1, ProgramFacts DEF Refers
      <3> QED
        BY <3>1 DEF Sized
    <2>2. CASE w = r
      BY <2>1, <2>2 DEF At
    <2>3. CASE w # r
      <3>1. w \in q + 1 .. r - 1 /\ w \in 1 .. n
        BY <1>1, <1>6, <2>3
      <3> QED
        BY <1>6, <1>8, <2>1, <3>1
    <2> QED
      BY <2>2, <2>3
  <1>10. ASSUME NEW w \in q + 1 .. r - 1 PROVE ops[s[w]].kind # "FULL_SPILL"
    <2> SUFFICES ASSUME ops[s[w]].kind = "FULL_SPILL" PROVE FALSE
      OBVIOUS
    <2> DEFINE N == r - w
               S == {j \in 0 .. N : ops[s[w + j]].kind = "FULL_SPILL"}
    <2>1. N \in Nat /\ w \in Nat
      BY <1>1
    <2>2. 0 \in S
      BY <2>1
    <2>3. ASSUME NEW j \in 0 .. N - 1, j \in S PROVE j + 1 \in S
      <3>1. PICK v : v = w + j
        OBVIOUS
      <3>2. /\ v \in 1 .. n /\ v + 1 \in q + 1 .. r /\ v + 1 = w + (j + 1) /\ j + 1 \in 0 .. N
            /\ v + 1 <= n
        BY <1>1, <2>1, <3>1
      <3>3. next[s[v]] = s[v + 1]
        <4>1. next[s[v]] = IF v + 1 <= n THEN s[v + 1] ELSE 0
          BY <1>1, <3>2, AfterNext
        <4> QED
          BY <3>2, <4>1
      <3>4. Spilled(s[v]) /\ ops[s[v]].kind = "FULL_SPILL"
        BY <1>1, <2>3, <3>1, <3>2 DEF Core
      <3>5. ops[s[v + 1]].kind = "FULL_SPILL"
        BY <1>9, <3>2, <3>3, <3>4 DEF Spilled
      <3> QED
        BY <3>2, <3>5
    <2>4. 0 .. N \subseteq S
      <3> HIDE DEF S, N
      <3> QED
        BY <2>1, <2>2, <2>3, InductionTo
    <2>5. ops[s[r]].kind = "FULL_SPILL"
      <3>1. N \in S /\ w + N = r
        BY <2>1, <2>4
      <3> QED
        BY <3>1
    <2>6. source[y].kind \in Kinds
      BY <1>1, <1>4, ProgramFacts
    <2> QED
      BY <2>5, <2>6 DEF At, Kinds
  <1>11. ASSUME NEW w \in q + 1 .. r - 1 PROVE st[w] = st[w + 1]
    <2>1. w \in 1 .. n
      BY <1>1, <1>6
    <2>2. Passable(s[w])
      BY <1>6, <1>7
    <2>3. ops[s[w]].kind # "CODE_ALIGN"
      <3>1. CASE ops[s[w]].item = 0
        BY <1>1, <2>1, <3>1 DEF Core, Stands
      <3>2. CASE ops[s[w]].item # 0
        <4>1. ops[s[w]].kind = source[ops[s[w]].item].kind
          BY <1>1, <2>1, <3>2 DEF Core, Stands
        <4> QED
          BY <1>6, <1>8, <3>2, <4>1
      <3> QED
        BY <3>1, <3>2
    <2>4. ops[s[w]].kind \in {"CODESTART", "LABEL", "PATCH"}
      BY <1>10, <2>2, <2>3 DEF Passable
    <2>5. Size(s[w]) = 0 /\ ops[s[w]].kind \notin {"PROLOG", "CODE_ALIGN"}
      BY <2>4 DEF Size
    <2>6. st[w] = st[w + 1] - Size(s[w])
      BY <1>1, <2>1, <2>5 DEF Block
    <2> QED
      BY <1>1, <2>1, <2>5, <2>6
  <1>12. st[q + 1] = st[r]
    <2> DEFINE N == r - (q + 1)
               S == {j \in 0 .. N : st[q + 1 + j] = st[q + 1]}
    <2>1. N \in Nat /\ q \in Nat
      BY <1>1, <1>6
    <2>2. 0 \in S
      BY <2>1
    <2>3. ASSUME NEW j \in 0 .. N - 1, j \in S PROVE j + 1 \in S
      <3>1. q + 1 + j \in q + 1 .. r - 1 /\ (q + 1 + j) + 1 = q + 1 + (j + 1) /\ j + 1 \in 0 .. N
        BY <2>1
      <3> QED
        BY <1>11, <2>3, <3>1
    <2>4. 0 .. N \subseteq S
      <3> HIDE DEF S, N
      <3> QED
        BY <2>1, <2>2, <2>3, InductionTo
    <2>5. N \in S /\ q + 1 + N = r
      <3>1. N \in 0 .. N /\ q + 1 + N = r
        BY <1>1, <2>1
      <3> QED
        BY <2>4, <3>1
    <2> QED
      BY <2>5
  <1>13. ops[s[r]].kind \notin {"PROLOG", "CODE_ALIGN"}
    BY DEF At, Sized
  <1>14. st[r] = st[r + 1] - Size(s[r])
    BY <1>1, <1>13 DEF Block
  <1> QED
    BY <1>12, <1>14

(* A reference to data is the address of the data.                         *)
LEMMA RefersExactly ==
    ASSUME NEW s, NEW n, NEW st, Finished(s, n, st), NEW k \in 1 .. n, Used(s[k]),
           NEW i \in DOMAIN source, i # 0, At(s, k, i), source[i].kind \in {"REF_DATA", "DATA_REF_DATA"},
           NEW r \in 1 .. n, NEW y, At(s, r, y), y \in Sized(source), y = FirstFrom(source, source[i].to),
           source[y].kind # "PROLOG", Bare(source, source[i].to)
    PROVE  Code[buf.base + st[k + 1] - 1].dest = buf.base + st[r + 1] - Size(s[r])
  <1>1. /\ n \in Nat /\ buf.base \in Nat
        /\ \A o \in alive : Core(o)
        /\ \A w \in 1 .. n : /\ s[w] \in alive /\ Size(s[w]) \in Nat
                             /\ st[w] \in Nat /\ st[w + 1] \in Nat
                             /\ Block(buf.cells, s[w], st[w], st[w + 1])
    BY FinishedFacts
  <1>2. ~ops[s[k]].turned /\ source[i].kind \in Refers /\ ops[s[k]].kind \in Refers
    <2>1. TurnedRight(s[k])
      BY <1>1 DEF Core
    <2> QED
      BY <2>1 DEF TurnedRight, At, Refers
  <1>3. PICK q \in 1 .. n :
          /\ s[q] = ops[s[k]].jmp_addr
          /\ ops[s[q]].item = source[i].to /\ ops[s[q]].item # 0
          /\ ops[s[q]].kind \in {"LABEL", "PATCH"}
    <2>1. \E q \in 1 .. n :
             /\ s[q] = ops[IF ops[s[k]].turned THEN s[k + 1] ELSE s[k]].jmp_addr
             /\ ops[s[q]].item = source[i].to /\ ops[s[q]].kind \in {"LABEL", "PATCH"}
             /\ source[i].to \in Nat \ {0}
      BY <1>2, AimAt
    <2> QED
      BY <1>2, <2>1
  <1>4. Code[buf.base + st[k + 1] - 1].dest = buf.base + st[q]
    BY <1>2, <1>3, DestOf
  <1>5. st[q + 1] = st[r + 1] - Size(s[r])
    BY <1>3, NothingBetween
  <1>6. st[q] = st[q + 1] - 0
    BY <1>1, <1>3 DEF Block, Size
  <1>7. buf.base + st[q] = buf.base + (st[r + 1] - Size(s[r]))
    BY <1>1, <1>5, <1>6
  <1> QED
    BY <1>1, <1>4, <1>7

(* Data that is to be aligned is.                                          *)
LEMMA AlignedRight ==
    ASSUME NEW s, NEW n, NEW st, Finished(s, n, st),
           NEW i \in DOMAIN source, source[i].kind = "CODE_ALIGN", buf.base % source[i].n = 0,
           NEW r \in 1 .. n, NEW y, At(s, r, y), y \in Sized(source), y = FirstFrom(source, i),
           source[y].kind # "PROLOG", Bare(source, i)
    PROVE  (buf.base + st[r + 1] - Size(s[r])) % source[i].n = 0
  <1>1. /\ n \in Nat /\ buf.base \in Nat /\ source \in Programs
        /\ Path(s, n, alive, next, prev)
        /\ \A o \in alive : Core(o)
        /\ \A w \in 1 .. n : Size(s[w]) \in Nat /\ st[w] \in Nat /\ st[w + 1] \in Nat
    BY FinishedFacts
  <1>2. i # 0 /\ source[i].n \in Nat \ {0}
    <2>1. i \in 1 .. Len(source) /\ Len(source) \in Nat
      BY <1>1, ProgramFacts
    <2>2. source[i].n \in Nat \ {0}
      BY <1>1, ProgramFacts
    <2> QED
      BY <2>1, <2>2
  <1>3. PICK q \in 1 .. n : ops[s[q]].item = i
    <2>1. PICK o \in alive : ops[o].item = i
      BY DEF Finished, Present, Directives
    <2> QED
      BY <1>1, <2>1 DEF Path
  <1>4. ops[s[q]].kind = "CODE_ALIGN" /\ ops[s[q]].n = source[i].n
    <2>1. Stands(s[q])
      BY <1>1 DEF Core, Path
    <2> QED
      BY <1>2, <1>3, <2>1 DEF Stands
  <1>5. st[q + 1] = st[r + 1] - Size(s[r])
    BY <1>2, <1>3, <1>4, NothingBetween
  <1>6. st[q + 1] % source[i].n = 0
    <2>1. LaidOut(s[q], st[q], st[q + 1])
      <3>1. (n + 1) - 1 = n
        BY <1>1
      <3> QED
        BY <3>1 DEF Finished, Layout
    <2> QED
      BY <1>4, <2>1 DEF LaidOut
  <1>7. (buf.base + st[q + 1]) % source[i].n = 0
    <2>1. buf.base \in Nat /\ st[q + 1] \in Nat /\ source[i].n \in Nat \ {0}
      BY <1>1, <1>2
    <2> QED
      BY <1>6, <2>1, Multiples
  <1>8. buf.base + st[q + 1] = buf.base + st[r + 1] - Size(s[r])
    <2>1. buf.base \in Int /\ st[r + 1] \in Int /\ Size(s[r]) \in Int
      BY <1>1
    <2> QED
      BY <1>5, <2>1
  <1> QED
    BY <1>7, <1>8

(* The loop of a transfer goes back to the end of its first instruction.   *)
LEMMA LoopsBack ==
    ASSUME NEW s, NEW n, NEW st, Finished(s, n, st), NEW k \in 1 .. n, Used(s[k]),
           NEW i \in Reached(source), At(s, k, i), source[i].kind = "TRANSFER_CPY",
           NEW q \in 1 .. n, At(s, q, source[i].to)
    PROVE  Code[buf.base + st[k + 1] - 1].dest
             = (buf.base + st[q + 1] - Size(s[q])) + source[source[i].to].n - 1
  <1>1. /\ n \in Nat /\ buf.base \in Nat /\ ops \in [Ids -> Op]
        /\ Path(s, n, alive, next, prev) /\ Ordered(s, n) /\ source \in Programs
        /\ \A o \in alive : Core(o)
        /\ \A w \in 1 .. n : /\ s[w] \in alive /\ s[w] \in Ids
                             /\ Size(s[w]) \in Nat /\ st[w] \in Nat /\ st[w + 1] \in Nat
    BY FinishedFacts
  <1>2. ops[s[k]].arg = s[q]
    <2>1. ops[s[k]].arg \in alive /\ ops[ops[s[k]].arg].item = source[i].to
      BY <1>1 DEF Core, Loops, At
    <2>2. PICK j \in 1 .. n : ops[s[k]].arg = s[j]
      BY <1>1, <2>1 DEF Path
    <2>3. \A w \in 1 .. n : ops[s[w]].item \in Nat
      BY <1>1 DEF Op
    <2>4. source[i].to # 0
      <3>1. i \in DOMAIN source /\ i \in Nat \ {0}
        BY OpIsThere
      <3>2. source[i].to \in 1 .. i - 1
        BY <1>1, <3>1, ProgramFacts
      <3> QED
        BY <3>1, <3>2
    <2>5. j = q
      <3>1. ops[s[j]].item = ops[s[q]].item /\ ops[s[q]].item # 0
        BY <2>1, <2>2, <2>4 DEF At
      <3> QED
        BY <1>1, <2>3, <3>1, OneOp
    <2> QED
      BY <2>2, <2>5
  <1>3. buf.cells[st[k + 1]].d = (st[q + 1] - 1) - st[k + 1]
    <2>1. Linked(s[k], s[q], st[k + 1], st[q], st[q + 1])
      <3>1. (n + 1) - 1 = n
        BY <1>1
      <3> QED
        BY <3>1 DEF Finished, Layout
    <2> QED
      BY <1>2, <2>1 DEF Linked, At
  <1>4. Code[buf.base + st[k + 1] - 1].dest = buf.base + st[k + 1] + buf.cells[st[k + 1]].d
    <2>1. LastCell(s[k]) = "disp" /\ Size(s[k]) # 0
      BY DEF LastCell, At
    <2> QED
      BY <2>1, BodyAt
  <1>5. Size(s[q]) = source[source[i].to].n
    BY DEF At
  <1>6. \A a, e, g, z \in Int : a + e + ((g - 1) - e) = (a + g - z) + z - 1
    OBVIOUS
  <1> QED
    BY <1>1, <1>3, <1>4, <1>5, <1>6

(* Faithful of Assembly, item by item.                                     *)
Right(p, pl, c, i) ==
    LET end  == pl[i] + p[i].n
        following == FirstFrom(p, i + 1)
        goal == FirstFrom(p, p[i].to)
        dest == c[end - 1].dest
        turned == c[end - 1].turned
    IN /\ \A a \in pl[i]..end - 1 : a \in DOMAIN c /\ c[a].of = i
       /\ FallsThrough(p, i) => Promise!Lands(c, IF turned THEN dest ELSE end) = pl[following]
       /\ p[i].kind \in Refers /\ goal \in Sized(p) =>
            /\ Promise!Lands(c, IF turned THEN end ELSE dest) = pl[goal]
            /\ p[i].kind \in {"REF_DATA", "DATA_REF_DATA"} => dest = pl[goal]
       /\ p[i].kind = "TRANSFER_CPY" =>
            dest = pl[p[i].to] + p[p[i].to].n - 1

LEMMA FaithfulIs ==
    ASSUME NEW p, NEW pl, NEW c, DOMAIN pl = Reached(p),
           \A i \in Reached(p) : Right(p, pl, c, i),
           \A i \in DOMAIN p :
             LET following == FirstFrom(p, i)
             IN p[i].kind = "CODE_ALIGN" /\ following \in Reached(p) /\ p[following].kind \in DataKinds
                  => pl[following] % p[i].n = 0
    PROVE  Promise!Faithful(p, pl, c)
  <1>1. Promise!Reached(p) = Reached(p)
    BY SameReached
  <1>2. /\ Promise!Sized(p) = Sized(p)
        /\ \A i : Promise!FirstFrom(p, i) = FirstFrom(p, i)
        /\ \A i : Promise!FallsThrough(p, i) <=> FallsThrough(p, i)
    BY SameSized
  <1>3. Promise!Refers = Refers /\ Promise!DataKinds = DataKinds
    BY DEF Promise!Refers, Refers, Promise!DataKinds, DataKinds
  <1> QED
    BY <1>1, <1>2, <1>3 DEF Promise!Faithful, Right

(* Where the k-th operation begins, behind what aligns it.                 *)
Place(s, st, k) == buf.base + st[k + 1] - Size(s[k])

(* pl gives the place of every item that is reached.                       *)
Places(s, n, st, pl) ==
    /\ DOMAIN pl = Reached(source)
    /\ \A i \in Reached(source), k \in 1 .. n : At(s, k, i) => pl[i] = Place(s, st, k)

LEMMA PlacedRight ==
    ASSUME NEW s, NEW n, NEW st, Finished(s, n, st), NEW pl, Places(s, n, st, pl),
           TransfersReached(source), Direct(source), NEW i \in Reached(source)
    PROVE  Right(source, pl, Code, i)
  <1>1. i \in DOMAIN source /\ i \in Nat \ {0} /\ i \in Sized(source) /\ source \in Programs
    BY OpIsThere, FinishedFacts
  <1>2. PICK k \in 1 .. n : At(s, k, i) /\ Used(s[k])
    BY OpIsThere
  <1>3. /\ buf.base \in Nat /\ Len(buf.cells) \in Nat /\ st[k] \in Nat /\ st[k + 1] \in Nat
        /\ st[k] <= st[k + 1] - Size(s[k])
        /\ Size(s[k]) \in Nat \ {0} /\ Size(s[k]) = source[i].n
    BY <1>2, FinishedFacts DEF At
  <1> DEFINE end == pl[i] + source[i].n
             last == Code[buf.base + st[k + 1] - 1]
             goal == FirstFrom(source, source[i].to)
             following == FirstFrom(source, i + 1)
  <1>4. pl[i] = buf.base + st[k + 1] - Size(s[k]) /\ end = buf.base + st[k + 1]
    <2>1. pl[i] = buf.base + st[k + 1] - Size(s[k])
      BY <1>2 DEF Places, Place
    <2> QED
      BY <1>3, <2>1
  <1>5. Code[end - 1] = last
    <2>1. PICK e, f, base : e = end /\ f = st[k + 1] /\ base = buf.base
      OBVIOUS
    <2>2. e = base + f /\ base \in Nat /\ f \in Nat
      BY <1>3, <1>4, <2>1
    <2>3. e - 1 = base + f - 1
      BY <2>2
    <2> QED
      BY <2>1, <2>3
  <1>6. \A a \in pl[i] .. end - 1 : a \in DOMAIN Code /\ Code[a].of = i
    <2> SUFFICES ASSUME NEW a \in pl[i] .. end - 1 PROVE a \in DOMAIN Code /\ Code[a].of = i
      OBVIOUS
    <2>1. PICK base, f, z : base = buf.base /\ f = st[k + 1] /\ z = Size(s[k])
      OBVIOUS
    <2>2. base \in Nat /\ f \in Nat /\ z \in Nat /\ a \in base + f - z .. base + f - 1
      BY <1>3, <1>4, <2>1
    <2>3. PICK x : x = a - base + 1
      OBVIOUS
    <2>4. x \in f - z + 1 .. f /\ base + x - 1 = a
      BY <2>2, <2>3
    <2>5. x \in 1 .. Len(buf.cells) /\ Code[buf.base + x - 1].of = ops[s[k]].item
      BY <2>1, <2>4, BodyAt
    <2>6. a \in DOMAIN Code
      BY <2>1, <2>4, <2>5, CodeAt
    <2> QED
      BY <1>2, <2>1, <2>4, <2>5, <2>6 DEF At
  <1>7. FallsThrough(source, i) =>
          Promise!Lands(Code, IF last.turned THEN last.dest ELSE buf.base + st[k + 1]) = pl[following]
    <2> SUFFICES ASSUME FallsThrough(source, i)
                 PROVE  Promise!Lands(Code, IF last.turned THEN last.dest ELSE buf.base + st[k + 1])
                          = pl[following]
      OBVIOUS
    <2>1. following \in Reached(source) /\ following \in Sized(source)
      BY <1>1, ReachedIsClosed DEF FallsThrough
    <2>2. PICK r \in 1 .. n : At(s, r, following)
      BY <2>1, OpIsThere
    <2>3. Follows(i, following)
      BY <1>1, <2>1, FirstFollows
    <2>4. pl[following] = buf.base + st[r + 1] - Size(s[r])
      BY <2>1, <2>2 DEF Places, Place
    <2> HIDE DEF following
    <2>5. Promise!Lands(Code, IF last.turned THEN last.dest ELSE buf.base + st[k + 1])
            = buf.base + st[r + 1] - Size(s[r])
      BY <1>1, <1>2, <2>2, <2>3, GoesOn
    <2> QED
      BY <2>4, <2>5
  <1>8. ASSUME source[i].kind \in Refers, goal \in Sized(source)
        PROVE  /\ Promise!Lands(Code, IF last.turned THEN buf.base + st[k + 1] ELSE last.dest) = pl[goal]
               /\ source[i].kind \in {"REF_DATA", "DATA_REF_DATA"} => last.dest = pl[goal]
    <2>1. goal \in Reached(source)
      BY <1>1, <1>8, ReachedIsClosed
    <2>2. PICK r \in 1 .. n : At(s, r, goal)
      BY <2>1, OpIsThere
    <2>3. pl[goal] = buf.base + st[r + 1] - Size(s[r])
      BY <2>1, <2>2 DEF Places, Place
    <2>4. PICK y : y = goal
      OBVIOUS
    <2>5. y = FirstFrom(source, source[i].to) /\ y \in Sized(source) /\ At(s, r, y)
      BY <1>8, <2>2, <2>4
    <2>6. Promise!Lands(Code, IF last.turned THEN buf.base + st[k + 1] ELSE last.dest)
            = buf.base + st[r + 1] - Size(s[r])
      BY <1>1, <1>2, <1>8, <2>5, LeadsOn
    <2>7. ASSUME source[i].kind \in {"REF_DATA", "DATA_REF_DATA"}
          PROVE  last.dest = buf.base + st[r + 1] - Size(s[r])
      <3>1. source[y].kind # "PROLOG" /\ Bare(source, source[i].to)
        BY <1>1, <2>5, <2>7 DEF Direct
      <3> QED
        BY <1>1, <1>2, <2>5, <2>7, <3>1, RefersExactly
    <2> QED
      BY <2>3, <2>6, <2>7
  <1>9. ASSUME source[i].kind = "TRANSFER_CPY"
        PROVE  last.dest = pl[source[i].to] + source[source[i].to].n - 1
    <2>1. source[i].to \in Reached(source)
      BY <1>9 DEF TransfersReached
    <2>2. PICK q \in 1 .. n : At(s, q, source[i].to)
      BY <2>1, OpIsThere
    <2>3. pl[source[i].to] = buf.base + st[q + 1] - Size(s[q])
      BY <2>1, <2>2 DEF Places, Place
    <2>4. last.dest = (buf.base + st[q + 1] - Size(s[q])) + source[source[i].to].n - 1
      BY <1>2, <1>9, <2>2, LoopsBack
    <2> QED
      BY <2>3, <2>4
  <1> HIDE DEF last
  <1>10. /\ FallsThrough(source, i) =>
              Promise!Lands(Code, IF last.turned THEN last.dest ELSE end) = pl[following]
         /\ source[i].kind \in Refers /\ goal \in Sized(source) =>
              Promise!Lands(Code, IF last.turned THEN end ELSE last.dest) = pl[goal]
    BY <1>4, <1>7, <1>8
  <1> QED
    BY <1>5, <1>6, <1>8, <1>9, <1>10 DEF Right

LEMMA FaithfulNow ==
    ASSUME NEW s, NEW n, NEW st, Finished(s, n, st), NEW pl, Places(s, n, st, pl),
           MemoryAligned, buf.base \in Pages, TransfersReached(source), Direct(source)
    PROVE  Promise!Faithful(source, pl, Code)
  <1>1. source \in Programs
    BY FinishedFacts
  <1>2. \A i \in Reached(source) : Right(source, pl, Code, i)
    BY PlacedRight
  <1>3. ASSUME NEW i \in DOMAIN source, source[i].kind = "CODE_ALIGN",
               FirstFrom(source, i) \in Reached(source),
               source[FirstFrom(source, i)].kind \in DataKinds
        PROVE  pl[FirstFrom(source, i)] % source[i].n = 0
    <2>1. PICK y : y = FirstFrom(source, i)
      OBVIOUS
    <2>2. y \in Reached(source) /\ source[y].kind \in DataKinds
      BY <1>3, <2>1
    <2>3. y \in Sized(source) /\ source[y].kind # "PROLOG"
      BY <2>2, OpIsThere DEF DataKinds
    <2>4. PICK r \in 1 .. n : At(s, r, y)
      BY <2>2, OpIsThere
    <2>5. Bare(source, i)
      BY <1>3, <2>1, <2>2, <2>3 DEF Direct
    <2>6. buf.base % source[i].n = 0
      BY <1>1, <1>3 DEF MemoryAligned
    <2>7. (buf.base + st[r + 1] - Size(s[r])) % source[i].n = 0
      BY <1>3, <2>1, <2>3, <2>4, <2>5, <2>6, AlignedRight
    <2>8. pl[y] = buf.base + st[r + 1] - Size(s[r])
      BY <2>2, <2>4 DEF Places, Place
    <2> QED
      BY <2>1, <2>7, <2>8
  <1>4. DOMAIN pl = Reached(source)
    BY DEF Places
  <1> QED
    BY <1>2, <1>3, <1>4, FaithfulIs

(* The first cell of an operation is where it begins.                      *)
LEMMA FirstCell ==
    ASSUME NEW s, NEW n, NEW st, Finished(s, n, st), NEW i \in Nat \ {0}, NEW k \in 1 .. n, At(s, k, i)
    PROVE  LET C == {a \in DOMAIN Code : Code[a].of = i}
           IN C # {} /\ (CHOOSE a \in C : \A b \in C : a <= b) = Place(s, st, k)
  <1> DEFINE C == {a \in DOMAIN Code : Code[a].of = i}
  <1>1. /\ n \in Nat /\ ops \in [Ids -> Op] /\ Ordered(s, n)
        /\ buf.base \in Nat /\ Len(buf.cells) \in Nat
        /\ \A w \in 1 .. n : /\ s[w] \in Ids /\ Size(s[w]) \in Nat
                             /\ st[w] \in Nat /\ st[w + 1] \in Nat
                             /\ Block(buf.cells, s[w], st[w], st[w + 1])
    BY FinishedFacts
  <1>2. PICK base, f, z : base = buf.base /\ f = st[k + 1] /\ z = Size(s[k])
    OBVIOUS
  <1>3. base \in Nat /\ f \in Nat /\ z \in Nat \ {0} /\ Place(s, st, k) = base + f - z
    BY <1>1, <1>2 DEF At, Place
  <1>4. PICK p : p = base + f - z
    OBVIOUS
  <1>5. p \in C
    <2>1. f - z + 1 \in f - z + 1 .. f /\ base + (f - z + 1) - 1 = p
      BY <1>3, <1>4
    <2>2. f - z + 1 \in 1 .. Len(buf.cells) /\ Code[base + (f - z + 1) - 1].of = i
      BY <1>2, <2>1, BodyAt DEF At
    <2>3. base + (f - z + 1) - 1 \in DOMAIN Code
      BY <1>2, <2>2, CodeAt
    <2> QED
      BY <2>1, <2>2, <2>3
  <1>6. ASSUME NEW b \in C PROVE p <= b /\ b \in Int
    <2>1. b \in DOMAIN Code /\ Code[b].of = i
      OBVIOUS
    <2>2. b \in base .. base + Len(buf.cells) - 1
      BY <1>2, <2>1, CodeAt
    <2>3. PICK x : x = b - base + 1
      OBVIOUS
    <2>4. x \in 1 .. Len(buf.cells) /\ base + x - 1 = b
      <3>1. base \in Int /\ Len(buf.cells) \in Int
        BY <1>1, <1>3
      <3> QED
        BY <2>2, <2>3, <3>1
    <2>5. buf.cells[x].of = i
      <3>1. Code[buf.base + x - 1] = CellAt(x)
        BY <2>4, CodeAt
      <3>2. CellAt(x).of = buf.cells[x].of
        BY DEF CellAt
      <3> QED
        BY <1>2, <2>1, <2>4, <3>1, <3>2
    <2>6. PICK j \in 1 .. n : x \in st[j] + 1 .. st[j + 1]
      <3>1. Layout(s, n, st, n + 1) /\ (n + 1) - 1 = n
        BY <1>1 DEF Finished
      <3> QED
        BY <1>1, <2>4, <3>1, EveryCell
    <2>7. PICK g, y : g = st[j + 1] /\ y = g - Size(s[j])
      OBVIOUS
    <2>8. /\ g \in Nat /\ y \in Int /\ x \in Nat /\ st[j] \in Nat
          /\ \A u \in st[j] + 1 .. y : buf.cells[u].of = 0
          /\ \A u \in y + 1 .. g : buf.cells[u].of = ops[s[j]].item
      <3>1. /\ g \in Nat /\ y \in Int /\ x \in Nat /\ st[j] \in Nat
        BY <1>1, <2>4, <2>7
      <3>2. Block(buf.cells, s[j], st[j], g)
        BY <1>1, <2>7
      <3>3. /\ \A u \in st[j] + 1 .. y : buf.cells[u].of = 0
            /\ \A u \in y + 1 .. g : buf.cells[u].of = ops[s[j]].item
        BY <2>7, <3>2 DEF Block
      <3> QED
        BY <3>1, <3>3
    <2>9. x \notin st[j] + 1 .. y
      BY <2>5, <2>8
    <2>10. x \in y + 1 .. g
      BY <2>6, <2>7, <2>8, <2>9
    <2>11. ops[s[j]].item = i
      BY <2>5, <2>8, <2>10
    <2>12. j = k
      <3>1. \A w \in 1 .. n : ops[s[w]].item \in Nat
        BY <1>1 DEF Op
      <3>2. ops[s[j]].item = ops[s[k]].item /\ ops[s[k]].item # 0
        BY <2>11 DEF At
      <3> QED
        BY <1>1, <3>1, <3>2, OneOp
    <2>13. x \in f - z + 1 .. f
      BY <1>2, <2>7, <2>10, <2>12
    <2> QED
      BY <1>3, <1>4, <2>4, <2>13
  <1> HIDE DEF C
  <1>7. (CHOOSE a \in C : \A b \in C : a <= b) = p
    <2> DEFINE m == CHOOSE a \in C : \A b \in C : a <= b
    <2>1. m \in C /\ \A b \in C : m <= b
      BY <1>5, <1>6
    <2>2. m <= p /\ p <= m /\ m \in Int /\ p \in Int
      BY <1>5, <1>6, <2>1
    <2> HIDE DEF m
    <2>3. m = p
      BY <2>2
    <2> QED
      BY <2>3 DEF m
  <1> QED
    BY <1>3, <1>4, <1>5, <1>7 DEF C

(* When addresses are final, the code is finished.                         *)
LEMMA FinishedAtEnd ==
    ASSUME ListIInv, KeptInv, LayoutInv, pass = "addresses", cur = 0
    PROVE  buf.base \in Pages /\ \E s, n, st : Finished(s, n, st)
  <1>1. PICK n, s, st, a : Addressing(n, s, st, a)
    BY DEF LayoutInv
  <1>2. Listed(s, n)
    BY <1>1, ListedNow DEF Addressing
  <1>3. a = n + 1
    <2>1. n \in Nat /\ \A j \in 1 .. n : s[j] \in Ids
      BY <1>2, ListedFacts
    <2>2. a \in 1 .. n + 1 /\ cur = IF a <= n THEN s[a] ELSE 0
      BY <1>1 DEF Addressing
    <2>3. ~(a <= n)
      BY <2>1, <2>2, StartFacts
    <2> QED
      BY <2>1, <2>2, <2>3
  <1>4. Present
    BY DEF KeptInv, Kept
  <1>5. Finished(s, n, st)
    BY <1>1, <1>2, <1>3, <1>4 DEF Addressing, Finished
  <1> QED
    BY <1>5 DEF LayoutInv

(* The addresses at which the program finds what it uses.                  *)
LEMMA PlacesAtEnd ==
    ASSUME NEW s, NEW n, NEW st, Finished(s, n, st), AssignFunctions
    PROVE  Image' = Code /\ Places(s, n, st, [i \in Reached(source') |-> PlaceOf(i)'])
  <1>1. /\ pass' = "done" /\ UNCHANGED <<source, ops, next, prev, alive, buf>>
        /\ placed' = [i \in {ops[o].item : o \in Prologs} |-> buf.base + ops[OpOf(i)].pos]
    BY DEF AssignFunctions, Goto, list
  <1>2. Image' = Code
    BY <1>1 DEF Image, Code, CellAt, Ip
  <1>3. /\ n \in Nat /\ ops \in [Ids -> Op] /\ Ordered(s, n) /\ Path(s, n, alive, next, prev)
        /\ \A o \in alive : Core(o)
        /\ \A w \in 1 .. n : s[w] \in alive /\ s[w] \in Ids /\ Noted(s[w], st[w], st[w + 1])
        /\ buf.base \in Nat /\ \A w \in 1 .. n : st[w + 1] \in Nat
    BY FinishedFacts
  <1>4. ASSUME NEW i \in Reached(source), NEW k \in 1 .. n, At(s, k, i)
        PROVE  PlaceOf(i)' = Place(s, st, k)
    <2>1. i \in Nat \ {0} /\ i \in DOMAIN source
      BY OpIsThere
    <2>2. ASSUME NEW o \in alive, ops[o].item = i PROVE o = s[k]
      <3>1. PICK j \in 1 .. n : o = s[j]
        BY <1>3 DEF Path
      <3>2. \A w \in 1 .. n : ops[s[w]].item \in Nat
        BY <1>3 DEF Op
      <3>3. ops[s[j]].item = ops[s[k]].item /\ ops[s[k]].item # 0
        BY <1>4, <2>1, <2>2, <3>1 DEF At
      <3>4. j = k
        BY <1>3, <3>2, <3>3, OneOp
      <3> QED
        BY <3>1, <3>4
    <2>3. DOMAIN placed' = {ops[o].item : o \in Prologs}
      BY <1>1
    <2>4. CASE source[i].kind = "PROLOG"
      <3>1. s[k] \in Prologs /\ ops[s[k]].item = i
        BY <1>3, <1>4, <2>4 DEF Prologs, At
      <3>2. i \in DOMAIN placed' /\ placed'[i] = buf.base + ops[OpOf(i)].pos
        <4>1. i \in {ops[o].item : o \in Prologs}
          BY <3>1
        <4> QED
          BY <1>1, <4>1
      <3>3. OpOf(i) = s[k]
        <4>1. OpOf(i) \in alive /\ ops[OpOf(i)].item = i
          BY <1>3, <3>1 DEF OpOf
        <4> QED
          BY <2>2, <4>1
      <3>4. ops[s[k]].pos = st[k + 1] - ops[s[k]].n /\ Size(s[k]) = ops[s[k]].n
        BY <1>3, <1>4, <2>4 DEF Noted, At
      <3>5. placed'[i] = Place(s, st, k)
        <4>1. Size(s[k]) \in Nat
          BY <1>4 DEF At
        <4> QED
          BY <1>3, <3>2, <3>3, <3>4, <4>1 DEF Place
      <3>6. PlaceOf(i)' = placed'[i]
        BY <3>2 DEF PlaceOf
      <3> QED
        BY <3>5, <3>6
    <2>5. CASE source[i].kind # "PROLOG"
      <3>1. i \notin DOMAIN placed'
        <4> SUFFICES ASSUME NEW o \in Prologs, ops[o].item = i PROVE FALSE
          BY <2>3
        <4>1. o = s[k] /\ ops[o].kind = "PROLOG"
          BY <2>2 DEF Prologs
        <4> QED
          BY <1>4, <2>5, <4>1 DEF At
      <3> DEFINE C == {a \in DOMAIN Code : Code[a].of = i}
      <3>2. CellsOf(i)' = C
        BY <1>2 DEF CellsOf
      <3>3. C # {} /\ (CHOOSE a \in C : \A b \in C : a <= b) = Place(s, st, k)
        BY <1>4, <2>1, FirstCell
      <3> HIDE DEF C
      <3>4. PlaceOf(i)' = CHOOSE a \in C : \A b \in C : a <= b
        BY <3>1, <3>2, <3>3 DEF PlaceOf
      <3> QED
        BY <3>3, <3>4
    <2> QED
      BY <2>4, <2>5
  <1> DEFINE pl == [i \in Reached(source') |-> PlaceOf(i)']
  <1>5. DOMAIN pl = Reached(source) /\ \A i \in Reached(source) : pl[i] = PlaceOf(i)'
    BY <1>1
  <1> HIDE DEF pl
  <1>6. Places(s, n, st, pl)
    BY <1>4, <1>5 DEF Places
  <1> QED
    BY <1>2, <1>6 DEF pl

(* The program gets what Assembly promises.                                *)
LEMMA FaithfulAtEnd ==
    ASSUME MemoryAligned, \A p \in Programs : TransfersReached(p) /\ Direct(p),
           ListIInv, KeptInv, LayoutInv, AssignFunctions
    PROVE  Promise!Faithful(source, [i \in Reached(source') |-> PlaceOf(i)'], Image')
  <1>1. pass = "addresses" /\ cur = 0 /\ source \in Programs
    BY DEF AssignFunctions, ListIInv, ListInv, ListTyped
  <1>2. buf.base \in Pages /\ \E s, n, st : Finished(s, n, st)
    BY <1>1, FinishedAtEnd
  <1>3. PICK s, n, st : Finished(s, n, st)
    BY <1>2
  <1>4. PICK pl : pl = [i \in Reached(source') |-> PlaceOf(i)']
    OBVIOUS
  <1>5. Image' = Code /\ Places(s, n, st, pl)
    BY <1>3, <1>4, PlacesAtEnd
  <1>6. Promise!Faithful(source, pl, Code)
    BY <1>1, <1>2, <1>3, <1>5, FaithfulNow
  <1> QED
    BY <1>4, <1>5, <1>6

-----------------------------------------------------------------------------
(* Every step is one of Assembly.                                          *)

LEMMA PromiseInit ==
    ASSUME Init
    PROVE  Promise!Init
  <1>1. pass = "build" /\ alive = {CODESTART} /\ \A o \in Ids : ops[o].item = 0
    BY DEF Init, NewOp
  <1>2. Added = 0
    <2>1. {o \in alive : ops[o].item # 0} = {}
      BY <1>1, StartFacts
    <2> QED
      BY <2>1, FS_EmptySet DEF Added
  <1>3. SubSeq(source, 1, Added) = <<>>
    <2>1. source \in Seq(Item)
      BY ProgramFacts DEF Init
    <2> QED
      BY <1>2, <2>1
  <1>4. Image = <<>>
    BY <1>1 DEF Image
  <1> QED
    BY <1>1, <1>3, <1>4 DEF Promise!Init

LEMMA AddedFacts ==
    ASSUME ListIInv, pass = "build"
    PROVE  Added \in Nat /\ Added <= Len(source) /\ source \in Programs
  <1>1. ListTyped /\ ops[CODESTART].kind = "CODESTART"
    BY DEF ListIInv, ListInv
  <1>2. PICK n, s : Path(s, n, alive, next, prev) /\ Building(s, n)
    BY DEF ListIInv, ListInv, Shape
  <1>3. Added = n - 1 /\ n \in Nat \ {0}
    BY <1>1, <1>2, BuildingFacts DEF Path
  <1> QED
    BY <1>1, <1>2, <1>3 DEF Building, ListTyped

LEMMA AddedMore ==
    ASSUME ListIInv, ListIInv', AddOp
    PROVE  Added' = Added + 1
  <1>1. pass = "build" /\ pass' = "build"
    BY DEF AddOp
  <1>2. Added \in Nat /\ ops \in [Ids -> Op] /\ alive \subseteq Ids
    BY <1>1, AddedFacts DEF ListIInv, ListInv, ListTyped
  <1>3. PICK new, x :
          /\ new \in Ids \ alive
          /\ ops' = [ops EXCEPT ![new] = x] /\ x.item # 0 /\ alive' = alive \cup {new}
    <2> DEFINE i == Added + 1
               x == NewOp(source[i].kind, i, ArgOf(i), source[i].n)
    <2>1. PICK new \in Ids \ alive : ops' = [ops EXCEPT ![new] = x] /\ alive' = alive \cup {new}
      BY DEF AddOp, Obtainable
    <2>2. x.item # 0
      BY <1>2 DEF NewOp
    <2> HIDE DEF x
    <2> QED
      BY <2>1, <2>2
  <1> DEFINE S == {o \in alive : ops[o].item # 0}
  <1>4. {o \in alive' : ops'[o].item # 0} = S \cup {new}
    BY <1>2, <1>3
  <1>5. IsFiniteSet(S) /\ new \notin S
    <2>1. S \subseteq Ids
      BY <1>2
    <2> QED
      BY <1>3, <2>1, IdsAssumption, FS_Subset
  <1> HIDE DEF S
  <1>6. Cardinality(S \cup {new}) = Cardinality(S) + 1
    BY <1>5, FS_AddElement
  <1>7. Added = Cardinality(S) /\ Added' = Cardinality(S \cup {new})
    BY <1>4 DEF Added, S
  <1> QED
    BY <1>6, <1>7

LEMMA PromiseAdd ==
    ASSUME ListIInv, ListIInv', AddOp
    PROVE  Promise!Add
  <1>1. pass = "build" /\ pass' = "build" /\ source' = source /\ Added < Len(source)
    BY DEF AddOp
  <1>2. Added \in Nat /\ source \in Programs /\ Added' = Added + 1
    BY <1>1, AddedFacts, AddedMore
  <1>3. source \in Seq(Item) /\ Len(source) \in Nat
    BY <1>2, ProgramFacts
  <1>4. Len(SubSeq(source, 1, Added)) = Added
    BY <1>1, <1>2, <1>3
  <1>5. Image = <<>> /\ Image' = <<>>
    BY <1>1 DEF Image
  <1>6. PICK p, q : p = SubSeq(source, 1, Added) /\ q = SubSeq(source, 1, Added + 1)
    OBVIOUS
  <1>7. Len(p) < Len(source) /\ q = SubSeq(source, 1, Len(p) + 1)
    BY <1>1, <1>4, <1>6
  <1>8. /\ (IF pass = "build" THEN SubSeq(source, 1, Added) ELSE source) = p
        /\ (IF pass = "build" THEN SubSeq(source, 1, Added) ELSE source)' = q
    BY <1>1, <1>2, <1>6
  <1> QED
    BY <1>1, <1>2, <1>5, <1>7, <1>8 DEF Promise!Add

LEMMA PromiseGenerate ==
    ASSUME MemoryAligned, \A p \in Programs : TransfersReached(p) /\ Direct(p),
           ListIInv, KeptInv, LayoutInv, AssignFunctions
    PROVE  Promise!Generate
  <1>1. pass = "addresses" /\ pass' = "done" /\ source' = source /\ source \in Programs
    BY DEF AssignFunctions, Goto, ListIInv, ListInv, ListTyped
  <1>2. Promise!Faithful(source, [i \in Reached(source') |-> PlaceOf(i)'], Image')
    BY FaithfulAtEnd
  <1>3. Image = <<>>
    BY <1>1 DEF Image
  <1>4. (IF pass = "done" THEN [i \in Reached(source) |-> PlaceOf(i)] ELSE <<>>)'
           = [i \in Reached(source') |-> PlaceOf(i)']
    BY <1>1
  <1> QED
    BY <1>1, <1>2, <1>3, <1>4 DEF Promise!Generate

LEMMA PromiseFree ==
    ASSUME ListIInv, FreeAndInit
    PROVE  Promise!Free
  <1>1. Init'
    BY FreeStep DEF ListIInv
  <1>2. Init' => Promise!Init'
    BY PromiseInit, PTL
  <1> QED
    BY <1>1, <1>2 DEF Promise!Init, Promise!Free

(* What is not the program's doing goes unseen.                            *)
LEMMA Unseen ==
    ASSUME source' = source,
           \/ /\ pass \notin {"build", "done"} /\ pass' \notin {"build", "done"}
           \/ /\ pass = "build" /\ pass' = "spills" /\ Added = Len(source) /\ source \in Programs
    PROVE  UNCHANGED Promise!vars
  <1>1. Image = <<>> /\ Image' = <<>> /\ pass # "done" /\ pass' # "done" /\ pass' # "build"
    BY DEF Image
  <1>2. (IF pass = "build" THEN SubSeq(source, 1, Added) ELSE source) = source
    <2>1. CASE pass = "build"
      <3>1. source \in Seq(Item) /\ Added = Len(source)
        BY <2>1, ProgramFacts
      <3> QED
        BY <2>1, <3>1
    <2>2. CASE pass # "build"
      BY <2>2
    <2> QED
      BY <2>1, <2>2
  <1>3. (IF pass = "build" THEN SubSeq(source, 1, Added) ELSE source)' = source
    BY <1>1
  <1> QED
    BY <1>1, <1>2, <1>3 DEF Promise!vars

LEMMA PromiseStep ==
    ASSUME MemoryAligned, \A p \in Programs : TransfersReached(p) /\ Direct(p),
           ListIInv, ListIInv', KeptInv, LayoutInv, [Next]_vars
    PROVE  [Promise!Next]_(Promise!vars)
  <1>1. CASE AddOp
    BY <1>1, PromiseAdd DEF Promise!Next
  <1>2. CASE ExpandPatchesAndLabels
    <2>1. /\ source' = source /\ pass = "build" /\ pass' = "spills"
          /\ Added = Len(source) /\ source \in Programs
      BY <1>2 DEF ExpandPatchesAndLabels, Goto, ListIInv, ListInv, ListTyped
    <2> QED
      BY <2>1, Unseen
  <1>3. CASE \/ PrepareSpill \/ NoSpill \/ MarkLiveCode \/ DeleteOp \/ KeepOp \/ Swept
             \/ AdjustBranch \/ LeaveBranch \/ AllocateBuffer
    <2>1. /\ source' = source
          /\ pass \notin {"build", "done"} /\ pass' \notin {"build", "done"}
      BY <1>3 DEF PrepareSpill, NoSpill, MarkLiveCode, DeleteOp, KeepOp, Swept,
                  AdjustBranch, LeaveBranch, AllocateBuffer, Goto
    <2> QED
      BY <2>1, Unseen
  <1>4. CASE CheckRoom \/ RoomForData \/ Emit \/ Move \/ PatchLocalAddr
    <2>1. /\ source' = source
          /\ pass \notin {"build", "done"} /\ pass' \notin {"build", "done"}
      BY <1>4 DEF CheckRoom, RoomForData, Emit, Move, PatchLocalAddr, Goto
    <2> QED
      BY <2>1, Unseen
  <1>5. CASE AssignFunctions
    BY <1>5, PromiseGenerate DEF Promise!Next
  <1>6. CASE FreeAndInit
    BY <1>6, PromiseFree DEF Promise!Next
  <1>7. CASE UNCHANGED vars
    <2>1. UNCHANGED <<source, pass, ops, alive, buf, placed>>
      BY <1>7 DEF vars
    <2>2. Added' = Added
      BY <2>1 DEF Added
    <2>3. Image' = Image
      BY <2>1 DEF Image, CellAt, Ip
    <2>4. \A i : PlaceOf(i)' = PlaceOf(i)
      BY <2>1, <2>3 DEF PlaceOf, CellsOf
    <2>5. [i \in Reached(source) |-> PlaceOf(i)]' = [i \in Reached(source) |-> PlaceOf(i)]
      BY <2>1, <2>4
    <2> QED
      BY <2>1, <2>2, <2>3, <2>5 DEF Promise!vars
  <1> QED
    BY <1>1, <1>2, <1>3, <1>4, <1>5, <1>6, <1>7 DEF Next

-----------------------------------------------------------------------------
(* What dead-code removal leaves of the list, and what branch_adjustment   *)
(* makes of it, is what the emitter needs: KeptInv.                        *)
THEOREM ListStaysUsable ==
    ASSUME \A p \in Programs : PatchedIsReached(p) /\ TransfersReached(p)
    PROVE  Spec => []KeptInv
  <1>1. Init => PatchInv /\ SpillInv /\ KeptInv
    BY SpillInit DEF Init, PatchInv, KeptInv
  <1>2. ListIInv /\ ListIInv' /\ PatchInv /\ SpillInv /\ KeptInv /\ [Next]_vars =>
          (PatchInv' /\ SpillInv' /\ KeptInv') \/ Init'
    BY PatchStep, SpillStep, KeptStep
  <1> QED
    BY <1>1, <1>2, ListIsInductive, PTL DEF Spec

(* Where code is written, moved and patched, every operation lies where    *)
(* the others take it to be: LayoutInv.                                    *)
THEOREM CodeStaysLaidOut ==
    ASSUME MemoryAligned, \A p \in Programs : PatchedIsReached(p) /\ TransfersReached(p)
    PROVE  Spec /\ [][LoopStays]_vars => []LayoutInv
  <1>1. Init => LayoutInv
    BY DEF Init, LayoutInv
  <1>2. ListIInv /\ KeptInv /\ LayoutInv /\ [Next]_vars /\ [LoopStays]_vars => LayoutInv' \/ Init'
    <2> SUFFICES ASSUME ListIInv, KeptInv, LayoutInv, [Next]_vars, [LoopStays]_vars
                 PROVE  LayoutInv' \/ Init'
      OBVIOUS
    <2>1. LoopStays
      BY DEF LoopStays, vars
    <2> QED
      BY <2>1, LayoutStep
  <1> QED
    BY <1>1, <1>2, ListIsInductive, ListStaysUsable, PTL DEF Spec

(* jit_generate_code makes of any program code in which every operation    *)
(* that is reached goes on, jumps, calls and refers to where the program   *)
(* said: Implements, when the buffer does not move within a transfer.      *)
THEOREM CodeIsFaithful ==
    ASSUME MemoryAligned,
           \A p \in Programs : PatchedIsReached(p) /\ TransfersReached(p) /\ Direct(p)
    PROVE  Spec /\ [][LoopStays]_vars => Implements
  <1>1. Init => Promise!Init
    BY PromiseInit
  <1>2. ListIInv /\ ListIInv' /\ KeptInv /\ LayoutInv /\ [Next]_vars => [Promise!Next]_(Promise!vars)
    BY PromiseStep
  <1>3. \A p \in Programs : PatchedIsReached(p) /\ TransfersReached(p)
    OBVIOUS
  <1>4. Spec => []KeptInv
    BY <1>3, ListStaysUsable
  <1>5. Spec /\ [][LoopStays]_vars => []LayoutInv
    BY <1>3, CodeStaysLaidOut
  <1> QED
    BY <1>1, <1>2, <1>4, <1>5, ListIsInductive, PTL
       DEF Spec, Implements, Promise!Spec
=============================================================================
