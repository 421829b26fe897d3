---------------------------- MODULE MCCodeBuffer ----------------------------
(***************************************************************************)
(* Programs for CodeBuffer: all well-formed lists over a few operations,   *)
(* and longer ones that make the buffer grow.  malloc returns multiples of *)
(* 2, pages are multiples of 16; the buffer starts with 8 cells and is to  *)
(* have 4 free ones before an operation.                                   *)
(***************************************************************************)
EXTENDS CodeBuffer

MCIds == 1..14
MCHeap == {2, 36}
MCPages == {64}

It(kind, to, n) == [kind |-> kind, to |-> to, n |-> n]

Prolog == It("PROLOG", 0, 1)
Ret == It("RET", 0, 1)
Label == It("LABEL", 0, 1)
Patch == It("PATCH", 0, 1)
Byte == It("DATA_BYTE", 0, 1)
Bytes(n) == It("DATA_BYTES", 0, n)
Align(n) == It("CODE_ALIGN", 0, n)
Other(n) == It("OTHER", 0, n)
Jmp(t) == It("JMP", t, 2)
Branch(t) == It("BRANCH", t, 3)
Call(t) == It("CALL", t, 2)
RefCode(t) == It("REF_CODE", t, 2)
RefData(t) == It("REF_DATA", t, 2)
DataCode(t) == It("DATA_REF_CODE", t, 1)
DataData(t) == It("DATA_REF_DATA", t, 1)

Control == {Other(2), Ret, Label, Patch} \cup UNION {{Jmp(t), Branch(t)} : t \in 2..5}

Data == {Ret, Label, Patch, Bytes(5)}
          \cup UNION {{RefCode(t), RefData(t), DataCode(t), DataData(t)} : t \in 2..4}

(* The buffer grows, and may move: under a forward and a backward branch,  *)
(* between a call and its target, within data, before the end.             *)
Long ==
    {<<Prolog, Label, Branch(6), Other(3), Branch(2), Patch, Other(4), Ret>>,
     <<Prolog, Ret, Prolog, Label, Other(4), Call(4), Branch(9), Jmp(4), Patch, Ret>>,
     <<Prolog, RefData(6), RefCode(10), Ret, Align(2), Patch, Byte, Align(2), Bytes(17), Patch, Other(1), Ret>>,
     <<Prolog, Label, DataCode(6), DataData(8), Ret, Patch, Ret, Patch, Byte, Bytes(7)>>,
     <<Prolog, It("TRANSFER", 0, 2), It("TRANSFER_CPY", 2, 3), Ret>>,
     <<Prolog, Jmp(5), Byte, Byte, Patch, It("TRANSFER", 0, 2), It("TRANSFER_CPY", 6, 3), Ret>>}

Bodies(items, n) ==
    {s \in [1..n -> items] : LET p == <<Prolog>> \o s IN WellFormed(p) /\ PatchedIsReached(p)}

Family == {<<Prolog>> \o s : s \in Bodies(Control, 4) \cup Bodies(Data, 3)} \cup Long

MCPrograms == Family

(* What the theorems about the code suppose holds of these programs.       *)
ASSUME MCProgramsAssumption ==
    \A p \in MCPrograms : PatchedIsReached(p) /\ TransfersReached(p) /\ Direct(p)

ASSUME MCMemoryAssumption == MemoryAligned

(* A jump nobody can reach, patched as the documentation says. *)
DeadJumps ==
    {<<Prolog, Ret, Jmp(4), Patch, Ret>>,
     <<Prolog, Label, Branch(2), Ret, Jmp(6), Patch, Ret>>}
=============================================================================
