----------------------------- MODULE CodeBuffer -----------------------------
(***************************************************************************)
(* The list of operations and the code buffer: jitlib-core.h,              *)
(* jitlib-core.c and what common86-specific.h has to do with addresses.    *)
(*                                                                         *)
(* Operations are objects of the C heap, linked by next and prev and       *)
(* named by each other; NULL is 0.  The buffer is a sequence of cells: an  *)
(* operation emits one or more, of which the last holds the displacement   *)
(* or the address when it has one.  Memory that was freed keeps its        *)
(* contents until it is given to another operation.                        *)
(***************************************************************************)
EXTENDS Items

CONSTANTS
    Ids,                 \* operations JIT_MALLOC can return
    Heap,                \* addresses it and JIT_REALLOC can return for the buffer
    Pages,               \* addresses mmap can return
    BUF_SIZE,
    MINIMAL_BUF_SPACE,
    PrologAlign          \* what emit_prolog_op aligns functions to

(* NULL is not the address of an operation. *)
ASSUME IdsAssumption == IsFiniteSet(Ids) /\ Ids # {} /\ Ids \subseteq Nat \ {0}
ASSUME AddressesAssumption == Heap \subseteq Nat /\ Pages \subseteq Nat
ASSUME SizesAssumption ==
    /\ BUF_SIZE \in Nat
    /\ MINIMAL_BUF_SPACE \in 2..BUF_SIZE
    /\ PrologAlign \in Nat \ {0}

VARIABLES
    source,      \* the calls the program makes
    pass,        \* where jit_generate_code is
    cur,         \* its op
    ops,         \* the operations, by id: arguments, jmp_addr, in_use, ...
    next, prev,  \* the links of the list
    alive,       \* the ids that are allocated
    last_op,
    buf,         \* the buffer: base, capacity, and what is in it
    placed       \* the values of the function pointers of the program

vars == <<source, pass, cur, ops, next, prev, alive, last_op, buf, placed>>
list == <<next, prev, alive>>

(***************************************************************************)
(* arg: the operation a PATCH or TRANSFER_CPY names, or a label; for jumps *)
(* and references 0 is JIT_FORWARD.  item is the call that made the        *)
(* operation (0: made by the compiler); pos is patch_addr, or the pos of a *)
(* label; fixed is what PATCH left in the argument of a reference, -1      *)
(* before; loop_addr is that of the addendum of a TRANSFER.                *)
(***************************************************************************)
NewOp(kind, item, arg, n) ==
    [kind |-> kind, item |-> item, arg |-> arg, n |-> n, jmp_addr |-> 0, in_use |-> TRUE,
     turned |-> FALSE, pos |-> 0, fixed |-> -1, loop_addr |-> 0]

IsLabel(o) == o # 0 /\ ops[o].kind = "LABEL"

Refs == {"REF_CODE", "REF_DATA"}
DataRefs == {"DATA_REF_CODE", "DATA_REF_DATA"}

(***************************************************************************)
(* What malloc may return for an operation: memory that was freed, or      *)
(* memory never used before, which is all alike.                           *)
(***************************************************************************)
Unused == {o \in Ids \ alive : ops[o].kind = "CODESTART"}

Obtainable ==
    {o \in Ids \ alive : o \in Unused => \A k \in Unused : o <= k}

-----------------------------------------------------------------------------
(* The list.                                                               *)

(* jit_op_append *)
LinkAfter(o, new) ==
    /\ next' = [next EXCEPT ![o] = new, ![new] = next[o]]
    /\ prev' = [k \in Ids |-> IF k = new THEN o ELSE IF k = next[o] THEN new ELSE prev[k]]

(* Slip: the operation before it keeps its next. *)
LinkBeforeOnlyBack(o, new) ==
    /\ prev' = [prev EXCEPT ![o] = new, ![new] = prev[o]]
    /\ next' = [next EXCEPT ![new] = o]

(* jit_op_prepend *)
LinkBefore(o, new) ==
    /\ prev' = [prev EXCEPT ![o] = new, ![new] = prev[o]]
    /\ next' = [k \in Ids |-> IF k = new THEN o ELSE IF k = prev[o] THEN new ELSE next[k]]

(* jit_op_delete *)
Unlink(o) ==
    /\ next' = [next EXCEPT ![prev[o]] = next[o]]
    /\ prev' = [k \in Ids |-> IF k = next[o] THEN prev[o] ELSE prev[k]]

First == CHOOSE o \in alive : prev[o] = 0

CODESTART == CHOOSE o \in Ids : \A k \in Ids : o <= k

-----------------------------------------------------------------------------
Init ==
    /\ source \in Programs
    /\ pass = "build"
    /\ cur = 0
    /\ ops = [o \in Ids |-> NewOp("CODESTART", 0, 0, 1)]
    /\ next = [o \in Ids |-> 0]
    /\ prev = [o \in Ids |-> 0]
    /\ alive = {CODESTART}
    /\ last_op = CODESTART
    /\ buf = [base |-> 0, capacity |-> 0, cells |-> <<>>]
    /\ placed = <<>>

(* How many calls the program has made. *)
Added == Cardinality({o \in alive : ops[o].item # 0})

OpOf(i) == CHOOSE o \in alive : ops[o].item = i

(* The pointer an operation is given: labels lie behind; what a PATCH      *)
(* names is the operation that is to jump to it.                           *)
ArgOf(i) ==
    IF source[i].kind = "PATCH"
    THEN OpOf(CHOOSE k \in 1..i - 1 : source[k].to = i)
    ELSE IF source[i].to \in 1..i - 1 THEN OpOf(source[i].to) ELSE 0

(* jit_add_op, jit_get_label, jit_add_prolog, jit_data_bytes *)
AddOp ==
    /\ pass = "build"
    /\ Added < Len(source)
    /\ \E new \in Obtainable :
        LET i == Added + 1
        IN /\ ops' = [ops EXCEPT ![new] = NewOp(source[i].kind, i, ArgOf(i), source[i].n)]
           /\ LinkAfter(last_op, new)
           /\ alive' = alive \cup {new}
           /\ last_op' = new
    /\ UNCHANGED <<source, pass, cur, buf, placed>>

Goto(p, o) == pass' = p /\ cur' = o

(* jit_expand_patches_and_labels *)
ExpandPatchesAndLabels ==
    /\ pass = "build"
    /\ Added = Len(source)
    /\ ops' = [o \in Ids |->
         LET patches == {k \in alive : ops[k].kind = "PATCH" /\ ops[k].arg = o}
         IN [ops[o] EXCEPT !.jmp_addr =
               IF o \in alive /\ ops[o].kind # "LABEL" /\ IsLabel(ops[o].arg) THEN ops[o].arg
               ELSE IF patches # {} THEN CHOOSE k \in patches : TRUE
               ELSE 0]]
    /\ Goto("spills", First)
    /\ UNCHANGED <<source, list, last_op, buf, placed>>

(* jit_prepare_spills_on_jmpr_targets *)
PrepareSpill ==
    /\ pass = "spills"
    /\ cur # 0
    /\ ops[cur].kind \in {"REF_CODE", "DATA_REF_CODE"}
    /\ \E new \in Obtainable :
        /\ ops' = [ops EXCEPT ![new] = NewOp("FULL_SPILL", 0, 0, 1)]
        /\ LinkBefore(ops[cur].jmp_addr, new)
        /\ alive' = alive \cup {new}
    /\ Goto("spills", next[cur])
    /\ UNCHANGED <<source, last_op, buf, placed>>

NoSpill ==
    /\ pass = "spills"
    /\ cur # 0
    /\ ops[cur].kind \notin {"REF_CODE", "DATA_REF_CODE"}
    /\ Goto("spills", next[cur])
    /\ UNCHANGED <<source, ops, list, last_op, buf, placed>>

(***************************************************************************)
(* mark_livecode from the PROLOGs and from the code data refers to (that   *)
(* it marks exactly what they lead to is the theorem Exactness of          *)
(* DeadCodeProofs).                                                        *)
(***************************************************************************)
Marked ==
    LET Roots == {o \in alive : ops[o].kind = "PROLOG"}
                   \cup {ops[o].jmp_addr : o \in {k \in alive : ops[k].kind = "DATA_REF_CODE"}}
        Onward(S) == {next[o] : o \in {k \in S : ops[k].kind \notin {"RET", "JMP"}}}
                       \cup {ops[o].jmp_addr : o \in S}
        marks[n \in 0..Cardinality(Ids)] ==
            IF n = 0 THEN Roots ELSE LET S == marks[n - 1] IN S \cup (Onward(S) \ {0})
    IN marks[Cardinality(Ids)]

Directives == {"CODESTART", "DATA_BYTE", "DATA_REF_CODE", "DATA_REF_DATA", "CODE_ALIGN",
               "LABEL", "PATCH"}

(* The marking loops of jit_dead_code_analysis; JIT_OPT_DEAD_CODE may be   *)
(* turned off.                                                             *)
MarkLiveCode ==
    /\ pass = "spills"
    /\ cur = 0
    /\ \/ /\ ops' = [o \in Ids |->
               IF o \in alive
               THEN [ops[o] EXCEPT !.in_use = o \in Marked \/ ops[o].kind \in Directives]
               ELSE ops[o]]
          /\ Goto("delete", First)
       \/ Goto("branches", First) /\ UNCHANGED ops
    /\ UNCHANGED <<source, list, last_op, buf, placed>>

(* Slip: the loop goes on with the operation it deleted. *)
DeleteOpAndStay ==
    /\ pass = "delete"
    /\ cur # 0
    /\ ~ops[cur].in_use
    /\ ops[cur].kind # "FULL_SPILL"
    /\ Unlink(cur)
    /\ alive' = alive \ {cur}
    /\ UNCHANGED <<source, pass, cur, ops, last_op, buf, placed>>

DeleteOp ==
    /\ pass = "delete"
    /\ cur # 0
    /\ ~ops[cur].in_use
    /\ ops[cur].kind # "FULL_SPILL"
    /\ Unlink(cur)
    /\ alive' = alive \ {cur}
    /\ Goto("delete", next[cur])
    /\ UNCHANGED <<source, ops, last_op, buf, placed>>

KeepOp ==
    /\ pass = "delete"
    /\ cur # 0
    /\ ops[cur].in_use \/ ops[cur].kind = "FULL_SPILL"
    /\ Goto("delete", next[cur])
    /\ UNCHANGED <<source, ops, list, last_op, buf, placed>>

Swept ==
    /\ pass = "delete"
    /\ cur = 0
    /\ Goto("branches", First)
    /\ UNCHANGED <<source, ops, list, last_op, buf, placed>>

-----------------------------------------------------------------------------
(* Slip: the PATCH still names the branch. *)
TurnedOpsOldPatch(b, jump, patch) ==
    [ops EXCEPT
       ![jump] = [NewOp("JMP", 0, ops[b].arg, 2) EXCEPT !.jmp_addr = ops[b].jmp_addr],
       ![patch] = NewOp("PATCH", 0, b, 1),
       ![b].turned = TRUE, ![b].arg = patch, ![b].jmp_addr = patch]

(***************************************************************************)
(* branch_adjustment for a branch whose maps differ: it is turned around   *)
(* and leads to a PATCH behind a new jump, which takes over its target.    *)
(***************************************************************************)
TurnedOps(b, jump, patch) ==
    LET target == ops[b].jmp_addr
        turned == TurnedOpsOldPatch(b, jump, patch)
    IN IF IsLabel(ops[b].arg) THEN turned ELSE [turned EXCEPT ![target].arg = jump]

AdjustBranch ==
    /\ pass = "branches"
    /\ cur # 0
    /\ ops[cur].kind = "BRANCH"
    /\ \E jump \in Obtainable :
       \E patch \in (Obtainable \cup {o \in Unused : o = jump + 1}) \ {jump} :
        /\ ops' = TurnedOps(cur, jump, patch)
        /\ next' = [next EXCEPT ![cur] = jump, ![jump] = patch, ![patch] = next[cur]]
        /\ prev' = [k \in Ids |-> CASE k = jump -> cur
                                    [] k = patch -> jump
                                    [] k = next[cur] -> patch
                                    [] OTHER -> prev[k]]
        /\ alive' = alive \cup {jump, patch}
        /\ Goto("branches", jump)
    /\ UNCHANGED <<source, last_op, buf, placed>>

(* Not a branch, or one whose maps agree. *)
LeaveBranch ==
    /\ pass = "branches"
    /\ cur # 0
    /\ Goto("branches", next[cur])
    /\ UNCHANGED <<source, ops, list, last_op, buf, placed>>

(* JIT_MALLOC of the buffer *)
AllocateBuffer ==
    /\ pass = "branches"
    /\ cur = 0
    /\ \E a \in Heap : buf' = [base |-> a, capacity |-> BUF_SIZE, cells |-> <<>>]
    /\ Goto("room", CODESTART)
    /\ UNCHANGED <<source, ops, list, last_op, placed>>

-----------------------------------------------------------------------------
(* The emitter.                                                            *)

Ip == buf.base + Len(buf.cells)

Free == buf.capacity - Len(buf.cells)

(* jit_buf_expand; the contents are copied, the address may be another. *)
Expand == \E a \in Heap : buf' = [buf EXCEPT !.base = a, !.capacity = 2 * @]

(* Slip: the test is for an empty rest. *)
CheckRoomWhenFull ==
    /\ pass = "room"
    /\ cur # 0
    /\ IF Free = 0 THEN Expand ELSE UNCHANGED buf
    /\ Goto("emit", cur)
    /\ UNCHANGED <<source, ops, list, last_op, placed>>

(* The test before each operation. *)
CheckRoom ==
    /\ pass = "room"
    /\ cur # 0
    /\ IF Free < MINIMAL_BUF_SPACE THEN Expand ELSE UNCHANGED buf
    /\ Goto("emit", cur)
    /\ UNCHANGED <<source, ops, list, last_op, placed>>

(* The while loop before a block of bytes. *)
NeedsRoom == ops[cur].kind = "DATA_BYTES" /\ Free < ops[cur].n

RoomForData ==
    /\ pass = "emit"
    /\ NeedsRoom
    /\ Expand
    /\ UNCHANGED <<source, pass, cur, ops, list, last_op, placed>>

(* c is what the emitter wrote there, d a displacement or an address. *)
Cell(item, c, d, turned) == [of |-> item, c |-> c, d |-> d, turned |-> turned]

Plain(item, n) == [k \in 1..n |-> Cell(item, "code", 0, FALSE)]

Fill(alignment) ==
    LET missing == CHOOSE k \in 0..alignment - 1 : (Ip + k) % alignment = 0
    IN Plain(0, missing)

(* JIT_GET_ADDR: relative to the end of an instruction of two cells at pa, *)
(* or a pointer of no meaning, to be patched. *)
Displacement(o, pa) == IF IsLabel(ops[o].arg) THEN ops[ops[o].arg].pos - (pa + 2) ELSE 0

(* op->patch_addr: a branch compares first. *)
PatchAddr(o) == Len(buf.cells) + ops[o].n - 2

Jump(o) ==
    Plain(ops[o].item, ops[o].n - 2)
      \o <<Cell(ops[o].item, "jump", 0, ops[o].turned),
           Cell(ops[o].item, "disp", Displacement(o, PatchAddr(o)), ops[o].turned)>>

Write(cells) == buf' = [buf EXCEPT !.cells = @ \o cells]

EmitNothing == UNCHANGED <<ops, buf>>

EmitProlog(o) ==
    LET fill == Fill(PrologAlign)
    IN /\ Write(fill \o Plain(ops[o].item, ops[o].n))
       /\ ops' = [ops EXCEPT ![o].pos = Len(buf.cells) + Len(fill)]

EmitJump(o) == Write(Jump(o)) /\ ops' = [ops EXCEPT ![o].pos = PatchAddr(o)]

EmitLabel(o) == ops' = [ops EXCEPT ![o].pos = Len(buf.cells)] /\ UNCHANGED buf

(* mov of a constant, or the constant alone *)
RefCells(o, address) ==
    Plain(ops[o].item, ops[o].n - 1) \o <<Cell(ops[o].item, "addr", address, FALSE)>>

(* The address comes later. *)
EmitRef(o) ==
    /\ Write(RefCells(o, 0))
    /\ ops' = [ops EXCEPT ![o].pos = Len(buf.cells)]

(* common86_patch: the displacement of the jump at pa leads to offset to.  *)
Patched(cells, pa, to) == [cells EXCEPT ![pa + 2].d = to - (pa + 2)]

EmitPatch(o) ==
    LET t  == ops[o].arg
        pa == ops[t].pos
    IN IF ~ops[t].in_use THEN EmitNothing
       ELSE IF ops[t].kind \in Refs \cup DataRefs
       THEN ops' = [ops EXCEPT ![t].fixed = Len(buf.cells)] /\ UNCHANGED buf
       ELSE /\ pa + 2 \in DOMAIN buf.cells   \* otherwise it writes elsewhere
            /\ buf.cells[pa + 1].c = "jump"   \* otherwise it stops at assert(0)
            /\ buf' = [buf EXCEPT !.cells = Patched(@, pa, Len(@))]
            /\ UNCHANGED ops

(* emit_transfer_init: the loop starts with its last cell. *)
EmitTransfer(o) ==
    /\ Write(Plain(ops[o].item, ops[o].n))
    /\ ops' = [ops EXCEPT ![o].loop_addr = Ip + ops[o].n - 1]

(* emit_transfer_loop *)
EmitTransferLoop(o) ==
    LET size == ops[o].n
        loop == ops[ops[o].arg].loop_addr
    IN /\ Write(Plain(ops[o].item, size - 1)
                  \o <<Cell(ops[o].item, "disp", loop - (Ip + size), FALSE)>>)
       /\ UNCHANGED ops

EmitPlain(cells) == Write(cells) /\ UNCHANGED ops

(* One operation of the emitter's loop: jit_gen_op, and the cases before it. *)
EmitOp(o) ==
    LET kind == ops[o].kind
    IN \/ kind = "PROLOG" /\ EmitProlog(o)
       \/ kind \in {"JMP", "BRANCH", "CALL"} /\ EmitJump(o)
       \/ kind = "LABEL" /\ EmitLabel(o)
       \/ kind = "PATCH" /\ EmitPatch(o)
       \/ kind \in Refs \cup DataRefs /\ EmitRef(o)
       \/ kind = "TRANSFER" /\ EmitTransfer(o)
       \/ kind = "TRANSFER_CPY" /\ EmitTransferLoop(o)
       \/ kind = "CODE_ALIGN" /\ EmitPlain(Fill(ops[o].n))
       \/ kind \in {"OTHER", "RET", "DATA_BYTE", "DATA_BYTES", "FULL_SPILL"}
            /\ EmitPlain(Plain(ops[o].item, ops[o].n))
       \/ kind = "CODESTART" /\ EmitNothing

Emit ==
    /\ pass = "emit"
    /\ ~NeedsRoom
    /\ EmitOp(cur)
    /\ Goto("room", next[cur])
    /\ UNCHANGED <<source, list, last_op, placed>>

-----------------------------------------------------------------------------
(* Slip: the address is the offset in the buffer. *)
AddressOfOffset(o) == IF IsLabel(ops[o].arg) THEN ops[ops[o].arg].pos ELSE ops[o].fixed

(* What jit_patch_local_addrs stores for a reference. *)
AddressOf(o) ==
    buf.base + (IF IsLabel(ops[o].arg) THEN ops[ops[o].arg].pos ELSE ops[o].fixed)

(* mmap, memcpy, free; external calls of AMD64 need no patching *)
Move ==
    /\ pass = "room"
    /\ cur = 0
    /\ \E a \in Pages : buf' = [buf EXCEPT !.base = a]
    /\ Goto("addresses", First)
    /\ UNCHANGED <<source, ops, list, last_op, placed>>

(* code is written over what is in the cells behind offset pa. *)
Overwritten(cells, pa, code) ==
    [k \in DOMAIN cells |-> IF k \in pa + 1 .. pa + Len(code) THEN code[k - pa] ELSE cells[k]]

(* jit_patch_local_addrs: the whole instruction is encoded again.          *)
PatchLocalAddr ==
    /\ pass = "addresses"
    /\ cur # 0
    /\ buf' = IF ops[cur].kind \in Refs \cup DataRefs
              THEN [buf EXCEPT !.cells = Overwritten(@, ops[cur].pos, RefCells(cur, AddressOf(cur)))]
              ELSE buf
    /\ Goto("addresses", next[cur])
    /\ UNCHANGED <<source, ops, list, last_op, placed>>

Prologs == {o \in alive : ops[o].kind = "PROLOG"}

(* The loop over the PROLOGs; jit_generate_code returns. *)
AssignFunctions ==
    /\ pass = "addresses"
    /\ cur = 0
    /\ placed' = [i \in {ops[o].item : o \in Prologs} |-> buf.base + ops[OpOf(i)].pos]
    /\ Goto("done", 0)
    /\ UNCHANGED <<source, ops, list, last_op, buf>>

(* The operations op and those after it. *)
From(o) ==
    LET walk[n \in 0..Cardinality(Ids)] ==
            IF n = 0 THEN {o}
            ELSE LET S == walk[n - 1] IN S \cup {next[k] : k \in S \ {0}}
    IN walk[Cardinality(Ids)] \ {0}

(* jit_free, and jit_init for the next program *)
FreeAndInit ==
    /\ pass = "done"
    /\ alive' = (alive \ From(First)) \cup {CODESTART}
    /\ UNCHANGED source
    /\ ops' = [o \in Ids |-> NewOp("CODESTART", 0, 0, 1)]
    /\ next' = [o \in Ids |-> 0]
    /\ prev' = [o \in Ids |-> 0]
    /\ last_op' = CODESTART
    /\ buf' = [base |-> 0, capacity |-> 0, cells |-> <<>>]
    /\ placed' = <<>>
    /\ Goto("build", 0)

Next ==
    \/ AddOp \/ ExpandPatchesAndLabels
    \/ PrepareSpill \/ NoSpill
    \/ MarkLiveCode \/ DeleteOp \/ KeepOp \/ Swept
    \/ AdjustBranch \/ LeaveBranch
    \/ AllocateBuffer \/ CheckRoom \/ RoomForData \/ Emit
    \/ Move \/ PatchLocalAddr \/ AssignFunctions
    \/ FreeAndInit

Spec == Init /\ [][Next]_vars

-----------------------------------------------------------------------------
Passes == {"build", "spills", "delete", "branches", "room", "emit", "addresses", "done"}

TypeOK ==
    /\ pass \in Passes
    /\ cur \in alive \cup {0}
    /\ alive \subseteq Ids
    /\ last_op \in Ids
    /\ next \in [Ids -> Ids \cup {0}]
    /\ prev \in [Ids -> Ids \cup {0}]
    /\ DOMAIN ops = Ids
    /\ \A o \in Ids : ops[o].jmp_addr \in Ids \cup {0} /\ ops[o].arg \in Ids \cup {0}
    /\ buf.capacity \in Nat

(***************************************************************************)
(* However operations are appended, prepended and deleted, the list that   *)
(* starts at jit->ops has all operations there are, and leads back the     *)
(* way it leads forth; while the program builds it, last_op is its end.    *)
(***************************************************************************)
ListWhole ==
    /\ alive = From(CODESTART)
    /\ \A o \in alive : prev[o] = 0 <=> o = CODESTART
    /\ \A o \in alive : next[o] # 0 => prev[next[o]] = o
    /\ pass = "build" => next[last_op] = 0

(* One look at the free space before each operation is enough for all that *)
(* is written: nothing is written past the end of the buffer.              *)
InBuffer == Len(buf.cells) <= buf.capacity

(* What an operation writes at most: its own code, and what aligns it.     *)
Room(kind, n) ==
    CASE kind = "PROLOG" -> n + PrologAlign - 1
      [] kind \in {"JMP", "BRANCH", "CALL"} -> IF n >= 2 THEN n ELSE 2
      [] kind = "CODE_ALIGN" -> n - 1
      [] kind \in {"LABEL", "PATCH", "CODESTART"} -> 0
      [] OTHER -> n

(* The one thing InBuffer asks of a program: but for a block of bytes,     *)
(* nothing it adds takes more than the room that is looked for.            *)
Fits(p) ==
    \A i \in DOMAIN p :
        p[i].kind # "DATA_BYTES" => Room(p[i].kind, p[i].n) <= MINIMAL_BUF_SPACE

(* No program aligns data to more than memory is aligned to. *)
MemoryAligned ==
    \A p \in Programs : \A i \in DOMAIN p :
        p[i].kind = "CODE_ALIGN" => \A a \in Heap \cup Pages : a % p[i].n = 0

(* A PATCH, when the emitter comes to it, names an operation that was not  *)
(* freed, nor freed and made another one, and that is to lead to it.       *)
PatchesItsOwn ==
    pass = "emit" /\ ops[cur].kind = "PATCH" =>
        /\ ops[cur].arg \in alive
        /\ ops[ops[cur].arg].jmp_addr = cur

-----------------------------------------------------------------------------
(* What the cell k of the buffer means where the code is. *)
CellAt(k) ==
    LET cell == buf.cells[k]
    IN [of |-> cell.of, turned |-> cell.turned,
        dest |-> CASE cell.c = "disp" -> buf.base + k + cell.d
                   [] cell.c = "addr" -> cell.d
                   [] OTHER -> 0]

Image ==
    IF pass = "done"
    THEN [a \in buf.base..Ip - 1 |-> CellAt(a - buf.base + 1)]
    ELSE <<>>

CellsOf(i) == {a \in DOMAIN Image : Image[a].of = i}

PlaceOf(i) ==
    CASE i \in DOMAIN placed -> placed[i]
      [] i \notin DOMAIN placed /\ CellsOf(i) # {} ->
           CHOOSE a \in CellsOf(i) : \A b \in CellsOf(i) : a <= b
      [] OTHER -> 0

Promise == INSTANCE Assembly WITH
    program <- IF pass = "build" THEN SubSeq(source, 1, Added) ELSE source,
    code    <- Image,
    place   <- IF pass = "done" THEN [i \in Reached(source) |-> PlaceOf(i)] ELSE <<>>

(* The code that is generated keeps every promise of Assembly: whatever is *)
(* reached starts, goes on, jumps and refers to where the program said,    *)
(* however often the buffer moved while displacements were noted.          *)
Implements == Promise!Spec
=============================================================================
