------------------------------ MODULE Backend ------------------------------
(***************************************************************************)
(* jit_generate_code for a SPARC or an ARM32 (jitlib-core.c): immediate    *)
(* values that do not fit an instruction move to registers, operations are *)
(* emitted one after the other, branches forward are patched when their    *)
(* target is reached, the code moves to its final place and calls and      *)
(* addresses in it are patched again; then it runs.                        *)
(*                                                                         *)
(* A program is a list of operations with the registers that the allocator *)
(* has given them.  It is either a whole function, which begins with its   *)
(* PROLOG and is called with the arguments `input', or a piece of one,     *)
(* which begins with a word of data at the label 0 and runs from `file';   *)
(* `exit' are the registers read after it.                                 *)
(***************************************************************************)
EXTENDS RiscMeaning

CONSTANTS
    Programs,
    Base,        \* where the code is moved to, in words
    Heap,        \* where operations are, which hold floating-point constants
    SP0, StackEnd, Home, ZeroPoint5

VARIABLES prog, phase, ops, starts, code, m

vars == <<prog, phase, ops, starts, code, m>>

S == INSTANCE SparcTarget
A == INSTANCE ArmTarget
OnSparc == prog.target = "sparc"

(* Whole functions, and the pieces of functions                            *)
Whole == prog.ops[1].code = "PROLOG"
Entry == IF Whole THEN Base ELSE Base + 1
End == Base + Len(code)

Init == /\ prog \in Programs
        /\ phase = "long" /\ ops = prog.ops
        /\ starts = <<>> /\ code = <<>> /\ m = <<>>

---------------------------------------------------------------------------
(* jit_correct_long_imms and jit_correct_float_imms                        *)
ImmPlace(op) == CASE op.code \in {"ST", "STX", "FST", "FSTX", "RET", "FRET"} -> 1
                  [] op.code \in {"LD", "FLD", "FMOV"} -> 2
                  [] OTHER -> 3
InRegister(op, place, reg) == [op EXCEPT !.imm = FALSE, !.r[place] = reg, !.k = 0]
KeepLongImm == {"JMP", "CALL", "PATCH", "MOV", "PUTARG", "MSG", "PROLOG", "REF_CODE", "REF_DATA"}
FloatImm(op) == op.code \in FloatCode \ FloatMemory
ImmOf(op) == IF FloatImm(op) THEN 0 ELSE op.k
TooLong(op) == IF OnSparc THEN S!TooLong(op, ImmOf(op)) ELSE A!TooLong(op, ImmOf(op))

LongImm(op) ==
    LET reg == IF OnSparc THEN S!R_IMM ELSE A!R_IMM IN
    IF op.imm /\ op.code \notin KeepLongImm /\ TooLong(op)
    THEN << [Plain EXCEPT !.code = "MOV", !.imm = TRUE, !.r[1] = reg, !.k = op.k],
            InRegister(op, ImmPlace(op), reg) >>
    ELSE << op >>

KeepFloatImm == {"FMOV", "FPUTARG"}
FloatImmToReg(op) ==
    LET reg == IF OnSparc THEN S!FR_IMM ELSE A!FR_IMM IN
    IF op.imm /\ FloatImm(op) /\ op.code \notin KeepFloatImm
       /\ ~(~OnSparc /\ op.code \in FloatBranches /\ op.k = 0)
    THEN << [Plain EXCEPT !.code = "FMOV", !.imm = TRUE, !.r[1] = reg, !.k = op.k],
            InRegister(op, ImmPlace(op), reg) >>
    ELSE << op >>

CorrectLongImms ==
    /\ phase = "long"
    /\ ops' = FlattenSeq([i \in 1 .. Len(ops) |-> LongImm(ops[i])])
    /\ phase' = "float"
    /\ UNCHANGED <<prog, starts, code, m>>

(* The address of a constant is that of its operation                      *)
CorrectFloatImms ==
    /\ phase = "float"
    /\ \E all \in {FlattenSeq([i \in 1 .. Len(ops) |-> FloatImmToReg(ops[i])])} :
          ops' = [i \in 1 .. Len(all) |->
                     IF all[i].code \in KeepFloatImm /\ all[i].imm THEN [all[i] EXCEPT !.e = Heap + 8 * i] ELSE all[i]]
    /\ phase' = "emit"
    /\ UNCHANGED <<prog, starts, code, m>>

---------------------------------------------------------------------------
(* The circumstances of operation i                                        *)
Prepared(i) ==
    LET first == CHOOSE j \in 0 .. i : /\ j = 0 \/ ops[j].code = "PREPARE"
                                       /\ \A h \in j + 1 .. i : ops[h].code # "PREPARE"
    IN  SelectSeq(SubSeq(ops, first + 1, i), LAMBDA op : op.code \in {"PUTARG", "FPUTARG"})
Held(i) == \A j \in 1 .. i - 1 : ~(ops[j].code = "UREG" /\ ops[j].v[1] \in {"A", "FA"}
                                   /\ ops[j].v[2] = ops[i].k)
Passed ==
    LET From(i) == SubSeq(ops, i, CHOOSE j \in i .. Len(ops) :
                                       ops[j].code = "CALL" /\ \A h \in i .. j - 1 : ops[h].code # "CALL")
        Count(i, code1) == Len(SelectSeq(From(i), LAMBDA op : op.code = code1))
    IN  {<<Count(i, "PUTARG"), Count(i, "FPUTARG")>> : i \in {j \in 1 .. Len(ops) : ops[j].code = "PREPARE"}}

(* The registers live before each operation and at the end (a jump back,   *)
(* or to an address, leaves the piece)                                     *)
Writers == Arithmetic \cup Compares \cup Unary \cup {"LD", "LDX", "FLD", "FLDX", "FMOV", "FNEG"} \cup FloatSums
           \cup Roundings \cup {"EXT", "GETARG", "RETVAL", "FRETVAL", "LREG", "RENAMEREG", "REF_CODE", "REF_DATA"}
Names(list) == Range(list) \ {None}
Reads(op) == IF op.code \in Writers THEN Names(Tail(op.r)) ELSE Names(op.r)
Writes(op) == IF op.code \in Writers THEN Names(<<op.r[1]>>) ELSE {}
BranchesAway(op) == op.code \in Branches \cup FloatBranches \cup {"JMP"}
(* after = the sets of the operations that follow operation i              *)
OutOf(i, after) ==
    LET patch == CHOOSE j \in i + 1 .. Len(ops) : ops[j].code = "PATCH" /\ \A h \in i + 1 .. j - 1 : ops[h].code # "PATCH"
        next == IF ops[i].code \in {"RET", "FRET", "JMP"} THEN {} ELSE after[1]
        there == IF ~BranchesAway(ops[i]) THEN {} ELSE IF ops[i].fwd THEN after[patch - i] ELSE prog.exit
    IN  next \cup there
LiveIns == FoldRight(LAMBDA i, after : << Reads(ops[i]) \cup (OutOf(i, after) \ Writes(ops[i])) >> \o after,
                     [i \in 1 .. Len(ops) |-> i], << prog.exit >>)

Circumstances(i) ==
    LET live == LiveIns
        live_out == OutOf(i, SubSeq(live, i + 1, Len(live)))
    IN  [fn |-> prog.fn, passed |-> Passed, at |-> Len(code), label |-> 0, prepared |-> Prepared(i), held |-> Held(i),
         out |-> live_out, in_use |-> live[i] \cup live_out, saved |-> IF OnSparc THEN {} ELSE A!Saved(ops)]

(* patch_addr of operation j, as a position in code                        *)
PatchAddr(j) ==
    LET first == starts[j] + 1
        last == IF j < Len(starts) THEN starts[j + 1] ELSE Len(code)
    IN  IF OnSparc THEN S!PatchWord(ops[j], first, last) ELSE A!PatchWord(ops[j], first, last)
Forward(i) == CHOOSE j \in 1 .. i - 1 : ops[j].fwd /\ \A h \in j + 1 .. i - 1 : ~ops[h].fwd

WordsOf(i) == IF OnSparc THEN S!Gen(ops[i], Circumstances(i)) ELSE A!Gen(ops[i], Circumstances(i))

(* One operation of the loop                                               *)
EmitOp ==
    /\ phase = "emit" /\ Len(starts) < Len(ops)
    /\ LET i == Len(starts) + 1
           here == Len(code) + 1
       IN  /\ starts' = Append(starts, Len(code))
           /\ code' = CASE ops[i].code = "DATA" -> Append(code, <<0, 0>>)
                        [] ops[i].code = "PATCH" ->
                              IF OnSparc THEN S!Patched(code, PatchAddr(Forward(i)), here)
                                         ELSE A!Patched(code, PatchAddr(Forward(i)), here)
                        [] OTHER -> code \o WordsOf(i)
    /\ UNCHANGED <<prog, phase, ops, m>>

(* jit_patch_external_calls and jit_patch_local_addrs for operation i      *)
External(words, i) ==
    LET address == IF ops[i].code = "MSG" THEN Printf ELSE ops[i].k IN
    IF OnSparc THEN S!External(words, PatchAddr(i), Base, address)
               ELSE A!External(words, PatchAddr(i), Base, address)
LocalAddress(words, i) ==
    IF OnSparc THEN S!LocalAddress(words, PatchAddr(i), ops[i], ops[i].k)
               ELSE A!LocalAddress(words, PatchAddr(i), ops[i], ops[i].k)
PatchedForPlace ==
    LET called == FoldLeft(LAMBDA words, i :
                              IF ops[i].code = "MSG" \/ (ops[i].code = "CALL" /\ ops[i].imm)
                              THEN External(words, i) ELSE words,
                           code, [i \in 1 .. Len(ops) |-> i])
    IN  FoldLeft(LAMBDA words, i :
                    IF ops[i].code \in {"REF_CODE", "REF_DATA"} THEN LocalAddress(words, i) ELSE words,
                 called, [i \in 1 .. Len(ops) |-> i])

---------------------------------------------------------------------------
(* The run: memory at first, with the constants in it                      *)
ConstantCells ==
    LET at == {i \in 1 .. Len(ops) : ops[i].code \in KeepFloatImm /\ ops[i].imm} IN
    [a \in {ops[i].e : i \in at} |-> <<"double", (CHOOSE op \in {ops[i] : i \in at} : op.e = a).k>>]
    @@ (ZeroPoint5 :> <<"double", 2>>)
FirstMemory == LET cells == ConstantCells @@ prog.mem IN
               IF OnSparc THEN S!InMemory(cells) ELSE A!InMemory(cells)
Entered == IF OnSparc THEN S!Entered(prog.input, FirstMemory, Entry)
                      ELSE A!Entered(prog.input, FirstMemory, Entry)
Begun == IF OnSparc THEN S!Begun(prog.file, FirstMemory, Entry)
                    ELSE A!Begun(prog.file, FirstMemory, Entry)

Link ==
    /\ phase = "emit" /\ Len(starts) = Len(ops)
    /\ code' = PatchedForPlace
    /\ m' = IF Whole THEN Entered ELSE Begun
    /\ phase' = "run"
    /\ UNCHANGED <<prog, ops, starts>>

Step == /\ phase = "run" /\ ~m.trap
        /\ m.pc \in Entry .. End - 1
        /\ LET word == code[m.pc - Base + 1] IN
           m' = IF OnSparc THEN S!SparcStep(m, word) ELSE A!ArmStep(m, word)
        /\ UNCHANGED <<prog, phase, ops, starts, code>>

SingleResult == \E i \in 1 .. Len(ops) : ops[i].code = "FRETVAL" /\ ops[i].size = 4
CalleeReturns ==
    /\ phase = "run"
    /\ m.pc \in {Printf \div 4} \cup prog.externals
    /\ m' = IF OnSparc THEN S!CalleeReturned(m, SingleResult) ELSE A!CalleeReturned(m, SingleResult)
    /\ UNCHANGED <<prog, phase, ops, starts, code>>

Next == CorrectLongImms \/ CorrectFloatImms \/ EmitOp \/ Link \/ Step \/ CalleeReturns
Spec == Init /\ [][Next]_vars

---------------------------------------------------------------------------
(***************************************************************************)
(* Properties.                                                             *)
(***************************************************************************)
(* What the documentation says the program does                            *)
Promised == FoldLeft(Documented, Begin(prog.file, prog.mem, prog.input), prog.ops)

SameCalls(called) ==
    /\ Len(m.calls) = Len(called)
    /\ \A i \in 1 .. Len(called) :
          /\ m.calls[i].to = called[i].to
          /\ IF OnSparc THEN S!Passed(m.calls[i], called[i].args)
                        ELSE A!Passed(m.calls[i], called[i].args)
SameMemory(cells) ==
    LET raw == IF OnSparc THEN S!InMemory(cells) ELSE A!InMemory(cells) IN
    \A a \in DOMAIN raw : a \in DOMAIN m.mem /\ m.mem[a] = raw[a]

Restored == IF OnSparc THEN S!Restored(m) ELSE A!Restored(m)
Returned(code1, size) == IF OnSparc THEN S!Returned(m, code1, size) ELSE A!Returned(m, code1, size)
ReturnSize == (CHOOSE op \in Range(prog.ops) : op.code \in {"RET", "FRET"}).size
InReg(r) == IF OnSparc THEN S!InRegister(m, r) ELSE A!InRegister(m, r)

(* The code of a whole function calls what the documentation says with the *)
(* arguments it says, stores and returns the values it says, and leaves    *)
(* its caller's registers, stack pointer and frame as they were; the code  *)
(* of a piece of a function ends with the same registers and memory, at    *)
(* its end or at the label it branches to.  Nothing else ever runs.        *)
AsDocumented ==
    phase = "run" /\ (m.trap \/ m.pc \notin (Entry .. End - 1) \cup {Printf \div 4} \cup prog.externals) =>
        /\ ~m.trap
        /\ \E s \in {Promised} :
              /\ SameCalls(s.calls) /\ SameMemory(s.mem)
              /\ IF Whole
                 THEN Restored /\ Returned(s.result[1], ReturnSize) = s.result[2]
                 ELSE /\ m.pc = IF s.taken THEN Base ELSE End
                      /\ \A r \in prog.exit : InReg(r) = s.reg[r]

(* The disassembler shows every instruction that is emitted as the text    *)
(* the assembler's manual has for it, except for those it is known not to. *)
Listed ==
    phase = "run" /\ m.pc = Entry =>
        \A i \in Entry - Base + 1 .. Len(code) :
            IF OnSparc THEN S!Misprinted(code[i]) \/ S!SparcListing(code[i]) \in S!SparcTexts(code[i])
                       ELSE A!Misprinted(code[i]) \/ A!ArmListing(code[i]) \in A!ArmTexts(code[i])
=============================================================================
