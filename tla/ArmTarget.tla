----------------------------- MODULE ArmTarget -----------------------------
(***************************************************************************)
(* Programs on ARM32: the passes and patches of jitlib-core.c and          *)
(* arm32-specific.h around the emitter, the caller of the generated code,  *)
(* and the external functions it calls, as the procedure call standard of  *)
(* the ARM architecture (AAPCS, with VFP registers) has them.              *)
(***************************************************************************)
EXTENDS ArmEmitter, ArmListing

CONSTANTS
    SP0,       \* the caller's stack pointer
    StackEnd,  \* the lowest address of the stack
    Home       \* where the caller goes on, in words

R_IMM == "r6"
FR_IMM == "d3"

(* jit_imm_overflow                                                        *)
PowerOf2(n) == n = 0 \/ \E i \in 0 .. W - 1 : Wrap(2^i) = n
TooLong(op, value) ==
    LET code == op.code IN
    CASE code \in {"HMUL", "SUBC", "LD"} -> TRUE
      [] code = "RSH" \/ (code = "LSH" /\ op.sign) -> value \notin 0 .. 31
      [] (code = "LDX" /\ (op.size = 2 \/ (op.size = 1 /\ op.sign))) \/ (code = "STX" /\ op.size = 2) ->
            value \notin -255 .. 255
      [] (code = "LDX" /\ (op.size = 4 \/ (op.size = 1 /\ ~op.sign))) \/ (code = "STX" /\ op.size = 4) ->
            ~Encodable(AbsOf(value)) /\ ~Encodable(value)
      [] code \in FloatMemory -> FALSE
      [] code = "MOD" -> ~(op.sign /\ PowerOf2(value))
      [] code = "MUL" -> ~PowerOf2(value)
      [] code = "DIV" -> ~PowerOf2(value)
      [] OTHER -> ~Encodable(value)

(* patch_addr of an operation, the words of which are first .. last        *)
PatchWord(op, first, last) == IF op.code \in {"REF_CODE", "REF_DATA"} THEN first ELSE last

(* Calls of external functions load the address; jit_patch_local_addrs     *)
External(words, at, base, address) == words
LocalAddress(words, at, op, address) ==
    LET two == MovImm32x(Arm[op.r[1]], address)
    IN  [words EXCEPT ![at] = two[1], ![at + 1] = two[2]]

(* used_callee_saved_regs                                                  *)
Saved(ops) ==
    LET Names(op) == IF op.code = "RENAMEREG" THEN {op.r[1], op.r[2]}
                     ELSE IF op.code \in {"UREG", "SYNCREG", "LREG"} THEN {} ELSE Range(op.r)
    IN  {i \in 4 .. 10 : \E op \in Range(ops) : ("r" \o ToString(i)) \in Names(op)}
        \cup (IF \E op \in Range(ops) : op.code = "CALL" THEN {LR} ELSE {})

---------------------------------------------------------------------------
(* Code that is entered with registers as in file, and a frame at SP0      *)
Begun(file, memory, pc) ==
    LET Of(i) == {n \in DOMAIN file \ FloatNames : Arm[n] = i}
        OfF(i) == {n \in DOMAIN file \cap FloatNames : Arm[n] = i \div 2}
    IN  ArmStart(pc, [i \in 0 .. 15 |-> IF Of(i) # {} THEN file[CHOOSE n \in Of(i) : TRUE]
                                        ELSE IF i \in {FP, SP} THEN SP0 ELSE Junk],
                 [i \in 0 .. 31 |-> IF OfF(i) = {} THEN Junk
                                    ELSE LET q == file[CHOOSE n \in OfF(i) : TRUE] IN
                                         IF i % 2 = 0 THEN Lo(q) ELSE Hi(q)],
                 memory)
InRegister(m, n) ==
    IF n \in FloatNames THEN Double(m.s[2 * Arm[n] + 1], m.s[2 * Arm[n]]) ELSE Wrap(m.r[Arm[n]])
InMemory(cells) ==
    LET Two(a) == (a :> <<4, Lo(cells[a][2])>>) @@ ((a + 4) :> <<4, Hi(cells[a][2])>>)
        One(a) == CASE cells[a][1] = "byte" -> a :> <<1, cells[a][2]>>
                    [] cells[a][1] = "half" -> a :> <<2, cells[a][2]>>
                    [] cells[a][1] = "word" -> a :> <<4, Wrap(cells[a][2])>>
                    [] cells[a][1] = "single" -> a :> <<4, Single(cells[a][2])>>
                    [] cells[a][1] = "double" -> Two(a)
    IN  FoldSet(LAMBDA a, all : One(a) @@ all, <<>>, DOMAIN cells)

(* The standard's places for arguments: four core registers, sixteen       *)
(* single registers, then the stack, each double aligned to 8 bytes and    *)
(* after it no single register                                             *)
AsWords(arg) == IF ~arg.fp THEN <<Wrap(arg.value)>>
                ELSE IF arg.size = 8 THEN <<Lo(arg.value), Hi(arg.value)>> ELSE <<Single(arg.value)>>
Standard(args) ==
    LET Stacked(t, words) ==
            LET at == IF Len(words) = 2 THEN Align8(t.top) ELSE t.top IN
            [t EXCEPT !.stack = [i \in {at + 4 * j : j \in 0 .. Len(words) - 1} |-> words[(i - at) \div 4 + 1]] @@ t.stack,
                      !.top = at + 4 * Len(words)]
        Core(t, words) == IF Cardinality(DOMAIN t.core) < 4
                          THEN [t EXCEPT !.core = (Cardinality(DOMAIN t.core) :> words[1]) @@ t.core]
                          ELSE Stacked(t, words)
        Vfp(t, words) ==
            LET n == Len(words)
                free == {j \in 0 .. 16 - n : j % n = 0 /\ (j .. j + n - 1) \cap DOMAIN t.single = {}}
            IN  IF free = {} \/ t.full THEN [Stacked(t, words) EXCEPT !.full = TRUE]
                ELSE [t EXCEPT !.single = [i \in Min(free) .. Min(free) + n - 1 |-> words[i - Min(free) + 1]] @@ t.single]
    IN  FoldLeft(LAMBDA t, arg : IF arg.fp THEN Vfp(t, AsWords(arg)) ELSE Core(t, AsWords(arg)),
                 [core |-> <<>>, single |-> <<>>, stack |-> <<>>, top |-> 0, full |-> FALSE], args)

(* A caller with values of its own in its registers and its frame          *)
Kept(i) == 300 + i
Locals == {SP0 + 128 + 4 * i : i \in 0 .. 3}
Entered(args, memory, pc) ==
    LET at == Standard(args)
        stack == [a \in {SP0 + i : i \in DOMAIN at.stack} |-> <<4, at.stack[a - SP0]>>]
        locals == [a \in Locals |-> <<4, Kept(a)>>]
        file == [i \in 0 .. 15 |-> CASE i = SP -> SP0
                                     [] i = LR -> 4 * Home
                                     [] i \in DOMAIN at.core -> at.core[i]
                                     [] i \in 4 .. FP -> Kept(i)
                                     [] OTHER -> Junk]
    IN  ArmStart(pc, file, [i \in 0 .. 31 |-> IF i \in DOMAIN at.single THEN at.single[i] ELSE Junk],
                 stack @@ locals @@ memory)
Passed(call, args) ==
    LET at == Standard(args) IN
    /\ call.top % 8 = 0
    /\ \A i \in DOMAIN at.core : call.r[i] = at.core[i]
    /\ \A i \in DOMAIN at.single : call.s[i] = at.single[i]
    /\ \A i \in DOMAIN at.stack : call.stack[i] = at.stack[i]
(* d8 to d15 are not among what is kept: used_callee_saved_regs has no     *)
(* floating-point registers                                                *)
Restored(m) == /\ m.pc = Home /\ m.r[SP] = SP0
               /\ \A i \in 4 .. FP : m.r[i] = Kept(i)
               /\ \A a \in Locals : m.mem[a] = <<4, Kept(a)>>
Returned(m, code, size) ==
    IF code = "RET" THEN Wrap(m.r[R0])
    ELSE IF size = 8 THEN Double(m.s[1], m.s[0]) ELSE OfSingle(m.s[0])

(* An external function may change whatever the standard does not keep,    *)
(* and everything below the stack pointer                                  *)
CalleeReturned(m, single) ==
    LET top == Wrap(m.r[SP]) IN
    [m EXCEPT !.calls = Append(m.calls, [to |-> 4 * m.pc, top |-> top,
                                         r |-> [i \in 0 .. 3 |-> Wrap(m.r[i])], s |-> [i \in 0 .. 15 |-> m.s[i]],
                                         stack |-> [i \in {4 * j : j \in 0 .. 15} |-> Read(m, top + i, 4)]]),
              !.r = [i \in 0 .. 15 |-> IF i = R0 THEN Result ELSE IF i \in {1, 2, 3, R12} THEN Junk ELSE m.r[i]],
              !.s = [i \in 0 .. 31 |-> CASE i = 0 -> IF single THEN Single(FResult) ELSE Lo(FResult)
                                         [] i = 1 -> IF single THEN Junk ELSE Hi(FResult)
                                         [] i \in 2 .. 15 -> Junk
                                         [] OTHER -> m.s[i]],
              !.flags = {}, !.vflags = {},
              !.mem = [a \in DOMAIN m.mem |-> IF a \in StackEnd .. top - 1 THEN <<4, Junk>> ELSE m.mem[a]],
              !.pc = m.r[LR] \div 4]
=============================================================================
