---------------------------- MODULE SparcTarget ----------------------------
(***************************************************************************)
(* Programs on SPARC: the passes and patches of jitlib-core.c and          *)
(* sparc-specific.h around the emitter, the caller of the generated code,  *)
(* and the external functions it calls, as the SPARC ABI has them.         *)
(***************************************************************************)
EXTENDS SparcEmitter, SparcListing

CONSTANTS
    SP0,       \* the caller's stack pointer
    StackEnd,  \* the lowest address of the stack
    Home       \* where the caller goes on, in words

R_IMM == "l7"
FR_IMM == "f6"

(* jit_imm_overflow, with immediate values of I bits and a sign            *)
TooLong(op, value) == value \notin (IF op.sign THEN -(2^(I - 1)) ELSE 0) .. 2^(I - 1) - 1

(* patch_addr of an operation, the words of which are first .. last        *)
PatchWord(op, first, last) == IF op.code \in {"REF_CODE", "REF_DATA"} THEN first ELSE last - 1

(* sparc_patch to an address, in code at Base; jit_patch_local_addrs       *)
External(words, at, base, address) == Patched(words, at, address \div 4 - base + 1)
LocalAddress(words, at, op, address) ==
    LET two == Set32x(address, Sparc[op.r[1]])
    IN  [words EXCEPT ![at] = two[1], ![at + 1] = two[2]]

---------------------------------------------------------------------------
(* Code that is entered with registers as in file, and a frame at fp       *)
Begun(file, memory, pc) ==
    LET Of(i) == {n \in DOMAIN file : n \notin FloatNames /\ Sparc[n] = i}
        OfF(i) == {n \in DOMAIN file \cap FloatNames : Sparc[n] = i}
    IN  SparcStart(pc, [i \in 0 .. 31 |-> IF Of(i) # {} THEN file[CHOOSE n \in Of(i) : TRUE]
                                          ELSE IF i = fp THEN SP0 ELSE Junk],
                   [i \in 0 .. 31 |-> IF OfF(i) # {} THEN Hi(file[CHOOSE n \in OfF(i) : TRUE])
                                      ELSE IF i > 0 /\ OfF(i - 1) # {}
                                      THEN Lo(file[CHOOSE n \in OfF(i - 1) : TRUE]) ELSE Junk],
                   memory)
InRegister(m, n) ==
    IF n \in FloatNames THEN Double(m.f[Sparc[n]], m.f[Sparc[n] + 1]) ELSE Wrap(m.r[Sparc[n]])
InMemory(cells) ==
    LET Two(a) == (a :> <<4, Hi(cells[a][2])>>) @@ ((a + 4) :> <<4, Lo(cells[a][2])>>)
        One(a) == CASE cells[a][1] = "byte" -> a :> <<1, cells[a][2]>>
                    [] cells[a][1] = "half" -> a :> <<2, cells[a][2]>>
                    [] cells[a][1] = "word" -> a :> <<4, Wrap(cells[a][2])>>
                    [] cells[a][1] = "single" -> a :> <<4, Single(cells[a][2])>>
                    [] cells[a][1] = "double" -> Two(a)
    IN  FoldSet(LAMBDA a, all : One(a) @@ all, <<>>, DOMAIN cells)

(* A caller with values of its own in its registers and its frame that     *)
(* passes words: the first six in the outs                                 *)
Kept(i) == 300 + i
Locals == {SP0 + 128 + 4 * i : i \in 0 .. 3}
AsWords(args) ==
    FlattenSeq([i \in 1 .. Len(args) |->
        LET q == args[i].value IN
        IF ~args[i].fp THEN <<Wrap(q)>> ELSE IF args[i].size = 8 THEN <<Hi(q), Lo(q)>> ELSE <<Single(q)>>])
Entered(args, memory, pc) ==
    LET words == AsWords(args)
        stack == [a \in {SP0 + 92 + 4 * i : i \in 0 .. Len(words) - 7} |->
                     <<4, words[(a - SP0 - 92) \div 4 + 7]>>]
        locals == [a \in Locals |-> <<4, Kept(a)>>]
        file == [i \in 0 .. 31 |->
                    CASE i = sp -> SP0
                      [] i = o7 -> 4 * Home - 8
                      [] i \in o0 .. o0 + Len(words) - 1 /\ i < sp -> words[i - o0 + 1]
                      [] i >= 16 -> Kept(i)
                      [] OTHER -> Junk]
    IN  SparcStart(pc, file, [i \in 0 .. 31 |-> Junk], stack @@ locals @@ memory)
Passed(call, args) == SubSeq(call.words, 1, Len(AsWords(args))) = AsWords(args)
Restored(m) == /\ m.pc = Home /\ m.windows = <<>> /\ m.r[sp] = SP0
               /\ \A i \in 16 .. 31 : m.r[i] = Kept(i)
               /\ \A a \in Locals : m.mem[a] = <<4, Kept(a)>>
Returned(m, code, size) ==
    IF code = "RET" THEN Wrap(m.r[o0]) ELSE IF size = 8 THEN Double(m.f[0], m.f[1]) ELSE OfSingle(m.f[0])

(* An external function takes its arguments from the outs and the stack,   *)
(* and may change whatever the ABI does not keep: the part of the caller's *)
(* frame where windows and the arguments in registers are saved, and       *)
(* everything below it                                                     *)
CalleeReturned(m, single) ==
    LET top == Wrap(m.r[sp])
        words == [i \in 1 .. 18 |-> IF i <= 6 THEN Wrap(m.r[o0 + i - 1]) ELSE Read(m, top + 92 + 4 * (i - 7), 4)]
    IN  [m EXCEPT !.calls = Append(m.calls, [to |-> 4 * m.pc, words |-> words]),
                  !.r = [i \in 0 .. 31 |-> IF i = o0 THEN Result
                                           ELSE IF i \in 1 .. 5 \cup 9 .. 13 THEN Junk ELSE m.r[i]],
                  !.f = [i \in 0 .. 31 |-> CASE i = 0 /\ single -> Single(FResult)
                                             [] i = 0 /\ ~single -> Hi(FResult)
                                             [] i = 1 /\ ~single -> Lo(FResult)
                                             [] OTHER -> Junk],
                  !.y = Junk, !.icc = {}, !.xcc = {}, !.fcc = "unordered",
                  !.mem = [a \in DOMAIN m.mem |->
                              IF a \in StackEnd .. top + 91 THEN <<4, Junk>> ELSE m.mem[a]],
                  !.pc = (m.r[o7] + 8) \div 4, !.npc = (m.r[o7] + 8) \div 4 + 1]
=============================================================================
