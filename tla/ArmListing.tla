----------------------------- MODULE ArmListing -----------------------------
(***************************************************************************)
(* The ARM disassembler (arm32-dis.c): the line arm32d_disassemble makes   *)
(* of an instruction word, as a sequence of tokens without separators; and *)
(* the lines the assembler's manual has for a word.                        *)
(***************************************************************************)
EXTENDS ArmMachine

DataNames == << "and", "eor", "sub", "rsb", "add", "adc", "sbc", "rsc",
                "tst", "teq", "cmp", "cmn", "orr", "mov", "bic", "mvn" >>
CompOps == {"tst", "teq", "cmp", "cmn"}
AssignmentOps == {"mov", "mvn"}
ShiftNames == << "lsl", "lsr", "asr", "ror" >>
CondSuffixes == << "eq", "ne", "cs", "cc", "mi", "pl", "vs", "vc", "hi", "ls", "ge", "lt", "gt", "le", "", "nv" >>
RegTokens == << "r0", "r1", "r2", "r3", "r4", "r5", "r6", "r7", "r8", "r9", "r10", "fp", "r12", "sp", "lr", "pc" >>
R(n) == RegTokens[n + 1]
DReg(n) == "d" \o ToString(n)
SReg(n) == "s" \o ToString(n)
(* The table of the single registers has s10 and s20 twice                 *)
SRegListed(n) == SReg(IF n <= 10 THEN n ELSE IF n <= 21 THEN n - 1 ELSE n - 2)
NameS(w, name, s) == name \o CondSuffixes[Bitfield(w, 28, 4) + 1] \o s
Hex(n) == "0x" \o ToString(n)
Constant(n) == << Hex(n), "(" \o ToString(n) \o ")" >>
AddrToken(n) == (IF n < 0 THEN "pc - " ELSE "pc + ") \o ToString(AbsOf(n))
Sign(up) == IF up THEN "+" ELSE "-"

---------------------------------------------------------------------------
(* The operands: IMM of a word, and arm32d_out_shift                       *)
ImmOfWord(w) == Rotated(Bitfield(w, 0, 8), 2 * Bitfield(w, 8, 4))
ShiftTokens(w) ==
    IF ~Bit(w, 4) /\ Bitfield(w, 7, 5) = 0 THEN <<>>
    ELSE << ShiftNames[Bitfield(w, 5, 2) + 1],
            IF Bit(w, 4) THEN R(Bitfield(w, 8, 4)) ELSE ToString(Bitfield(w, 7, 5)) >>

(* decode_dataop_imm and decode_dataop_reg                                 *)
DataName(w, name) == NameS(w, name, IF Bit(w, 20) /\ name \notin CompOps THEN "s" ELSE "")
Rd(w) == R(Bitfield(w, 12, 4))
Rn(w) == R(Bitfield(w, 16, 4))
Rm(w) == R(Bitfield(w, 0, 4))
DataTokens(w, name, arithmetic, other) ==
    << DataName(w, name) >>
    \o (CASE name \in CompOps -> << Rn(w) >> \o other
          [] name \in AssignmentOps -> << Rd(w) >> \o other
          [] OTHER -> << Rd(w), Rn(w) >> \o arithmetic)
ListDataImm(w) == DataTokens(w, DataNames[Bitfield(w, 21, 4) + 1], Constant(ImmOfWord(w)), Constant(ImmOfWord(w)))
ListDataReg(w) ==
    IF Bitfield(w, 21, 4) = 13 /\ Bitfield(w, 4, 8) # 0
    THEN << NameS(w, ShiftNames[Bitfield(w, 5, 2) + 1], ""), Rd(w), Rn(w),
            IF Bit(w, 4) THEN R(Bitfield(w, 8, 4)) ELSE ToString(Bitfield(w, 7, 4)) >>
    ELSE DataTokens(w, DataNames[Bitfield(w, 21, 4) + 1], Constant(Bitfield(w, 0, 12)) \o ShiftTokens(w),
                    << Rm(w) >> \o ShiftTokens(w))

(* decode_single_data_transfer and decode_half_word_transfer               *)
TransferTokens(w, name, offset) ==
    LET before == Bit(w, 24)
        sign == Sign(Bit(w, 23))
    IN  << NameS(w, name, ""), Rd(w), "[", Rn(w) >>
        \o (IF before THEN << sign >> \o offset \o << "]" >> ELSE << "]", sign >> \o offset)
        \o (IF before /\ Bit(w, 21) THEN << "!" >> ELSE <<>>)
ListSingleTransfer(w) ==
    LET load == Bit(w, 20)
        fourFromSp == Bitfield(w, 16, 4) = 13 /\ Bitfield(w, 0, 12) = 4
    IN  CASE fourFromSp /\ ~load /\ Bit(w, 21) /\ Bit(w, 24) /\ ~Bit(w, 23) -> << NameS(w, "push", ""), Rd(w) >>
          [] fourFromSp /\ load /\ ~Bit(w, 21) /\ ~Bit(w, 24) /\ Bit(w, 23) -> << NameS(w, "pop", ""), Rd(w) >>
          [] OTHER -> TransferTokens(w, (IF load THEN "ldr" ELSE "str") \o (IF Bit(w, 22) THEN "b" ELSE ""),
                          IF Bit(w, 25) THEN << Rm(w) >> \o ShiftTokens(w) ELSE << Hex(ImmOfWord(w)) >>)
(* An offset of 8 bits is extended with its sign and rotated by 30         *)
ListHalfTransfer(w) ==
    LET offset == 16 * Bitfield(w, 8, 4) + Bitfield(w, 0, 4)
        shown == IF offset < 128 THEN offset ELSE Rotated(offset, W - 2)
        half == IF Bit(w, 5) THEN "h" ELSE "b"
    IN  TransferTokens(w, IF Bit(w, 20) THEN "ldr" \o (IF Bit(w, 6) THEN "s" ELSE "") \o half ELSE "str" \o half,
                       << IF Bit(w, 22) THEN Hex(shown) ELSE Rm(w) >>)

(* decode_misc, decode_mov16, decode_stack_op and decode_divmul            *)
ListMul(w, name) == << NameS(w, name, ""), Rn(w), Rm(w), R(Bitfield(w, 8, 4)) >>
ListMisc(w) ==
    IF Bitfield(w, 20, 8) = 0 /\ Bitfield(w, 4, 4) = 9 THEN ListMul(w, "mul")
    ELSE IF Bitfield(w, 5, 2) # 0 THEN ListHalfTransfer(w) ELSE <<>>
ListMov16(w, name) == << NameS(w, name, ""), Rd(w) >> \o Constant(2^12 * Bitfield(w, 16, 4) + Bitfield(w, 0, 12))
Braces(set) == << "{" >> \o [i \in 1 .. Cardinality(set) |-> R(CHOOSE r \in set : Cardinality({q \in set : q < r}) = i - 1)]
               \o << "}" >>
ListStackOp(w, name) == << NameS(w, name, "") >> \o Braces({i \in 0 .. 14 : Bit(w, i)})

(* Floating point                                                          *)
Dd(w) == DReg(Bitfield(w, 12, 4))
Dm(w) == DReg(Bitfield(w, 0, 4))
ListVopUnary(w) ==
    LET op == << Bitfield(w, 16, 4), Bitfield(w, 4, 4) >>
        names == (<<1, 4>> :> "vneg") @@ (<<0, 12>> :> "vabs") @@ (<<5, 12>> :> "vcmp") @@ (<<4, 12>> :> "vcmp")
                 @@ (<<0, 4>> :> "vmov")
    IN  (IF op \in DOMAIN names THEN << NameS(w, names[op], ".f64") >> ELSE <<>>)
        \o << Dd(w) >> \o (IF op = <<5, 12>> THEN Constant(0) ELSE << Dm(w) >>)
ListVopBinary(w) ==
    LET op == << Bitfield(w, 20, 4), Bitfield(w, 4, 4) >>
        names == (<<3, 0>> :> "vadd") @@ (<<3, 4>> :> "vsub") @@ (<<2, 0>> :> "vmul") @@ (<<8, 0>> :> "vdiv")
    IN  (IF op \in DOMAIN names THEN << NameS(w, names[op], ".f64") >> ELSE <<>>)
        \o << Dd(w), DReg(Bitfield(w, 16, 4)), Dm(w) >>
ListVstack(w, name) == << NameS(w, name, ""), Dd(w) >>
ListFpscr(w) ==
    LET reg == IF Bitfield(w, 12, 4) = 15 THEN "APSR" ELSE Rd(w) IN
    IF Bit(w, 20) THEN << NameS(w, "vmrs", ""), reg, "fpscr" >> ELSE << NameS(w, "vmsr", ""), "fpscr", reg >>
(* An offset down is subtracted from itself                                *)
ListVfpTransfer(w) ==
    LET imm == IF Bit(w, 23) THEN 4 * Bitfield(w, 0, 8) ELSE 0 IN
    << NameS(w, IF Bit(w, 20) THEN "vldr" ELSE "vstr", ""),
       IF Bit(w, 8) THEN Dd(w) ELSE SRegListed(2 * Bitfield(w, 12, 4) + Bitfield(w, 22, 1)), "[", Rn(w) >>
    \o (IF imm # 0 THEN << Sign(Bit(w, 23)), Hex(imm) >> ELSE <<>>) \o << "]" >>
ListVcvt(w) ==
    LET opc2 == Bitfield(w, 16, 3)
        double == Bit(w, 8)
        name == IF opc2 # 0 /\ Bit(w, 7) THEN "vcvt" ELSE "vctvr"
        float == IF double THEN ".f64" ELSE ".f32"
        suffix == CASE opc2 = 5 -> ".s32" \o float [] opc2 = 4 -> ".u32" \o float
                    [] opc2 = 0 -> float \o (IF Bit(w, 7) THEN ".u32" ELSE ".s32") [] OTHER -> "???"
        m == SRegListed(2 * Bitfield(w, 0, 4) + Bitfield(w, 5, 1))
        d == SRegListed(2 * Bitfield(w, 12, 4) + Bitfield(w, 22, 1))
    IN  << NameS(w, name, suffix), IF opc2 = 0 /\ double THEN Dd(w) ELSE d,
           IF ~double \/ opc2 = 0 THEN m ELSE Dm(w) >>
ListVcvtff(w) ==
    IF Bit(w, 8) THEN << NameS(w, "vcvt", ".f32.f64"), SRegListed(2 * Bitfield(w, 12, 4)), Dm(w) >>
    ELSE << NameS(w, "vcvt", ".f64.f32"), Dd(w), SRegListed(2 * Bitfield(w, 0, 4) + Bitfield(w, 5, 1)) >>
ListVmov(w, name) ==
    LET sreg == SRegListed(2 * Bitfield(w, 16, 4)) IN
    << NameS(w, name, "") >> \o (IF Bit(w, 20) THEN << Rd(w), sreg >> ELSE << sreg, Rd(w) >>)

(* decode                                                                  *)
ArmListing(w) ==
    LET high == Bitfield(w, 20, 8)
        higher == Bitfield(w, 16, 12)
        top == Bitfield(w, 25, 3)
        middle == Bitfield(w, 4, 24)
        low == Bitfield(w, 0, 12)
        half == Bitfield(w, 21, 7) = 112 /\ low = 2832
    IN  CASE high = 48 -> ListMov16(w, "movw")
          [] high = 113 -> ListMul(w, "sdiv")
          [] high = 115 -> ListMul(w, "udiv")
          [] high = 117 -> ListMul(w, "smmul")
          [] higher = 2349 -> ListStackOp(w, "push")
          [] higher = 2237 -> ListStackOp(w, "pop")
          [] top = 0 /\ Bit(w, 7) /\ Bit(w, 4) -> ListMisc(w)
          [] high = 52 -> ListMov16(w, "movt")
          [] top = 1 /\ high \notin {48, 52} -> ListDataImm(w)
          [] top = 5 -> << NameS(w, IF Bit(w, 24) THEN "bl" ELSE "b", ""), AddrToken(SignedField(w, 0, 24) * 4 + 8) >>
          [] middle = 1245169 -> << NameS(w, "bx", ""), Rm(w) >>
          [] middle = 1245171 -> << NameS(w, "blx", ""), Rm(w) >>
          [] Bitfield(w, 26, 2) = 1 /\ high \notin {113, 115, 117} -> ListSingleTransfer(w)
          [] top = 0 /\ ~(Bit(w, 7) /\ Bit(w, 4)) /\ middle \notin {1245169, 1245171} -> ListDataReg(w)
          [] Bitfield(w, 21, 7) = 112 /\ low = 2576 -> ListVmov(w, "vmov")
          [] half -> ListVmov(w, "vmov.32")
          [] higher = 3373 /\ Bitfield(w, 8, 4) = 11 -> ListVstack(w, "vpush")
          [] higher = 3261 /\ Bitfield(w, 8, 4) = 11 -> ListVstack(w, "vpop")
          [] Bitfield(w, 23, 5) = 29 /\ Bitfield(w, 19, 3) = 7 /\ Bitfield(w, 9, 3) = 5 /\ Bit(w, 6) -> ListVcvt(w)
          [] higher = 3767 /\ Bitfield(w, 9, 3) = 5 /\ Bitfield(w, 4, 4) = 12 -> ListVcvtff(w)
          [] Bitfield(w, 24, 4) = 13 /\ higher # 3373 -> ListVfpTransfer(w)
          [] high = 235 /\ Bitfield(w, 8, 4) = 11 /\ ~(Bitfield(w, 19, 1) = 1 /\ Bit(w, 6))
             /\ ~(higher = 3767 /\ Bitfield(w, 4, 4) = 12) -> ListVopUnary(w)
          [] Bitfield(w, 21, 7) = 119 /\ Bit(w, 16) /\ low = 2576 -> ListFpscr(w)
          [] Bitfield(w, 24, 4) = 14 /\ Bitfield(w, 8, 4) = 11 /\ high # 235 /\ ~half -> ListVopBinary(w)
          [] OTHER -> <<>>

---------------------------------------------------------------------------
(* The texts of the assembler's manual for an instruction; the S and the   *)
(* condition in either order                                               *)
Amount(o) == << o[3], IF o[4][1] = "r" THEN R(o[4][2]) ELSE ToString(o[4][2]) >>
SecondText(o) == IF o[1] = "i" THEN Constant(o[2])
                 ELSE << R(o[2]) >> \o (IF o[4] = <<"i", 0>> THEN <<>> ELSE Amount(o))
DataTexts(w, ins) ==
    LET name == ins[1]
        o == ins[5]
        full == NameS(w, name, IF ins[2] /\ name \notin CompOps THEN "s" ELSE "")
        shift == IF name = "mov" /\ o[1] = "r" /\ o[4] # <<"i", 0>>
                 THEN {<< NameS(w, o[3], ""), R(ins[3]), R(o[2]), Amount(o)[2] >>} ELSE {}
    IN  {CASE name \in CompOps -> << full, R(ins[4]) >> \o SecondText(o)
           [] name \in AssignmentOps -> << full, R(ins[3]) >> \o SecondText(o)
           [] OTHER -> << full, R(ins[3]), R(ins[4]) >> \o SecondText(o)} \cup shift
TransferTexts(w, ins) ==
    LET offset == IF ins[4][1] = "i" THEN << Hex(ins[4][2]) >> ELSE SecondText(ins[4])
        shift == << Sign(ins[5]) >> \o offset
        place == IF ins[6] THEN << "[", R(ins[3]) >> \o shift \o << "]" >> \o (IF ins[7] THEN << "!" >> ELSE <<>>)
                 ELSE << "[", R(ins[3]), "]" >> \o shift
        short == CASE ins[1] = "str" /\ ins[6] -> {<< NameS(w, "push", ""), R(ins[2]) >>}
                   [] ins[1] = "ldr" /\ ~ins[6] -> {<< NameS(w, "pop", ""), R(ins[2]) >>}
                   [] OTHER -> {}
    IN  {<< NameS(w, ins[1], ""), R(ins[2]) >> \o place}
        \cup (IF ins[3] = Sp /\ ins[4] = <<"i", 4, 0>> /\ ins[7] /\ ins[5] # ins[6] THEN short ELSE {})
VfpTexts(w, ins) ==
    LET name == ins[1]
        V(d) == IF d[1] = "d" THEN DReg(d[2]) ELSE SReg(d[2])
        to == NameS(w, SubSeq(name, 1, Len(name) - 4), SubSeq(name, Len(name) - 3, Len(name)))
    IN  CASE name \in {"vldr", "vstr"} ->
                << NameS(w, name, ""), V(ins[2]), "[", R(ins[3]) >>
                \o (IF ins[4] = 0 THEN <<>> ELSE << Sign(ins[5]), Hex(AbsOf(ins[4])) >>) \o << "]" >>
          [] name \in {"vpush", "vpop"} -> << NameS(w, name, ""), DReg(ins[2]) >>
          [] name = "vmrs" -> << NameS(w, name, ""), IF ins[2] = 15 THEN "APSR" ELSE R(ins[2]), "fpscr" >>
          [] name = "vmsr" -> << NameS(w, name, ""), "fpscr", R(ins[2]) >>
          [] name = "tocore" -> << NameS(w, "vmov", ""), R(ins[2]), SReg(ins[3]) >>
          [] name = "fromcore" -> << NameS(w, "vmov", ""), SReg(ins[3]), R(ins[2]) >>
          [] name = "half" ->
                << NameS(w, "vmov", ".32"), DReg(ins[3]) \o "[" \o ToString(ins[4]) \o "]", R(ins[2]) >>
          [] name = "vcvt.f32.f64" -> << NameS(w, "vcvt", ".f32.f64"), SReg(ins[2]), DReg(ins[3]) >>
          [] name = "vcvt.f64.f32" -> << NameS(w, "vcvt", ".f64.f32"), DReg(ins[2]), SReg(ins[3]) >>
          [] name = "vcvt.f64.s32" -> << NameS(w, "vcvt", ".f64.s32"), DReg(ins[2]), SReg(ins[3]) >>
          [] name = "vcvt.s32.f64" -> << NameS(w, "vcvt", ".s32.f64"), SReg(ins[2]), DReg(ins[3]) >>
          [] name = "vcvtr.s32.f64" -> << NameS(w, "vcvtr", ".s32.f64"), SReg(ins[2]), DReg(ins[3]) >>
          [] Len(ins) = 2 -> << to, DReg(ins[2]) >> \o Constant(0)
          [] Len(ins) = 3 -> << to, DReg(ins[2]), DReg(ins[3]) >>
          [] OTHER -> << to, DReg(ins[2]), DReg(ins[3]), DReg(ins[4]) >>
ArmTexts(w) ==
    LET ins == ArmDecoded(w)
        name == ins[1]
    IN  CASE name = "nop" -> {<< NameS(w, "nop", "") >>}
          [] name \in {"bx", "blx"} -> {<< NameS(w, name, ""), R(ins[2]) >>}
          [] name \in {"b", "bl"} -> {<< NameS(w, name, ""), AddrToken(4 * ins[2] + 8) >>}
          [] name \in {"movw", "movt"} -> {<< NameS(w, name, ""), R(ins[2]) >> \o Constant(ins[3])}
          [] name \in {"mul", "smmul", "sdiv", "udiv"} -> {<< NameS(w, name, ""), R(ins[2]), R(ins[3]), R(ins[4]) >>}
          [] name \in Transfers -> TransferTexts(w, ins)
          [] name \in {"push", "pop"} -> {<< NameS(w, name, "") >> \o Braces(ins[2])}
          [] name \in Range(OpNames) -> DataTexts(w, ins)
          [] OTHER -> {VfpTexts(w, ins)}

(* The words the disassembler is known to print as another instruction:    *)
(* no operation; sums and differences of registers, the second of which is *)
(* printed as a number; shifts, but those of r0 by less than 16; offsets   *)
(* that are rotated, or of bytes and half-words from 128; single registers *)
(* above s10, and odd ones in moves; moves to the half of a double         *)
(* register, shown as a single one; offsets down of numbers; conversions   *)
(* from integers and with the mode of rounding; comparisons                *)
Misprinted(w) ==
    LET ins == ArmDecoded(w)
        name == ins[1]
        Singles == {ins[i] : i \in CASE name \in {"fromcore", "tocore", "vcvt.f64.f32"} -> {3}
                                     [] name \in {"vcvt.f32.f64", "vcvt.s32.f64"} -> {2} [] OTHER -> {}}
    IN  CASE name \in {"abort", "nop", "half", "vcvt.f64.s32", "vcvtr.s32.f64", "vcmpe.f64"} -> TRUE
          [] name \in {"and", "eor", "sub", "rsb", "add", "adc", "orr", "bic"} -> ins[5][1] = "r"
          [] name = "mov" /\ ins[5][1] = "r" ->
                ins[5][4] # <<"i", 0>> /\ (ins[5][2] # 0 \/ (ins[5][4][1] = "i" /\ ins[5][4][2] >= 16))
          [] name \in Transfers -> ins[4][1] = "i" /\ ins[4][2] >= IF Bit(w, 26) THEN 256 ELSE 128
          [] name \in {"vldr", "vstr"} -> ins[4] < 0 \/ (ins[2][1] = "s" /\ ins[2][2] > 10)
          [] OTHER -> \E s \in Singles : s > 10 \/ s % 2 = 1
=============================================================================
