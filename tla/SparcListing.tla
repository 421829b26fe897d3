---------------------------- MODULE SparcListing ----------------------------
(***************************************************************************)
(* The SPARC disassembler (sparc-dis.c): the line spd_disassemble makes of *)
(* an instruction word, as a sequence of tokens without separators; and    *)
(* the lines the assembler's manual has for a word.                        *)
(***************************************************************************)
EXTENDS SparcMachine

RegNames == << "%g0", "%g1", "%g2", "%g3", "%g4", "%g5", "%g6", "%g7",
               "%o0", "%o1", "%o2", "%o3", "%o4", "%o5", "%sp", "%o7",
               "%l0", "%l1", "%l2", "%l3", "%l4", "%l5", "%l6", "%l7",
               "%i0", "%i1", "%i2", "%i3", "%i4", "%i5", "%fp", "%i7" >>
RegToken(n) == RegNames[n + 1]
FRegToken(n) == "%f" \o ToString(n)
Number(n) == ToString(n)
Hex(n) == "0x" \o ToString(n)
AddrToken(n) == "pc + " \o ToString(n)

---------------------------------------------------------------------------
(* decode_format1, decode_format2 and decode_format4                       *)
Bops == << "bn", "be", "ble", "bl", "bleu", "bcs", "bneg", "bvs",
           "ba", "bne", "bg", "bge", "bgu", "bcc", "bpos", "bvc" >>
Bfops == << "fbn", "fbne", "fblg", "fbul", "fbl", "fbug", "fbg", "fbu",
            "fba", "fbe", "fbue", "fbge", "fbuge", "fble", "fbule", "fbo" >>
Movops == << "movn", "move", "movle", "movl", "movleu", "movcs", "movneg", "movvs",
             "mova", "movne", "movg", "movge", "movgu", "movcc", "movpos", "movvc" >>

ListFormat2(w) ==
    LET rd == Bitfield(w, 25, 5)
        op2 == Bitfield(w, 22, 3)
        cond == Bitfield(w, 25, 4) + 1
    IN  CASE op2 = 4 -> IF rd = 0 THEN <<"nop">>
                        ELSE <<"sethi", "%hi", Hex(Bitfield(w, 0, 22) * 2^10), RegToken(rd)>>
          [] op2 \in {2, 6} -> << IF op2 = 2 THEN Bops[cond] ELSE Bfops[cond],
                                  AddrToken(SignedField(w, 0, 22) * 4) >>

ListFormat4(w) ==
    << Movops[Bitfield(w, 14, 4) + 1],
       IF Bit(w, 13) THEN Number(SignedField(w, 0, 11)) ELSE RegToken(Bitfield(w, 0, 5)),
       RegToken(Bitfield(w, 25, 5)) >>

(* The operands of format 3                                                *)
IndirectAddr(f) ==
    IF f.imm THEN <<RegToken(f.rs1)>> \o
                  (IF f.simm > 0 THEN <<"+", Number(f.simm)>>
                   ELSE IF f.simm < 0 THEN <<"-", Number(-f.simm)>> ELSE <<>>)
    ELSE IF f.rs1 # 0 /\ f.rs2 # 0 THEN <<RegToken(f.rs1), "+", RegToken(f.rs2)>>
    ELSE <<RegToken(IF f.rs1 # 0 THEN f.rs1 ELSE f.rs2)>>
MemTokens(f) == <<"[">> \o IndirectAddr(f) \o <<"]">>
RegOrSimm13Unsigned(f) == IF f.imm THEN Number(f.simm % 2^13) ELSE RegToken(f.rs2)
RegOrSimm13(f) == IF f.imm THEN Number(f.simm) ELSE RegToken(f.rs2)
RegOrImm13(f) == IF f.imm THEN Hex(f.simm % 2^9) ELSE RegToken(f.rs2)

(* decode_synthetic_3_10 and decode_synthetic_3_11: <<>> when there is no  *)
(* synthetic name                                                          *)
Unless(same, other, reg) == IF same THEN <<>> ELSE <<RegToken(other)>>
SyntheticAlu(f) ==
    LET rd == RegToken(f.rd) IN
    IF f.op3 = 20 /\ f.rd = 0 THEN <<"cmp", RegToken(f.rs1), RegOrSimm13(f)>>
    ELSE IF f.op3 = 18 /\ ~f.imm /\ f.rd = 0 /\ f.rs1 = 0 THEN <<"tst", RegToken(f.rs2)>>
    ELSE IF f.op3 \in {4, 7} /\ ~f.imm /\ f.rs2 = 0
    THEN <<IF f.op3 = 7 THEN "not" ELSE "neg">> \o Unless(f.rs1 = f.rd, f.rs1, rd) \o <<rd>>
    ELSE IF f.op3 = 2 /\ ~f.imm /\ f.rs1 = 0 /\ f.rs2 = 0 THEN <<"clr", rd>>
    ELSE IF f.op3 = 2 /\ f.rs1 = 0 THEN <<"mov", RegOrSimm13(f), rd>>
    ELSE IF f.rs1 = f.rd /\ f.imm /\ f.op3 \in {0, 16, 4, 20}
    THEN <<CASE f.op3 = 0 -> "inc" [] f.op3 = 16 -> "inccc" [] f.op3 = 4 -> "dec" [] f.op3 = 20 -> "deccc">>
         \o (IF f.simm # 1 THEN <<Number(f.simm)>> ELSE <<>>) \o <<rd>>
    ELSE <<>>
SyntheticControl(f) ==
    IF f.op3 = 61 /\ ~f.imm /\ f.rd = 0 /\ f.rs1 = 0 /\ f.rs2 = 0 THEN <<"restore">>
    ELSE IF f.op3 = 56 /\ f.rd = 0
    THEN IF f.imm /\ f.simm = 8 /\ f.rs1 = 31 THEN <<"ret">>
         ELSE IF f.imm /\ f.simm = 8 /\ f.rs1 = 15 THEN <<"retl">>
         ELSE <<"jmp">> \o IndirectAddr(f)
    ELSE IF f.op3 = 56 /\ f.rd = 15 THEN <<"call">> \o IndirectAddr(f)
    ELSE IF f.op3 = 40 /\ f.rs1 = 0 THEN <<"rd", "%y", RegToken(f.rd)>>
    ELSE IF f.op3 = 48 /\ f.rd = 0 THEN <<"wr", RegToken(f.rs1), RegOrImm13(f), "%y">>
    ELSE <<>>
Synthetic11(f) ==
    IF f.rd = 0 /\ f.op3 \in {4, 5, 6}
    THEN <<CASE f.op3 = 4 -> "clr" [] f.op3 = 5 -> "clrb" [] f.op3 = 6 -> "clrh">> \o MemTokens(f)
    ELSE <<>>

(* opcodes_3_11, opcodes_3_10 and opcodes_3fop, with the formats           *)
Loads == (0 :> "ld") @@ (1 :> "ldub") @@ (2 :> "lduh") @@ (3 :> "ldd") @@ (9 :> "ldsb") @@ (10 :> "ldsh")
Stores3 == (4 :> "st") @@ (5 :> "stb") @@ (6 :> "sth") @@ (7 :> "std")
FloatLoads == (32 :> "ldf") @@ (35 :> "lddf")
FloatStores == (36 :> "stf") @@ (39 :> "stdf")
Logic == (1 :> "and") @@ (17 :> "andcc") @@ (5 :> "andn") @@ (21 :> "andncc") @@ (2 :> "or")
         @@ (18 :> "orcc") @@ (22 :> "orn") @@ (3 :> "xor") @@ (19 :> "xorcc") @@ (7 :> "xnor")
         @@ (23 :> "xnorcc")
Sums3 == (37 :> "sll") @@ (38 :> "srl") @@ (39 :> "sra") @@ (0 :> "add") @@ (16 :> "addcc")
         @@ (8 :> "addx") @@ (24 :> "addxcc") @@ (4 :> "sub") @@ (20 :> "subcc") @@ (12 :> "subx")
         @@ (28 :> "subxcc") @@ (10 :> "umul") @@ (11 :> "smul") @@ (26 :> "umulcc")
         @@ (27 :> "smulcc") @@ (14 :> "udiv") @@ (15 :> "sdiv") @@ (30 :> "udivcc")
         @@ (31 :> "sdivcc") @@ (60 :> "save") @@ (61 :> "restore")
Fop2s == (196 :> "fitos") @@ (200 :> "fitod") @@ (132 :> "fxtos") @@ (136 :> "fxtod") @@ (209 :> "fstoi")
         @@ (210 :> "fdtoi") @@ (201 :> "fstod") @@ (198 :> "fdtos") @@ (1 :> "fmovs") @@ (2 :> "fmovd")
         @@ (5 :> "fnegs") @@ (6 :> "fnegd") @@ (9 :> "fabss") @@ (10 :> "fabsd") @@ (41 :> "fsqrts")
         @@ (42 :> "fsqrtd")
Fop3s == (65 :> "fadds") @@ (66 :> "faddd") @@ (69 :> "fsubs") @@ (70 :> "fsubd") @@ (73 :> "fmuls")
         @@ (74 :> "fmuld") @@ (77 :> "fdivs") @@ (78 :> "fdivd")
Fcmps == (81 :> "fcmps") @@ (82 :> "fcmpd") @@ (85 :> "fcmpes") @@ (86 :> "fcmped")
Unknown == <<"???">>

ListFop(f) ==
    CASE f.opf \in DOMAIN Fop2s -> <<Fop2s[f.opf], FRegToken(f.rs2), FRegToken(f.rd)>>
      [] f.opf \in DOMAIN Fop3s -> <<Fop3s[f.opf], FRegToken(f.rs1), FRegToken(f.rs2), FRegToken(f.rd)>>
      [] f.opf \in DOMAIN Fcmps -> <<Fcmps[f.opf], FRegToken(f.rs1), FRegToken(f.rs2)>>
      [] OTHER -> Unknown
List10(f) ==
    CASE f.op3 \in DOMAIN Logic -> <<Logic[f.op3], RegToken(f.rs1), RegOrImm13(f), RegToken(f.rd)>>
      [] f.op3 \in DOMAIN Sums3 -> <<Sums3[f.op3], RegToken(f.rs1), RegOrSimm13(f), RegToken(f.rd)>>
      [] f.op3 = 56 -> <<"jmpl">> \o IndirectAddr(f) \o <<RegToken(f.rd)>>
      [] OTHER -> Unknown
List11(f) ==
    CASE f.op3 \in DOMAIN Loads -> <<Loads[f.op3]>> \o MemTokens(f) \o <<RegToken(f.rd)>>
      [] f.op3 \in DOMAIN FloatLoads -> <<FloatLoads[f.op3]>> \o MemTokens(f) \o <<FRegToken(f.rd)>>
      [] f.op3 \in DOMAIN Stores3 -> <<Stores3[f.op3], RegToken(f.rd)>> \o MemTokens(f)
      [] f.op3 \in DOMAIN FloatStores -> <<FloatStores[f.op3], FRegToken(f.rd)>> \o MemTokens(f)
      [] OTHER -> Unknown

(* decode_format3                                                          *)
ListFormat3(w) ==
    LET f == [rd |-> Bitfield(w, 25, 5), rs1 |-> Bitfield(w, 14, 5), rs2 |-> Bitfield(w, 0, 5),
              op3 |-> Bitfield(w, 19, 6), imm |-> Bit(w, 13), simm |-> SignedField(w, 0, 13),
              opf |-> Bitfield(w, 5, 9)]
        two == Bitfield(w, 30, 2) = 2
        synthetic == IF ~two THEN Synthetic11(f)
                     ELSE IF SyntheticAlu(f) # <<>> THEN SyntheticAlu(f) ELSE SyntheticControl(f)
    IN  IF synthetic # <<>> THEN synthetic
        ELSE IF two /\ f.op3 \in {52, 53} THEN ListFop(f)
        ELSE IF two /\ f.op3 = 44 THEN ListFormat4(w)
        ELSE IF two THEN List10(f) ELSE List11(f)

(* spd_disassemble                                                         *)
SparcListing(w) ==
    CASE Bitfield(w, 30, 2) = 1 -> <<"call", AddrToken(SignedField(w, 0, 30) * 4)>>
      [] Bitfield(w, 30, 2) = 0 -> ListFormat2(w)
      [] OTHER -> ListFormat3(w)

---------------------------------------------------------------------------
(* The texts of the assembler's manual for an instruction                  *)
Seconds(ins) == IF ins[4][1] = "r" THEN {RegToken(ins[4][2])}
                ELSE {Number(ins[4][2])} \cup (IF ins[4][2] >= 0 THEN {Hex(ins[4][2])} ELSE {})
Addresses(ins) ==
    LET base == RegToken(ins[3])
        n == ins[4][2]
    IN  IF ins[4][1] = "r"
        THEN {<<base, "+", RegToken(n)>>} \cup (IF n = 0 THEN {<<base>>} ELSE {})
             \cup (IF ins[3] = 0 THEN {<<RegToken(n)>>} ELSE {})
        ELSE {<<base, "+", Number(n)>>} \cup (IF n = 0 THEN {<<base>>} ELSE {})
             \cup (IF n < 0 THEN {<<base, "-", Number(-n)>>} ELSE {})
InBrackets(ins) == {<<"[">> \o a \o <<"]">> : a \in Addresses(ins)}

SyntheticTexts(ins, rd, rs1) ==
    LET name == ins[1]
        zero == ins[4] = <<"r", 0>>
        short == IF ins[2] = ins[3] THEN {<<rd>>} ELSE {}
    IN  CASE name = "subcc" /\ ins[2] = 0 -> {<<"cmp", rs1, s>> : s \in Seconds(ins)}
          [] name = "xnor" /\ zero -> {<<"not">> \o o : o \in short \cup {<<rs1, rd>>}}
          [] name = "sub" /\ ins[3] = 0 /\ ins[4][1] = "r" ->
                {<<"neg", s, rd>> : s \in Seconds(ins)}
                \cup (IF ins[4][2] = ins[2] THEN {<<"neg", rd>>} ELSE {})
          [] name = "or" /\ ins[3] = 0 -> {<<"mov", s, rd>> : s \in Seconds(ins)}
                                          \cup (IF zero THEN {<<"clr", rd>>} ELSE {})
          [] name \in {"add", "addcc", "sub", "subcc"} /\ ins[2] = ins[3] /\ ins[4][1] = "i" ->
                LET short2 == CASE name = "add" -> "inc" [] name = "addcc" -> "inccc"
                                [] name = "sub" -> "dec" [] name = "subcc" -> "deccc"
                IN  {<<short2, Number(ins[4][2]), rd>>}
                    \cup (IF ins[4][2] = 1 THEN {<<short2, rd>>} ELSE {})
          [] OTHER -> {}

FloatText(ins) ==
    LET from == FRegToken(ins[4][2]) IN
    IF ins[1] = "fcmpd" THEN <<"fcmpd", FRegToken(ins[3]), from>>
    ELSE IF ins[1] \in {"faddd", "fsubd", "fmuld", "fdivd"}
    THEN <<ins[1], FRegToken(ins[3]), from, FRegToken(ins[2])>>
    ELSE <<ins[1], from, FRegToken(ins[2])>>
MemTexts(ins) ==
    LET float == ins[1] \in {"ldf", "lddf", "stf", "stdf"}
        reg == IF float THEN FRegToken(ins[2]) ELSE RegToken(ins[2])
        clear == CASE ins[1] = "st" -> "clr" [] ins[1] = "stb" -> "clrb" [] ins[1] = "sth" -> "clrh"
    IN  IF ins[1] \in {"st", "stb", "sth", "stf", "stdf"}
        THEN {<<ins[1], reg>> \o a : a \in InBrackets(ins)}
             \cup (IF ins[2] = 0 /\ ~float THEN {<<clear>> \o a : a \in InBrackets(ins)} ELSE {})
        ELSE {<<ins[1]>> \o a \o <<reg>> : a \in InBrackets(ins)}
JmplTexts(ins) ==
    {<<"jmpl">> \o a \o <<RegToken(ins[2])>> : a \in Addresses(ins)}
    \cup (IF ins[2] = 0 THEN {<<"jmp">> \o a : a \in Addresses(ins)} ELSE {})
    \cup (IF ins[2] = 15 THEN {<<"call">> \o a : a \in Addresses(ins)} ELSE {})
    \cup (IF ins[2] = 0 /\ ins[4] = <<"i", 8>> /\ ins[3] = 31 THEN {<<"ret">>} ELSE {})

SparcTexts(w) ==
    LET ins == SparcDecoded(w)
        name == ins[1]
    IN  CASE name = "call" -> {<<"call", AddrToken(4 * ins[2])>>}
          [] name = "sethi" -> {<<"sethi", "%hi", Hex(ins[3] * 2^10), RegToken(ins[2])>>}
                               \cup (IF ins[2] = 0 THEN {<<"nop">>} ELSE {})
          [] name = "b" -> {<<"b" \o ins[2], AddrToken(4 * ins[3])>>}
          [] name = "fb" -> {<<"fb" \o ins[2], AddrToken(4 * ins[3])>>}
          [] name = "mov" -> {<<"mov" \o ins[3], IF ins[5] = 4 THEN "%icc" ELSE "%xcc",
                                Number(ins[4]), RegToken(ins[2])>>}
          [] name = "rd" -> {<<"rd", "%y", RegToken(ins[2])>>}
          [] name = "wr" -> {<<"wr", RegToken(ins[3]), s, "%y">> : s \in Seconds(ins)}
          [] name = "jmpl" -> JmplTexts(ins)
          [] name \in {MemName[i] : i \in DOMAIN MemName} -> MemTexts(ins)
          [] name \in {FopName[i] : i \in DOMAIN FopName} -> {FloatText(ins)}
          [] OTHER -> {<<name, RegToken(ins[3]), s, RegToken(ins[2])>> : s \in Seconds(ins)}
                      \cup SyntheticTexts(ins, RegToken(ins[2]), RegToken(ins[3]))

(* The words the disassembler is known to print as another instruction:    *)
(* moves on a condition, whose condition codes are left out; differences   *)
(* from which nothing is subtracted, printed as negations; and logical     *)
(* operations with constants of more than 9 bits                           *)
Misprinted(w) ==
    LET op3 == Bitfield(w, 19, 6) IN
    /\ Bitfield(w, 30, 2) = 2
    /\ \/ op3 = 44
       \/ op3 = 4 /\ ~Bit(w, 13) /\ Bitfield(w, 0, 5) = 0
       \/ op3 \in DOMAIN Logic \cup {48} /\ Bit(w, 13) /\ Bitfield(w, 0, 13) >= 2^9
=============================================================================
