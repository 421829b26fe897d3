------------------------------- MODULE Udis86 -------------------------------
(*************************************************************************)
(* The decoder behind jit_dump_ops(JIT_DEBUG_CODE): prefixes, opcode     *)
(* tables and operands of src/disasm/udis86, for the opcodes the x86     *)
(* encoders use; any other byte, and code that ends inside an            *)
(* instruction, decodes as "invalid".  Decode gives the instruction at   *)
(* `at` and the position after it.  A number is a sequence of 32-bit     *)
(* words, the low one first.                                             *)
(*************************************************************************)
EXTENDS Integers, Sequences, SequencesExt

NoReg == -1
RIP == -2

Byte(code, i) == IF i \in DOMAIN code THEN code[i] ELSE 0
SignedAt(code, i, n) ==
  LET top == Byte(code, i + n - 1)
      word[k \in 0..n] ==
        IF k = 0 THEN IF top > 127 THEN top - 256 ELSE top
        ELSE IF k = n THEN word[n - 1]
        ELSE word[k - 1] * 256 + Byte(code, i + n - 1 - k)
  IN word[n]

-----------------------------------------------------------------------------
(* The entries of ud_itab: mnemonic, operand codes with their sizes (the *)
(* SZ_ numbers of decode.h), the REX bits that count, P_def64.           *)

SzNA == 0
SzZ == 1
SzV == 2
SzY == 3

OperandCode ==
  [Ev |-> <<"E", SzV>>, Eb |-> <<"E", 8>>, Ew |-> <<"E", 16>>, Ed |-> <<"E", 32>>,
   Eq |-> <<"E", 64>>, Ey |-> <<"E", SzY>>, Gv |-> <<"G", SzV>>, Gb |-> <<"G", 8>>,
   Gw |-> <<"G", 16>>, Gq |-> <<"G", 64>>, Gy |-> <<"G", SzY>>, R0v |-> <<"R0", SzV>>,
   rAX |-> <<"rAX", SzV>>, CL |-> <<"CL", 8>>, I1 |-> <<"I1", SzNA>>,
   Ib |-> <<"I", 8>>, Iv |-> <<"I", SzV>>, Iz |-> <<"I", SzZ>>, Jb |-> <<"J", 8>>,
   Jz |-> <<"J", SzZ>>, M |-> <<"M", SzNA>>, Mw |-> <<"M", 16>>, Md |-> <<"M", 32>>,
   Mq |-> <<"M", 64>>, V |-> <<"V", 128>>, W |-> <<"W", 128>>, Wsd |-> <<"W", 64>>,
   MqU |-> <<"W", 64>>, MdU |-> <<"W", 32>>, P |-> <<"P", 64>>, Q |-> <<"Q", 64>>]

Entry(mn, ops, rex, def64) == [mn |-> mn, ops |-> ops, rex |-> rex, def64 |-> def64]
All == {8, 4, 2, 1}
NoW == {4, 2, 1}
Full(mn, ops) == Entry(mn, ops, All, FALSE)
Plain(mn, ops) == Entry(mn, ops, NoW, FALSE)
Invalid == Entry("invalid", << >>, {}, FALSE)

AluNames == <<"add", "or", "adc", "sbb", "and", "sub", "xor", "cmp">>
ShiftNames == <<"rol", "ror", "rcl", "rcr", "shl", "shr", "shl", "sar">>
CcNames == <<"o", "no", "b", "ae", "z", "nz", "be", "a",
             "s", "ns", "p", "np", "l", "ge", "le", "g">>
X87Single == <<"fld", "", "fst", "fstp", "fldenv", "fldcw", "fnstenv", "fnstcw">>
X87Double == <<"fld", "fisttp", "fst", "fstp", "frstor", "", "fnsave", "fnstsw">>

\* The groups, by the reg field of the byte after the opcode.
GroupF7(reg) ==
  IF reg < 2 THEN Full("test", <<"Ev", "Iz">>)
  ELSE Full(<<"not", "neg", "mul", "imul", "div", "idiv">>[reg - 1], <<"Ev">>)
GroupFF(reg, mode) ==
  CASE reg \in {0, 1} -> Full(<<"inc", "dec">>[reg + 1], <<"Ev">>)
    [] reg = 2 -> IF mode = 64 THEN Entry("call", <<"Eq">>, All, TRUE)
                               ELSE Full("call", <<"Ev">>)
    [] reg = 4 -> Entry("jmp", <<"Ev">>, All, TRUE)
    [] reg = 6 -> Entry("push", <<"Ev">>, All, TRUE)
    [] OTHER   -> Invalid
X87(names, reg, size) ==
  IF names[reg + 1] = "" THEN Invalid
  ELSE Plain(names[reg + 1], << CASE reg < 4 -> size
                                  [] names[reg + 1] \in {"fldcw", "fnstcw", "fnstsw"} -> "Mw"
                                  [] OTHER -> "M" >>)

\* By operand size: 0, 1, 2 for 16, 32 and 64 bits (eff_opr_mode / 32).
SizeIndex(u) == IF u.mode = 64 /\ (u.rex \div 8) % 2 = 1 THEN 2
                ELSE IF u.opr THEN 0 ELSE 1
Flags(name, u) ==
  CASE u.mode = 64 /\ SizeIndex(u) > 0 -> Entry(name \o "q", << >>, {}, TRUE)
    [] u.mode = 64 -> IF name = "popf" THEN Invalid
                      ELSE Entry(name \o "w", << >>, {8}, TRUE)
    [] OTHER -> Entry(name \o (IF u.opr THEN "w" ELSE "d"), << >>, {}, FALSE)

\* ud_itab__0: the opcodes of one byte.
OneByte(u, op, modrm) ==
  LET reg == (modrm \div 8) % 8 IN
  CASE op < 64 /\ op % 8 = 3 -> Full(AluNames[op \div 8 + 1], <<"Gv", "Ev">>)
    [] op < 64 /\ op % 8 = 5 -> Entry(AluNames[op \div 8 + 1], <<"rAX", "Iz">>, {8}, FALSE)
    [] op \in \h50..\h57 -> Entry("push", <<"R0v">>, {1}, TRUE)
    [] op \in \h58..\h5F -> Entry("pop", <<"R0v">>, {1}, TRUE)
    [] op = \h63 -> IF u.mode = 64 THEN Full("movsxd", <<"Gq", "Ed">>)
                    ELSE Entry("arpl", <<"Ew", "Gw">>, {}, FALSE)
    [] op = \h68 -> Entry("push", <<"Iz">>, {}, TRUE)
    [] op = \h6A -> Entry("push", <<"Ib">>, {}, TRUE)
    [] op \in \h70..\h7F -> Entry("j", <<"Jb">>, {}, FALSE)
    [] op = \h81 -> Full(AluNames[reg + 1], <<"Ev", "Iz">>)
    [] op = \h83 -> Full(AluNames[reg + 1], <<"Ev", "Ib">>)
    [] op = \h85 -> Full("test", <<"Ev", "Gv">>)
    [] op = \h87 -> Full("xchg", <<"Ev", "Gv">>)
    [] op = \h88 -> Plain("mov", <<"Eb", "Gb">>)
    [] op = \h89 -> Full("mov", <<"Ev", "Gv">>)
    [] op = \h8A -> Plain("mov", <<"Gb", "Eb">>)
    [] op = \h8B -> Full("mov", <<"Gv", "Ev">>)
    [] op = \h8D -> Full("lea", <<"Gv", "M">>)
    [] op = \h90 -> Entry("xchg", <<"R0v", "rAX">>, {8, 1}, FALSE)
    [] op = \h99 -> Entry(<<"cwd", "cdq", "cqo">>[SizeIndex(u) + 1], << >>, {8}, FALSE)
    [] op = \h9C -> Flags("pushf", u)
    [] op = \h9D -> Flags("popf", u)
    [] op = \hA9 -> Entry("test", <<"rAX", "Iz">>, {8}, FALSE)
    [] op \in \hB8..\hBF -> Entry("mov", <<"R0v", "Iv">>, {8, 1}, FALSE)
    [] op = \hC1 -> Full(ShiftNames[reg + 1], <<"Ev", "Ib">>)
    [] op = \hD1 -> Full(ShiftNames[reg + 1], <<"Ev", "I1">>)
    [] op = \hD3 -> Full(ShiftNames[reg + 1], <<"Ev", "CL">>)
    [] op = \hC3 -> Entry("ret", << >>, {}, FALSE)
    [] op = \hC6 /\ reg = 0 -> Full("mov", <<"Eb", "Ib">>)
    [] op = \hC7 /\ reg = 0 -> Full("mov", <<"Ev", "Iz">>)
    [] op = \hD9 /\ modrm < 192 -> X87(X87Single, reg, "Md")
    [] op = \hDD /\ modrm < 192 -> X87(X87Double, reg, "Mq")
    [] op = \hE8 -> Entry("call", <<"Jz">>, {}, TRUE)
    [] op = \hE9 -> Entry("jmp", <<"Jz">>, {}, TRUE)
    [] op = \hEB -> Entry("jmp", <<"Jb">>, {}, TRUE)
    [] op = \hF7 -> GroupF7(reg)
    [] op = \hFF -> GroupFF(reg, u.mode)
    [] OTHER -> Invalid

-----------------------------------------------------------------------------
(* ud_itab__4: the opcodes after 0F, and the tables the mandatory prefix *)
(* chooses from: no prefix, F2, F3, 66.                                  *)

Arithmetic(name) == << Plain(name \o "ps", <<"V", "W">>), Plain(name \o "sd", <<"V", "W">>),
                       Plain(name \o "ss", <<"V", "W">>), Plain(name \o "pd", <<"V", "W">>) >>
Logical(name) == << Plain(name \o "ps", <<"V", "W">>), Invalid,
                    Invalid, Plain(name \o "pd", <<"V", "W">>) >>
SseOpcodes == {\h10, \h11, \h12, \h13, \h2A, \h2C, \h2F, \h54, \h57,
               \h58, \h59, \h5A, \h5C, \h5E, \h6E, \hC6}
SseTable(op, modrm) ==
  CASE op = \h10 -> << Plain("movups", <<"V", "W">>), Plain("movsd", <<"V", "MqU">>),
                       Plain("movss", <<"V", "MdU">>), Plain("movupd", <<"V", "W">>) >>
    [] op = \h11 -> << Plain("movups", <<"W", "V">>), Plain("movsd", <<"W", "V">>),
                       Plain("movss", <<"W", "V">>), Plain("movupd", <<"W", "V">>) >>
    [] op = \h12 /\ modrm < 192 ->
                    << Plain("movlps", <<"V", "M">>), Plain("movddup", <<"V", "W">>),
                       Plain("movsldup", <<"V", "W">>), Plain("movlpd", <<"V", "M">>) >>
    [] op = \h12 -> << Plain("movhlps", <<"V", "W">>), Plain("movddup", <<"V", "W">>),
                       Plain("movsldup", <<"V", "W">>), Invalid >>
    [] op = \h13 -> << Plain("movlps", <<"M", "V">>), Invalid, Invalid,
                       Plain("movlpd", <<"M", "V">>) >>
    [] op = \h2A -> << Plain("cvtpi2ps", <<"V", "Q">>), Full("cvtsi2sd", <<"V", "Ey">>),
                       Full("cvtsi2ss", <<"V", "Ey">>), Plain("cvtpi2pd", <<"V", "Q">>) >>
    [] op = \h2C -> << Plain("cvttps2pi", <<"P", "W">>), Full("cvttsd2si", <<"Gy", "MqU">>),
                       Full("cvttss2si", <<"Gy", "MdU">>), Plain("cvttpd2pi", <<"P", "W">>) >>
    [] op = \h2F -> << Plain("comiss", <<"V", "W">>), Invalid, Invalid,
                       Plain("comisd", <<"V", "Wsd">>) >>
    [] op = \h54 -> Logical("and")
    [] op = \h57 -> Logical("xor")
    [] op = \h58 -> Arithmetic("add")
    [] op = \h59 -> Arithmetic("mul")
    [] op = \h5A -> << Plain("cvtps2pd", <<"V", "W">>), Plain("cvtsd2ss", <<"V", "W">>),
                       Plain("cvtss2sd", <<"V", "W">>), Plain("cvtpd2ps", <<"V", "W">>) >>
    [] op = \h5C -> Arithmetic("sub")
    [] op = \h5E -> << Plain("divps", <<"V", "W">>), Plain("divsd", <<"V", "MqU">>),
                       Plain("divss", <<"V", "MdU">>), Plain("divpd", <<"V", "W">>) >>
    [] op = \h6E -> << Full("movd", <<"P", "Ey">>), Invalid, Invalid,
                       Full("movd", <<"V", "Ey">>) >>
    [] op = \hC6 -> << Plain("shufps", <<"V", "W", "Ib">>), Invalid, Invalid,
                       Plain("shufpd", <<"V", "W", "Ib">>) >>

\* decode_ssepfx: F2 and F3 before 66; the prefix a table has an entry
\* for is part of the opcode and no longer an operand-size prefix.
SsePrefix(u, table) ==
  LET wanted == CASE u.str = \hF2 -> 1 [] u.str = \hF3 -> 2
                  [] u.str = 0 -> IF u.opr THEN 3 ELSE 0
  IN IF table[wanted + 1] = Invalid THEN 0 ELSE wanted
SseEntry(u, op, table, idx) ==
  LET left == [u EXCEPT !.opr = IF idx = 3 THEN FALSE ELSE u.opr]
      quad == op = \h6E /\ idx \in {0, 3} /\ SizeIndex(left) = 2
  IN [u     |-> left,
      entry |-> IF quad THEN Full("movq", <<table[idx + 1].ops[1], "Eq">>)
                ELSE table[idx + 1]]
SseLookup(u, op, table) == SseEntry(u, op, table, SsePrefix(u, table))

TwoByte(op) ==
  CASE op \in \h80..\h8F -> Entry("j", <<"Jz">>, {}, TRUE)
    [] op \in \h90..\h9F -> Plain("set", <<"Eb">>)
    [] op = \hB6 -> Full("movzx", <<"Gv", "Eb">>)
    [] op = \hB7 -> Full("movzx", <<"Gy", "Ew">>)
    [] op = \hBE -> Full("movsx", <<"Gv", "Eb">>)
    [] op = \hBF -> Full("movsx", <<"Gy", "Ew">>)
    [] OTHER -> Invalid

-----------------------------------------------------------------------------
(* Operands.  d is what the prefixes and the entry settle: the mode, the *)
(* operand size, the REX bits as 0 or 8, the position of the ModRM byte. *)

Width(d, size) ==
  CASE size = SzV -> d.opr_mode
    [] size = SzZ -> IF d.opr_mode = 16 THEN 16 ELSE 32
    [] size = SzY -> IF d.opr_mode = 16 THEN 32 ELSE d.opr_mode
    [] OTHER -> size

\* Without a REX byte, byte registers 4 to 7 are AH, CH, DH and BH.
HighByte(n) == 96 + n
Gpr(d, n, size) ==
  LET width == Width(d, size)
  IN [k |-> "reg", size |-> width,
      r |-> IF width = 8 /\ ~d.rexed /\ n \in 4..7 THEN HighByte(n) ELSE n]
Register(d, class, n, size) ==
  CASE class = "gpr" -> Gpr(d, n, size)
    [] class = "xmm" -> [k |-> "xmm", r |-> n]
    [] class = "mmx" -> [k |-> "mmx", r |-> n % 8]

ModrmReg(d, class, size) ==
  Register(d, class, d.R + ((Byte(d.code, d.modrm) \div 8) % 8), size)

\* decode_modrm_rm: the operand and the position after it.
ModrmRm(d, class, size) ==
  LET modrm == Byte(d.code, d.modrm)
      mod   == modrm \div 64
      rm    == d.B + (modrm % 8)
      sib   == IF rm % 8 = 4 THEN 1 ELSE 0
      s     == Byte(d.code, d.modrm + 1)
      base  == IF sib = 1 THEN d.B + (s % 8) ELSE rm
      index == d.X + ((s \div 8) % 8)
      bare  == mod = 0 /\ base % 8 = 5
      disp  == CASE mod = 1 -> 1 [] mod = 2 \/ bare -> 4 [] OTHER -> 0
      at    == d.modrm + 1 + sib
  IN IF mod = 3
       THEN [arg |-> Register(d, class, rm, size), pos |-> d.modrm + 1]
       ELSE [arg |-> [k     |-> "mem",
                      size  |-> Width(d, size),
                      base  |-> IF ~bare THEN base
                                ELSE IF d.mode = 64 /\ sib = 0 THEN RIP ELSE NoReg,
                      index |-> IF sib = 0 \/ index = 4 THEN NoReg ELSE index,
                      scale |-> IF sib = 0 \/ index = 4 \/ s \div 64 = 0 THEN 0
                                ELSE 2 ^ (s \div 64),
                      disp  |-> IF disp = 0 THEN 0 ELSE SignedAt(d.code, at, disp)],
             pos |-> at + disp]

Number(d, at, width) ==
  IF width = 64 THEN << SignedAt(d.code, at, 4), SignedAt(d.code, at + 4, 4) >>
                ELSE << SignedAt(d.code, at, width \div 8) >>

RmClass == [E |-> "gpr", M |-> "gpr", W |-> "xmm", Q |-> "mmx"]
RegClass == [G |-> "gpr", V |-> "xmm", P |-> "mmx"]

\* decode_operand, reading on from pos.
Operand(d, code, pos) ==
  LET type == OperandCode[code][1]
      size == OperandCode[code][2]
      opcode == Byte(d.code, d.modrm - 1)
  IN CASE type \in DOMAIN RmClass -> ModrmRm(d, RmClass[type], size)
       [] type \in DOMAIN RegClass ->
            [arg |-> ModrmReg(d, RegClass[type], size),
             pos |-> IF pos = d.modrm THEN pos + 1 ELSE pos]
       [] type = "R0"  -> [arg |-> Gpr(d, d.B + (opcode % 8), size), pos |-> pos]
       [] type = "rAX" -> [arg |-> Gpr(d, 0, size), pos |-> pos]
       [] type = "CL"  -> [arg |-> Gpr(d, 1, size), pos |-> pos]
       [] type = "I1"  -> [arg |-> [k |-> "const", v |-> <<1>>], pos |-> pos]
       [] type \in {"I", "J"} ->
            [arg |-> [k |-> IF type = "I" THEN "imm" ELSE "rel",
                      v |-> Number(d, pos, Width(d, size))],
             pos |-> pos + Width(d, size) \div 8]

\* resolve_mode
Resolve(u, entry, code, modrm) ==
  LET Bit(b) == b \in entry.rex /\ (u.rex \div b) % 2 = 1
      Eight(b) == IF Bit(b) THEN 8 ELSE 0
  IN [code |-> code, modrm |-> modrm, mode |-> u.mode, rexed |-> u.rex # 0,
      R |-> Eight(4), X |-> Eight(2), B |-> Eight(1),
      opr_mode |-> CASE Bit(8) -> 64
                     [] ~Bit(8) /\ u.opr -> 16
                     [] OTHER -> IF u.mode = 64 /\ entry.def64 THEN 64 ELSE 32]

\* resolve_mnemonic: an exchange of (e)ax with itself is nop.
IsNop(mn, args) ==
  mn = "xchg" /\ \A i \in 1..2 : args[i].k = "reg" /\ args[i].r = 0 /\ args[i].size < 64

-----------------------------------------------------------------------------
(* decode_prefixes and ud_decode.                                        *)

IsRex(mode, b) == mode = 64 /\ b \div 16 = 4
PrefixByte(mode, b) == b \in {\h66, \hF2, \hF3} \/ IsRex(mode, b)

OpcodeAt(mode, code, at) ==
  LET free == {i \in at..Len(code) : ~PrefixByte(mode, code[i])}
  IN IF free = {} THEN Len(code) + 1
     ELSE CHOOSE i \in free : \A j \in free : i <= j

\* A REX byte counts only right before the opcode.
DecodePrefixes(mode, code, at, opcode) ==
  LET before == at..opcode - 1
      strs == {i \in before : code[i] \in {\hF2, \hF3}}
  IN [mode |-> mode,
      opr  |-> \E i \in before : code[i] = \h66,
      str  |-> IF strs = {} THEN 0
               ELSE code[CHOOSE i \in strs : \A j \in strs : j <= i],
      rex  |-> IF before # {} /\ IsRex(mode, code[opcode - 1])
               THEN code[opcode - 1] ELSE 0]

\* decode_opcode: the prefixes that are left, and the table entry.
Lookup(u, long, op, modrm) ==
  CASE ~long -> [u |-> u, entry |-> OneByte(u, op, modrm)]
    [] long /\ op \in SseOpcodes -> SseLookup(u, op, SseTable(op, modrm))
    [] OTHER -> [u |-> u, entry |-> TwoByte(op)]

WithOperand(st, o) == [pos |-> o.pos, args |-> Append(st.args, o.arg)]
Operands(d, codes) ==
  FoldLeft(LAMBDA st, c : WithOperand(st, Operand(d, c, st.pos)),
           [pos |-> d.modrm, args |-> << >>], codes)

Finished(entry, op, end, length) ==
  LET memory == \A i \in DOMAIN end.args :
                  OperandCode[entry.ops[i]][1] = "M" => end.args[i].k = "mem"
      bad    == entry.mn = "invalid" \/ ~memory \/ end.pos > length + 1
  IN IF bad THEN [mn |-> "invalid", cc |-> "", args |-> << >>, next |-> end.pos]
     ELSE [mn   |-> IF IsNop(entry.mn, end.args) THEN "nop" ELSE entry.mn,
           cc   |-> IF entry.mn \in {"j", "set"} THEN CcNames[(op % 16) + 1] ELSE "",
           args |-> IF IsNop(entry.mn, end.args) THEN << >> ELSE end.args,
           next |-> end.pos]

\* found is what Lookup gives, modrm the position after the opcode.
DecodeOperands(code, modrm, found) ==
  Finished(found.entry, Byte(code, modrm - 1),
           Operands(Resolve(found.u, found.entry, code, modrm), found.entry.ops),
           Len(code))

DecodeOpcode(mode, code, at, first) ==
  LET long  == Byte(code, first) = \h0F
      modrm == IF long THEN first + 2 ELSE first + 1
  IN DecodeOperands(code, modrm,
       Lookup(DecodePrefixes(mode, code, at, first), long,
              Byte(code, modrm - 1), Byte(code, modrm)))

Decode(mode, code, at) == DecodeOpcode(mode, code, at, OpcodeAt(mode, code, at))

\* ud_syn_rel_target: where a relative operand leads.
RelTarget(insn) == insn.next + insn.args[1].v[1]
=============================================================================
