---------------------------- MODULE SparcMachine ----------------------------
(***************************************************************************)
(* A SPARC processor of version 9 that runs a program of 32-bit words, and *)
(* the texts its assembler accepts for an instruction word (The SPARC      *)
(* Architecture Manual).  Registers have twice W bits; a 32-bit program    *)
(* loads and stores their lower halves.                                    *)
(*                                                                         *)
(* A state m is a record: pc and npc, in words; the 32 registers r of the  *)
(* current window and the locals and ins of the windows below; y; the      *)
(* condition codes icc, xcc and fcc; the floating-point registers f, of W  *)
(* bits each; mem, a map from addresses to <<size, value>>; the calls of   *)
(* external functions; and trap.                                           *)
(***************************************************************************)
EXTENDS RiscMeaning

Whole(n) == Reduced(n, 2 * W)
UWhole(n) == n % 2^(2 * W)
Junk == -4242

SparcStart(pc, file, floats, memory) ==
    [pc |-> pc, npc |-> pc + 1, r |-> [file EXCEPT ![0] = 0], windows |-> <<>>, y |-> Junk,
     icc |-> {}, xcc |-> {}, fcc |-> "unordered", f |-> floats, mem |-> memory, calls |-> <<>>,
     trap |-> FALSE]

---------------------------------------------------------------------------
(* Decoding: an instruction is <<name, destination, first source, second   *)
(* source, ...>>, the second source <<"r", register>> or <<"i", number>>   *)
AluName == (0 :> "add") @@ (1 :> "and") @@ (2 :> "or") @@ (3 :> "xor") @@ (4 :> "sub")
           @@ (5 :> "andn") @@ (6 :> "orn") @@ (7 :> "xnor") @@ (8 :> "addx") @@ (10 :> "umul")
           @@ (11 :> "smul") @@ (12 :> "subx") @@ (14 :> "udiv") @@ (15 :> "sdiv")
CcName == [add |-> "addcc", and |-> "andcc", or |-> "orcc", xor |-> "xorcc", sub |-> "subcc",
           andn |-> "andncc", orn |-> "orncc", xnor |-> "xnorcc", addx |-> "addxcc",
           umul |-> "umulcc", smul |-> "smulcc", subx |-> "subxcc", udiv |-> "udivcc",
           sdiv |-> "sdivcc"]
OtherName == (37 :> "sll") @@ (38 :> "srl") @@ (39 :> "sra") @@ (40 :> "rd") @@ (44 :> "mov")
             @@ (48 :> "wr") @@ (56 :> "jmpl") @@ (60 :> "save") @@ (61 :> "restore")
MemName == (0 :> "ld") @@ (1 :> "ldub") @@ (2 :> "lduh") @@ (4 :> "st") @@ (5 :> "stb") @@ (6 :> "sth")
           @@ (9 :> "ldsb") @@ (10 :> "ldsh") @@ (32 :> "ldf") @@ (35 :> "lddf") @@ (36 :> "stf")
           @@ (39 :> "stdf")
FopName == (1 :> "fmovs") @@ (5 :> "fnegs") @@ (9 :> "fabss") @@ (66 :> "faddd") @@ (70 :> "fsubd")
           @@ (74 :> "fmuld") @@ (78 :> "fdivd") @@ (198 :> "fdtos") @@ (200 :> "fitod")
           @@ (201 :> "fstod") @@ (210 :> "fdtoi") @@ (82 :> "fcmpd")
CondName == <<"n", "e", "le", "l", "leu", "cs", "neg", "vs",
              "a", "ne", "g", "ge", "gu", "cc", "pos", "vc">>
FCondName == <<"n", "ne", "lg", "ul", "l", "ug", "g", "u",
               "a", "e", "ue", "ge", "uge", "le", "ule", "o">>

SparcDecoded(w) ==
    LET op == Bitfield(w, 30, 2)
        op2 == Bitfield(w, 22, 3)
        op3 == Bitfield(w, 19, 6)
        rd == Bitfield(w, 25, 5)
        rs1 == Bitfield(w, 14, 5)
        cond == Bitfield(w, 25, 4) + 1
        second == IF Bit(w, 13) THEN <<"i", SignedField(w, 0, 13)>> ELSE <<"r", Bitfield(w, 0, 5)>>
    IN  CASE op = 1 -> <<"call", SignedField(w, 0, 30)>>
          [] op = 0 /\ op2 = 4 -> <<"sethi", rd, Bitfield(w, 0, 22)>>
          [] op = 0 /\ op2 = 2 -> <<"b", CondName[cond], SignedField(w, 0, 22)>>
          [] op = 0 /\ op2 = 6 -> <<"fb", FCondName[cond], SignedField(w, 0, 22)>>
          [] op = 2 /\ op3 = 44 ->
                <<"mov", rd, CondName[Bitfield(w, 14, 4) + 1], SignedField(w, 0, 11),
                  4 * Bitfield(w, 18, 1) + Bitfield(w, 11, 2)>>
          [] op = 2 /\ op3 \in DOMAIN AluName -> <<AluName[op3], rd, rs1, second>>
          [] op = 2 /\ op3 - 16 \in DOMAIN AluName -> <<CcName[AluName[op3 - 16]], rd, rs1, second>>
          [] op = 2 /\ op3 \in DOMAIN OtherName \ {44} -> <<OtherName[op3], rd, rs1, second>>
          [] op = 2 /\ op3 \in {52, 53} ->
                <<FopName[Bitfield(w, 5, 9)], rd, rs1, <<"f", Bitfield(w, 0, 5)>> >>
          [] op = 3 -> <<MemName[op3], rd, rs1, second>>

---------------------------------------------------------------------------
(* Execution                                                               *)
SetR(m, rd, n) == IF rd = 0 THEN m ELSE [m EXCEPT !.r[rd] = Whole(n)]
Next2(m) == [m EXCEPT !.pc = m.npc, !.npc = m.npc + 1]
GoTo(m, target) == [m EXCEPT !.pc = m.npc, !.npc = target]

BitwiseOf(f, a, b) ==
    LET Digit(n, i) == (n \div 2^i) % 2
        Holds1(i) == LET x == Digit(a, i) = 1
                         y == Digit(b, i) = 1
                     IN  CASE f = "and" -> x /\ y [] f = "or" -> x \/ y
                           [] f = "xor" -> x # y [] f = "xnor" -> x = y
    IN  FoldLeft(LAMBDA sum, i : 2 * sum + (IF Holds1(i) THEN 1 ELSE 0), 0,
                 [i \in 1 .. 2 * W |-> 2 * W - i])

ShiftLeft(n, count) == IF count >= 2 * W THEN 0 ELSE (n % 2^(2 * W - count)) * 2^count
ShiftRight(n, count) == IF count >= 2 * W THEN (IF n < 0 THEN -1 ELSE 0) ELSE n \div 2^count

AluResult(f, a, b, carry) ==
    CASE f = "add" -> a + b
      [] f = "addx" -> a + b + carry
      [] f = "sub" -> a - b
      [] f = "subx" -> a - b - carry
      [] f \in {"and", "or", "xor", "xnor"} -> BitwiseOf(f, a, b)
      [] f = "umul" -> Unsigned(a) * Unsigned(b)
      [] f = "smul" -> Wrap(a) * Wrap(b)
      [] f = "sll" -> ShiftLeft(a, b % 32)
      [] f = "srl" -> ShiftRight(Unsigned(a), b % 32)
      [] f = "sra" -> ShiftRight(Wrap(a), b % 32)

(* Negative, zero, overflow and carry of the sum or difference of numbers  *)
(* of `bits' bits; a logical result has neither of the last two            *)
Codes(f, a, b, carry, n, bits) ==
    LET x == Reduced(a, bits)
        y == Reduced(b, bits)
        Up(z) == z % 2^bits
        exact == IF f \in {"add", "addx"} THEN x + y + carry ELSE x - y - carry
        sums == f \in {"add", "addx", "sub", "subx"}
    IN  (IF Reduced(n, bits) < 0 THEN {"n"} ELSE {})
        \cup (IF Reduced(n, bits) = 0 THEN {"z"} ELSE {})
        \cup (IF sums /\ exact # Reduced(exact, bits) THEN {"v"} ELSE {})
        \cup (IF \/ f \in {"add", "addx"} /\ Up(x) > 2^bits - 1 - (Up(y) + carry)
                 \/ f \in {"sub", "subx"} /\ Up(x) < Up(y) + carry THEN {"c"} ELSE {})

PlainOf(name) == CHOOSE f \in DOMAIN CcName : CcName[f] = name
CcNames == {CcName[f] : f \in DOMAIN CcName}

DoSparcAlu(m, ins, b) ==
    LET sets == ins[1] \in CcNames
        f == IF sets THEN PlainOf(ins[1]) ELSE ins[1]
        a == m.r[ins[3]]
        carry == IF f \in {"addx", "subx"} /\ "c" \in m.icc THEN 1 ELSE 0
        n == AluResult(f, a, b, carry)
        t == SetR(Next2(m), ins[2], n)
        u == IF f \in {"umul", "smul"} THEN [t EXCEPT !.y = n \div 2^W] ELSE t
    IN  IF sets THEN [u EXCEPT !.icc = Codes(f, a, b, carry, n, W),
                               !.xcc = Codes(f, a, b, carry, n, 2 * W)]
                ELSE u

DoSparcDiv(m, ins, b) ==
    LET signed == ins[1] = "sdiv"
        n == As(signed, Wrap(m.y)) * 2^W + Unsigned(m.r[ins[3]])
        d == As(signed, Wrap(b))
    IN  IF d = 0 \/ (signed /\ Quotient(n, d) \notin Word) \/ (~signed /\ n \div d >= 2^W)
        THEN [m EXCEPT !.trap = TRUE]
        ELSE SetR(Next2(m), ins[2], IF signed THEN Quotient(n, d) ELSE n \div d)

SparcHolds(cond, c) ==
    CASE cond = "e" -> "z" \in c [] cond = "ne" -> "z" \notin c
      [] cond = "l" -> ("n" \in c) # ("v" \in c) [] cond = "ge" -> ("n" \in c) = ("v" \in c)
      [] cond = "le" -> "z" \in c \/ ("n" \in c) # ("v" \in c)
      [] cond = "g" -> "z" \notin c /\ ("n" \in c) = ("v" \in c)
      [] cond = "cs" -> "c" \in c [] cond = "cc" -> "c" \notin c
      [] cond = "leu" -> "c" \in c \/ "z" \in c [] cond = "gu" -> "c" \notin c /\ "z" \notin c
      [] cond = "vs" -> "v" \in c [] cond = "vc" -> "v" \notin c
      [] cond = "a" -> TRUE
SparcFHolds(cond, c) ==
    CASE cond = "e" -> c = "equal" [] cond = "ne" -> c # "equal" [] cond = "l" -> c = "less"
      [] cond = "g" -> c = "greater" [] cond = "ge" -> c \in {"greater", "equal"}
      [] cond = "le" -> c \in {"less", "equal"}

(* Memory: what is read with another size than it was written is junk      *)
Read(m, address, size) ==
    IF address \in DOMAIN m.mem /\ m.mem[address][1] = size THEN m.mem[address][2] ELSE Junk
Written(m, address, size, n) == [m EXCEPT !.mem = (address :> <<size, n>>) @@ m.mem]

DoSparcMem(m, ins, b) ==
    LET at == Wrap(m.r[ins[3]] + b)
        rd == ins[2]
        t == Next2(m)
        n == m.r[rd]
    IN  CASE ins[1] = "ld" -> SetR(t, rd, Unsigned(Read(m, at, 4)))
          [] ins[1] = "ldub" -> SetR(t, rd, Read(m, at, 1))
          [] ins[1] = "lduh" -> SetR(t, rd, Read(m, at, 2))
          [] ins[1] = "ldsb" -> SetR(t, rd, Reduced(Read(m, at, 1), ByteBits))
          [] ins[1] = "ldsh" -> SetR(t, rd, Reduced(Read(m, at, 2), HalfBits))
          [] ins[1] = "st" -> Written(t, at, 4, Wrap(n))
          [] ins[1] = "stb" -> Written(t, at, 1, n % 2^ByteBits)
          [] ins[1] = "sth" -> Written(t, at, 2, n % 2^HalfBits)
          [] ins[1] = "ldf" -> [t EXCEPT !.f[rd] = Read(m, at, 4)]
          [] ins[1] = "lddf" -> [t EXCEPT !.f[rd] = Read(m, at, 4), !.f[rd + 1] = Read(m, at + 4, 4)]
          [] ins[1] = "stf" -> Written(t, at, 4, m.f[rd])
          [] ins[1] = "stdf" -> Written(Written(t, at, 4, m.f[rd]), at + 4, 4, m.f[rd + 1])

DoSparcFop(m, ins) ==
    LET rd == ins[2]
        D(r) == Double(m.f[r], m.f[r + 1])
        a == D(ins[3])
        rs2 == ins[4][2]
        t == Next2(m)
        Put1(n) == [t EXCEPT !.f[rd] = n]
        Put2(q) == [t EXCEPT !.f[rd] = Hi(q), !.f[rd + 1] = Lo(q)]
    IN  CASE ins[1] = "fmovs" -> Put1(m.f[rs2])
          [] ins[1] = "fnegs" -> Put1(Flipped(m.f[rs2]))
          [] ins[1] = "fabss" -> Put1(Cleared(m.f[rs2]))
          [] ins[1] = "faddd" -> Put2(FloatValue("FADD", a, D(rs2)))
          [] ins[1] = "fsubd" -> Put2(FloatValue("FSUB", a, D(rs2)))
          [] ins[1] = "fmuld" -> Put2(FloatValue("FMUL", a, D(rs2)))
          [] ins[1] = "fdivd" -> Put2(FloatValue("FDIV", a, D(rs2)))
          [] ins[1] = "fdtos" -> Put1(Single(D(rs2)))
          [] ins[1] = "fstod" -> Put2(OfSingle(m.f[rs2]))
          [] ins[1] = "fitod" -> Put2(4 * m.f[rs2])
          [] ins[1] = "fdtoi" -> Put1(Rounded("TRUNC", D(rs2)))
          [] ins[1] = "fcmpd" -> [t EXCEPT !.fcc = FCompared(a, D(rs2))]

(* SAVE and RESTORE: the outs of a window are the ins of the next          *)
DoSparcWindow(m, ins, n) ==
    LET t == Next2(m)
        top == m.windows[Len(m.windows)]
    IN  IF ins[1] = "save"
        THEN SetR([t EXCEPT !.r = [i \in 0 .. 31 |-> CASE i < 8 -> m.r[i] [] i \in 8 .. 23 -> Junk
                                                       [] i >= 24 -> m.r[i - 16]],
                            !.windows = Append(m.windows, [i \in 16 .. 31 |-> m.r[i]])], ins[2], n)
        ELSE SetR([t EXCEPT !.r = [i \in 0 .. 31 |-> CASE i < 8 -> m.r[i] [] i \in 8 .. 15 -> m.r[i + 16]
                                                       [] i >= 16 -> top[i]],
                            !.windows = Front(m.windows)], ins[2], n)

SparcStep(m, word) ==
    LET ins == SparcDecoded(word)
        name == ins[1]
        b == IF ins[4][1] = "i" THEN ins[4][2] ELSE m.r[ins[4][2]]
        target(disp) == m.pc + disp
    IN  CASE name = "call" -> SetR(GoTo(m, target(ins[2])), 15, 4 * m.pc)
          [] name = "sethi" -> SetR(Next2(m), ins[2], ins[3] * 2^10)
          [] name = "b" -> IF SparcHolds(ins[2], m.icc) THEN GoTo(m, target(ins[3])) ELSE Next2(m)
          [] name = "fb" -> IF SparcFHolds(ins[2], m.fcc) THEN GoTo(m, target(ins[3])) ELSE Next2(m)
          [] name = "mov" -> IF SparcHolds(ins[3], IF ins[5] = 4 THEN m.icc ELSE m.xcc)
                             THEN SetR(Next2(m), ins[2], ins[4]) ELSE Next2(m)
          [] name = "rd" -> SetR(Next2(m), ins[2], Unsigned(m.y))
          [] name = "wr" -> [Next2(m) EXCEPT !.y = BitwiseOf("xor", m.r[ins[3]], b)]
          [] name = "jmpl" -> SetR(GoTo(m, (m.r[ins[3]] + b) \div 4), ins[2], 4 * m.pc)
          [] name \in {"udiv", "sdiv"} -> DoSparcDiv(m, ins, b)
          [] name \in {"save", "restore"} -> DoSparcWindow(m, ins, m.r[ins[3]] + b)
          [] name \in {MemName[i] : i \in DOMAIN MemName} -> DoSparcMem(m, ins, b)
          [] name \in {FopName[i] : i \in DOMAIN FopName} -> DoSparcFop(m, ins)
          [] OTHER -> DoSparcAlu(m, ins, b)
=============================================================================
