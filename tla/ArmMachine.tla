----------------------------- MODULE ArmMachine -----------------------------
(***************************************************************************)
(* An ARM processor of version 7 with VFP that runs a program of 32-bit    *)
(* words (ARM Architecture Reference Manual).                              *)
(*                                                                         *)
(* A state m is a record: pc, in words; the registers r; the flags; the    *)
(* single registers s, two of which are a double register, its lower word  *)
(* first; fpscr, the rounding mode, and vflags, the outcome of the last    *)
(* comparison; mem, a map from addresses to <<size, value>>; the calls of  *)
(* external functions; and trap.                                           *)
(***************************************************************************)
EXTENDS RiscMeaning

Junk == -4242
Sp == 13
Lr == 14

ArmStart(pc, file, singles, memory) ==
    [pc |-> pc, r |-> file, flags |-> {}, s |-> singles, fpscr |-> 0, vflags |-> {},
     mem |-> memory, calls |-> <<>>, trap |-> FALSE]

---------------------------------------------------------------------------
(* Decoding: an instruction is <<name, operands...>>.  The last operand of *)
(* a data operation or a transfer is <<"i", number, rotation>> or          *)
(* <<"r", register, shift, amount>>, the amount again <<"i", ...>> or      *)
(* <<"r", ...>>                                                            *)
CondNames == << "eq", "ne", "cs", "cc", "mi", "pl", "vs", "vc",
                "hi", "ls", "ge", "lt", "gt", "le", "", "nv" >>
CondOfWord(w) == CondNames[Bitfield(w, 28, 4) + 1]
OpNames == << "and", "eor", "sub", "rsb", "add", "adc", "sbc", "rsc",
              "tst", "teq", "cmp", "cmn", "orr", "mov", "bic", "mvn" >>
Shifts == << "lsl", "lsr", "asr", "ror" >>
Rotated(n, by) == Wrap((n % 2^by) * 2^(W - by) + n \div 2^by)

Shifted(w) ==
    <<"r", Bitfield(w, 0, 4), Shifts[Bitfield(w, 5, 2) + 1],
      IF Bit(w, 4) THEN <<"r", Bitfield(w, 8, 4)>> ELSE <<"i", Bitfield(w, 7, 5)>> >>
DataOperation(w) ==
    LET by == 2 * Bitfield(w, 8, 4) IN
    << OpNames[Bitfield(w, 21, 4) + 1], Bit(w, 20), Bitfield(w, 12, 4), Bitfield(w, 16, 4),
       IF Bit(w, 25) THEN <<"i", Rotated(Bitfield(w, 0, 8), by), by>> ELSE Shifted(w) >>

(* A transfer: name, register, base, offset, and whether it is added to    *)
(* the base, before the access, and whether the base is changed            *)
TransferOf(w, name, offset) ==
    << name, Bitfield(w, 12, 4), Bitfield(w, 16, 4), offset, Bit(w, 23), Bit(w, 24),
       Bit(w, 21) \/ ~Bit(w, 24) >>
SingleTransfer(w) ==
    TransferOf(w, (IF Bit(w, 20) THEN "ldr" ELSE "str") \o (IF Bit(w, 22) THEN "b" ELSE ""),
               IF Bit(w, 25) THEN Shifted(w) ELSE <<"i", Bitfield(w, 0, 12), 0>>)
HalfTransfer(w) ==
    TransferOf(w, (IF Bit(w, 20) THEN "ldr" ELSE "str") \o (IF Bit(w, 6) THEN "s" ELSE "")
                  \o (IF Bit(w, 5) THEN "h" ELSE "b"),
               IF Bit(w, 22) THEN <<"i", 16 * Bitfield(w, 8, 4) + Bitfield(w, 0, 4), 0>>
                             ELSE <<"r", Bitfield(w, 0, 4), "lsl", <<"i", 0>> >>)

(* Floating-point instructions, with their data type in the name           *)
VfpOf(w) ==
    LET vd == Bitfield(w, 12, 4)
        vn == Bitfield(w, 16, 4)
        vm == Bitfield(w, 0, 4)
        double == Bit(w, 8)
        SingleD == 2 * vd + Bitfield(w, 22, 1)
        SingleM == 2 * vm + Bitfield(w, 5, 1)
        SingleN == 2 * vn + Bitfield(w, 7, 1)
        kind == (IF Bit(w, 23) THEN 8 ELSE 0) + Bitfield(w, 20, 2)
        op == Bitfield(w, 6, 2)
        names == (2 :> <<"vmul.f64", "vnmul.f64">>) @@ (3 :> <<"vadd.f64", "vsub.f64">>)
                 @@ (8 :> <<"vdiv.f64", "vdiv.f64">>)
    IN  CASE Bitfield(w, 16, 12) = 3373 -> <<"vpush", vd>>
          [] Bitfield(w, 16, 12) = 3261 -> <<"vpop", vd>>
          [] Bitfield(w, 24, 4) = 13 ->
                << IF Bit(w, 20) THEN "vldr" ELSE "vstr", IF double THEN <<"d", vd>> ELSE <<"s", SingleD>>,
                   vn, IF Bit(w, 23) THEN 4 * Bitfield(w, 0, 8) ELSE -4 * Bitfield(w, 0, 8), Bit(w, 23) >>
          [] Bit(w, 4) /\ Bitfield(w, 21, 7) = 119 -> << IF Bit(w, 20) THEN "vmrs" ELSE "vmsr", vd >>
          [] Bit(w, 4) /\ ~double -> << IF Bit(w, 20) THEN "tocore" ELSE "fromcore", vd, SingleN >>
          [] Bit(w, 4) /\ double -> << "half", vd, 16 * Bitfield(w, 7, 1) + vn, Bitfield(w, 21, 1) >>
          [] kind = 11 /\ vn = 0 -> << IF op = 1 THEN "vmov.f64" ELSE "vabs.f64", vd, vm >>
          [] kind = 11 /\ vn = 1 -> <<"vneg.f64", vd, vm>>
          [] kind = 11 /\ vn = 4 -> <<"vcmpe.f64", vd, vm>>
          [] kind = 11 /\ vn = 5 -> <<"vcmpe.f64", vd>>
          [] kind = 11 /\ vn = 7 -> IF double THEN <<"vcvt.f32.f64", SingleD, vm>>
                                              ELSE <<"vcvt.f64.f32", vd, SingleM>>
          [] kind = 11 /\ vn = 8 -> <<"vcvt.f64.s32", vd, SingleM>>
          [] kind = 11 /\ vn = 13 -> << IF Bit(w, 7) THEN "vcvt.s32.f64" ELSE "vcvtr.s32.f64", SingleD, vm >>
          [] OTHER -> << names[kind][IF Bit(w, 6) THEN 2 ELSE 1], vd, vn, vm >>

ArmDecoded(w) ==
    LET top == Bitfield(w, 25, 3)
        high == Bitfield(w, 20, 8)
        rd == Bitfield(w, 12, 4)
        mask == {i \in 0 .. 15 : Bit(w, i)}
    IN  CASE w[1] < 0 -> <<"abort">>
          [] Bitfield(w, 4, 24) = 1245169 -> <<"bx", Bitfield(w, 0, 4)>>
          [] Bitfield(w, 4, 24) = 1245171 -> <<"blx", Bitfield(w, 0, 4)>>
          [] high = 50 -> <<"nop">>
          [] high \in {48, 52} -> << IF high = 48 THEN "movw" ELSE "movt", rd,
                                     2^12 * Bitfield(w, 16, 4) + Bitfield(w, 0, 12) >>
          [] high \in {113, 115, 117} ->
                << CASE high = 113 -> "sdiv" [] high = 115 -> "udiv" [] high = 117 -> "smmul",
                   Bitfield(w, 16, 4), Bitfield(w, 0, 4), Bitfield(w, 8, 4) >>
          [] high = 0 /\ Bitfield(w, 4, 4) = 9 ->
                <<"mul", Bitfield(w, 16, 4), Bitfield(w, 0, 4), Bitfield(w, 8, 4)>>
          [] top = 0 /\ Bit(w, 7) /\ Bit(w, 4) -> HalfTransfer(w)
          [] top \in {0, 1} -> DataOperation(w)
          [] top \in {2, 3} -> SingleTransfer(w)
          [] top = 4 -> << IF Bit(w, 20) THEN "pop" ELSE "push", mask >>
          [] top = 5 -> << IF Bit(w, 24) THEN "bl" ELSE "b", SignedField(w, 0, 24) >>
          [] top \in {6, 7} -> VfpOf(w)

---------------------------------------------------------------------------
(* Execution                                                               *)
SetR(m, rd, n) == [m EXCEPT !.r[rd] = Wrap(n)]
Advanced(m) == [m EXCEPT !.pc = m.pc + 1]

ArmHolds(cond, c) ==
    CASE cond = "eq" -> "z" \in c [] cond = "ne" -> "z" \notin c
      [] cond = "cs" -> "c" \in c [] cond = "cc" -> "c" \notin c
      [] cond = "vs" -> "v" \in c [] cond = "vc" -> "v" \notin c
      [] cond = "hi" -> "c" \in c /\ "z" \notin c [] cond = "ls" -> "c" \notin c \/ "z" \in c
      [] cond = "ge" -> ("n" \in c) = ("v" \in c) [] cond = "lt" -> ("n" \in c) # ("v" \in c)
      [] cond = "gt" -> "z" \notin c /\ ("n" \in c) = ("v" \in c)
      [] cond = "le" -> "z" \in c \/ ("n" \in c) # ("v" \in c)
      [] cond = "" -> TRUE

Moved(type, n, by) ==
    CASE type = "lsl" -> IF by >= W THEN 0 ELSE (Unsigned(n) % 2^(W - by)) * 2^by
      [] type = "lsr" -> IF by >= W THEN 0 ELSE Unsigned(n) \div 2^by
      [] type = "asr" -> IF by >= W THEN (IF n < 0 THEN -1 ELSE 0) ELSE n \div 2^by
(* The last operand; no shift to the right by nothing can be written       *)
Second(m, o) ==
    IF o[1] = "i" THEN o[2]
    ELSE LET by == IF o[4][1] = "r" THEN m.r[o[4][2]] % 2^8
                   ELSE IF o[4][2] = 0 /\ o[3] # "lsl" THEN 32 ELSE o[4][2]
         IN  Wrap(Moved(o[3], m.r[o[2]], by))

Sums == {"add", "adc", "sub", "rsb", "cmp"}
Summed(f, a, b, carry) ==
    CASE f = "add" -> a + b [] f = "adc" -> a + b + carry
      [] f \in {"sub", "cmp"} -> a - b [] f = "rsb" -> b - a
      [] f \in {"and", "tst"} -> OfBits(Bits(a) \cap Bits(b))
      [] f = "orr" -> OfBits(Bits(a) \cup Bits(b))
      [] f = "eor" -> OfBits(SymDiff(Bits(a), Bits(b)))
      [] f = "bic" -> OfBits(Bits(a) \ Bits(b))
      [] f = "mov" -> b [] f = "mvn" -> -b - 1
CarryOf(f, a, b, carry) ==
    CASE f \in {"add", "adc"} -> Unsigned(a) + Unsigned(b) + carry >= 2^W
      [] f \in {"sub", "cmp"} -> Unsigned(a) >= Unsigned(b)
      [] f = "rsb" -> Unsigned(b) >= Unsigned(a)
Flags(m, f, a, o, n, carry) ==
    LET b == Second(m, o)
        rotated == o[1] = "i" /\ o[3] # 0
    IN  (IF Wrap(n) < 0 THEN {"n"} ELSE {}) \cup (IF Wrap(n) = 0 THEN {"z"} ELSE {})
        \cup (IF f \in Sums THEN (IF n \notin Word THEN {"v"} ELSE {})
                                 \cup (IF CarryOf(f, a, b, carry) THEN {"c"} ELSE {})
              ELSE (m.flags \cap {"v"})
                   \cup (IF rotated THEN IF b < 0 THEN {"c"} ELSE {} ELSE m.flags \cap {"c"}))

DoArmData(m, ins) ==
    LET f == ins[1]
        a == m.r[ins[4]]
        carry == IF "c" \in m.flags THEN 1 ELSE 0
        n == Summed(f, a, Second(m, ins[5]), carry)
        t == IF f \in {"cmp", "tst"} THEN Advanced(m) ELSE SetR(Advanced(m), ins[3], n)
    IN  IF ins[2] THEN [t EXCEPT !.flags = Flags(m, f, a, ins[5], n, carry)] ELSE t

DoArmMul(m, ins) ==
    LET a == m.r[ins[3]]
        b == m.r[ins[4]]
        n == CASE ins[1] = "mul" -> a * b
               [] ins[1] = "smmul" -> (a * b) \div 2^W
               [] ins[1] = "sdiv" -> IF b = 0 THEN 0 ELSE Quotient(a, b)
               [] ins[1] = "udiv" -> IF b = 0 THEN 0 ELSE Unsigned(a) \div Unsigned(b)
    IN  SetR(Advanced(m), ins[2], n)

(* Memory: what is read with another size than it was written is junk      *)
Read(m, address, size) ==
    IF address \in DOMAIN m.mem /\ m.mem[address][1] = size THEN m.mem[address][2] ELSE Junk
Written(m, address, size, n) == [m EXCEPT !.mem = (address :> <<size, n>>) @@ m.mem]

Transfers == {"ldr", "ldrb", "ldrh", "ldrsb", "ldrsh", "str", "strb", "strh"}
DoArmTransfer(m, ins) ==
    LET base == m.r[ins[3]]
        offset == Second(m, ins[4])
        sum == Wrap(IF ins[5] THEN base + offset ELSE base - offset)
        at == IF ins[6] THEN sum ELSE base
        t == IF ins[7] THEN SetR(Advanced(m), ins[3], sum) ELSE Advanced(m)
        n == m.r[ins[2]]
    IN  CASE ins[1] = "ldr" -> SetR(t, ins[2], Read(m, at, 4))
          [] ins[1] = "ldrb" -> SetR(t, ins[2], Read(m, at, 1))
          [] ins[1] = "ldrh" -> SetR(t, ins[2], Read(m, at, 2))
          [] ins[1] = "ldrsb" -> SetR(t, ins[2], Reduced(Read(m, at, 1), ByteBits))
          [] ins[1] = "ldrsh" -> SetR(t, ins[2], Reduced(Read(m, at, 2), HalfBits))
          [] ins[1] = "str" -> Written(t, at, 4, n)
          [] ins[1] = "strb" -> Written(t, at, 1, n % 2^ByteBits)
          [] ins[1] = "strh" -> Written(t, at, 2, n % 2^HalfBits)

(* PUSH and POP: the lowest register at the lowest address                 *)
DoArmStack(m, ins) ==
    LET size == 4 * Cardinality(ins[2])
        low == IF ins[1] = "push" THEN m.r[Sp] - size ELSE m.r[Sp]
        At(i) == low + 4 * Cardinality({j \in ins[2] : j < i})
        t == SetR(Advanced(m), Sp, IF ins[1] = "push" THEN low ELSE low + size)
    IN  IF ins[1] = "push"
        THEN FoldSet(LAMBDA i, all : Written(all, At(i), 4, m.r[i]), t, ins[2])
        ELSE FoldSet(LAMBDA i, all : SetR(all, i, Read(m, At(i), 4)), t, ins[2])

(* The modes of rounding: to the nearest, ties to even; up; down; to zero  *)
ModeBit == 2^(W - 10)
RoundedIn(mode, q) ==
    CASE mode = 0 -> LET n == q \div 4 IN
                     IF q % 4 > 2 \/ (q % 4 = 2 /\ n % 2 = 1) THEN n + 1 ELSE n
      [] mode = 1 -> Rounded("CEIL", q)
      [] mode = 2 -> Rounded("FLOOR", q)
      [] mode = 3 -> Rounded("TRUNC", q)

DoVfpData(m, ins) ==
    LET D(v) == Double(m.s[2 * v + 1], m.s[2 * v])
        t == Advanced(m)
        Put1(vs, n) == [t EXCEPT !.s[vs] = Wrap(n)]
        Put2(vd, q) == [t EXCEPT !.s[2 * vd] = Lo(q), !.s[2 * vd + 1] = Hi(q)]
        Op3(code) == Put2(ins[2], FloatValue(code, D(ins[3]), D(ins[4])))
        sign == m.s[2 * ins[3] + 1]
        compared == FCompared(D(ins[2]), IF Len(ins) = 2 THEN 0 ELSE D(ins[3]))
        to == IF D(ins[3]) = Nan THEN 0
              ELSE RoundedIn(IF ins[1] = "vcvt.s32.f64" THEN 3 ELSE (m.fpscr \div ModeBit) % 4, D(ins[3]))
    IN  CASE ins[1] = "vadd.f64" -> Op3("FADD")
          [] ins[1] = "vsub.f64" -> Op3("FSUB")
          [] ins[1] = "vmul.f64" -> Op3("FMUL")
          [] ins[1] = "vdiv.f64" -> Op3("FDIV")
          [] ins[1] = "vmov.f64" ->
                [t EXCEPT !.s[2 * ins[2]] = m.s[2 * ins[3]], !.s[2 * ins[2] + 1] = sign]
          [] ins[1] = "vneg.f64" ->
                [t EXCEPT !.s[2 * ins[2]] = m.s[2 * ins[3]], !.s[2 * ins[2] + 1] = Flipped(sign)]
          [] ins[1] = "vabs.f64" ->
                [t EXCEPT !.s[2 * ins[2]] = m.s[2 * ins[3]], !.s[2 * ins[2] + 1] = Cleared(sign)]
          [] ins[1] = "vcmpe.f64" ->
                [t EXCEPT !.vflags = CASE compared = "less" -> {"n"} [] compared = "equal" -> {"z", "c"}
                                       [] compared = "greater" -> {"c"} [] compared = "unordered" -> {"c", "v"}]
          [] ins[1] = "vcvt.f32.f64" -> Put1(ins[2], Single(D(ins[3])))
          [] ins[1] = "vcvt.f64.f32" -> Put2(ins[2], OfSingle(m.s[ins[3]]))
          [] ins[1] = "vcvt.f64.s32" -> Put2(ins[2], 4 * m.s[ins[3]])
          [] ins[1] \in {"vcvt.s32.f64", "vcvtr.s32.f64"} -> Put1(ins[2], to)

VfpMoves == {"vldr", "vstr", "vpush", "vpop", "vmrs", "vmsr", "tocore", "fromcore", "half"}
DoVfpMove(m, ins) ==
    LET t == Advanced(m)
        at == Wrap(m.r[ins[3]] + ins[4])
        double == ins[2][1] = "d"
        v == IF double THEN 2 * ins[2][2] ELSE ins[2][2]
        LoadAt(u, i, address) == [u EXCEPT !.s[i] = Read(m, address, 4)]
        StoreAt(u, i, address) == Written(u, address, 4, m.s[i])
        vd == 2 * ins[2]
        top == m.r[Sp]
    IN  CASE ins[1] = "vldr" -> IF double THEN LoadAt(LoadAt(t, v, at), v + 1, at + 4) ELSE LoadAt(t, v, at)
          [] ins[1] = "vstr" -> IF double THEN StoreAt(StoreAt(t, v, at), v + 1, at + 4) ELSE StoreAt(t, v, at)
          [] ins[1] = "vpush" -> SetR(StoreAt(StoreAt(t, vd, top - 8), vd + 1, top - 4), Sp, top - 8)
          [] ins[1] = "vpop" -> SetR(LoadAt(LoadAt(t, vd, top), vd + 1, top + 4), Sp, top + 8)
          [] ins[1] = "vmrs" -> IF ins[2] = 15 THEN [t EXCEPT !.flags = m.vflags] ELSE SetR(t, ins[2], m.fpscr)
          [] ins[1] = "vmsr" -> [t EXCEPT !.fpscr = m.r[ins[2]]]
          [] ins[1] = "tocore" -> SetR(t, ins[2], m.s[ins[3]])
          [] ins[1] = "fromcore" -> [t EXCEPT !.s[ins[3]] = m.r[ins[2]]]
          [] ins[1] = "half" -> [t EXCEPT !.s[2 * ins[3] + ins[4]] = m.r[ins[2]]]

Obey(m, ins) ==
    CASE ins[1] = "abort" -> [m EXCEPT !.trap = TRUE]
      [] ins[1] = "nop" -> Advanced(m)
      [] ins[1] = "b" -> [m EXCEPT !.pc = m.pc + 2 + ins[2]]
      [] ins[1] = "bl" -> [SetR(m, Lr, 4 * (m.pc + 1)) EXCEPT !.pc = m.pc + 2 + ins[2]]
      [] ins[1] = "bx" -> [m EXCEPT !.pc = m.r[ins[2]] \div 4]
      [] ins[1] = "blx" -> [SetR(m, Lr, 4 * (m.pc + 1)) EXCEPT !.pc = m.r[ins[2]] \div 4]
      [] ins[1] = "movw" -> SetR(Advanced(m), ins[2], ins[3])
      [] ins[1] = "movt" ->
            SetR(Advanced(m), ins[2], (m.r[ins[2]] % 2^(W \div 2)) + ins[3] * 2^(W \div 2))
      [] ins[1] \in {"mul", "smmul", "sdiv", "udiv"} -> DoArmMul(m, ins)
      [] ins[1] \in Transfers -> DoArmTransfer(m, ins)
      [] ins[1] \in {"push", "pop"} -> DoArmStack(m, ins)
      [] ins[1] \in VfpMoves -> DoVfpMove(m, ins)
      [] ins[1] \in Range(OpNames) -> DoArmData(m, ins)
      [] OTHER -> DoVfpData(m, ins)
ArmStep(m, w) ==
    IF w[1] >= 0 /\ ~ArmHolds(CondOfWord(w), m.flags) THEN Advanced(m) ELSE Obey(m, ArmDecoded(w))
=============================================================================
