----------------------------- MODULE MCEmitter -----------------------------
(* Families of short programs for the rewriting passes and the emitter.    *)
EXTENDS Emitter

MCReg == {"ax", "bx", "cx", "dx", "si"}
MCGpRegs == <<"ax", "bx", "cx", "dx", "si">>
MCSlots == -4 .. 1

File(a, b, c, d, s) ==
    [r \in MCReg |-> CASE r = "ax" -> a [] r = "bx" -> b [] r = "cx" -> c
                       [] r = "dx" -> d [] r = "si" -> s]
(* Small and large, positive and negative values                           *)
First == File(7, -3, 2, 5, -100)
Second == File(-128, 1, 3, -1, 6)
Third == File(4, 6, 1, 0, 7)
Files == {First, Second, Third}

Reg3(c, sign, d, s, x) == [NOP EXCEPT !.code = c, !.sign = sign, !.r = <<d, s, x>>]
Imm3(c, sign, d, s, n) ==
    [NOP EXCEPT !.code = c, !.sign = sign, !.r = <<d, s, None>>, !.imm = TRUE, !.k = n]
Programs1(lists, exits, options, files) ==
    [ops : lists, exit : exits, opt : options, file : files]
Singles(set) == {<<op>> : op \in set}

AB == {"ax", "bx"}
ABC == {"ax", "bx", "cx"}
ABCD == {"ax", "bx", "cx", "dx"}
ABS == {"ax", "bx", "si"}

(* The operations that need registers for themselves, in all registers     *)
Special == ({"MUL", "LSH"} \X {TRUE}) \cup ({"HMUL", "DIV", "MOD", "RSH"} \X BOOLEAN)
Exits == {E \cup {"bx"} : E \in SUBSET {"ax", "cx", "dx", "si"}}
SpecialReg == {Reg3(c[1], c[2], d, s, x) : c \in Special, d \in ABCD, s \in ABCD, x \in ABCD}
SpecialImm == {Imm3(c[1], c[2], d, s, n) : c \in Special, d \in ABCD, s \in ABCD,
                                           n \in {1, 2, 3, 4, 5, 7, 8, 9, 20}}

(* The others, in all combinations of the same and different registers     *)
Plain == (({"ADD", "SUB", "RSB", "AND", "OR", "XOR"} \X {TRUE}) \cup (Compares \X BOOLEAN))
PlainReg == {Reg3(c[1], c[2], d, s, x) : c \in Plain, d \in ABS, s \in ABS, x \in ABS}
            \cup {Reg3(c, TRUE, d, s, None) : c \in Unary, d \in AB, s \in AB}
            \cup {Reg3(c[1], c[2], None, s, x) : c \in Branches \X BOOLEAN, s \in AB, x \in AB}
PlainImm == {Imm3(c[1], c[2], d, s, n) : c \in Plain, d \in AB, s \in AB,
                                         n \in {-15, -1, 0, 15, -17, 100}}
            \cup {Imm3(c[1], c[2], None, s, n) :
                      c \in Branches \X BOOLEAN, s \in AB, n \in {-1, 0, 100}}

(* Sums and differences of two words                                       *)
Double == {<<"ADDC", "ADDX">>, <<"SUBC", "SUBX">>}
Carries == {<<Reg3(c[1], TRUE, d, "ax", x), Reg3(c[2], TRUE, e, t, y)>> :
               c \in Double, d \in AB, x \in ABC, e \in ABC, t \in ABC, y \in ABC}
           \cup {<<Imm3(c[1], TRUE, d, s, n), Imm3(c[2], TRUE, e, t, m)>> :
               c \in Double, d \in AB, s \in AB, e \in AB, t \in AB, n \in {-1, 5}, m \in {1, 100}}

(* Pairs that may be joined                                                *)
Live == {{"cx"} \cup E : E \in SUBSET {"ax", "bx"}}
Products == {Imm3("MUL", TRUE, d, s, n) : d \in AB, s \in AB, n \in {4, 3}}
            \cup {Imm3("LSH", TRUE, d, s, 1) : d \in AB, s \in AB}
Sums == {Imm3(c, TRUE, d, s, n) : c \in {"ADD", "OR", "SUB"}, d \in AB, s \in AB, n \in {3, -8}}
        \cup {Reg3("ADD", TRUE, d, s, x) : d \in AB, s \in ABC, x \in ABC}
Pairs == {<<p, q>> : p \in Products \cup Sums, q \in Sums}
Triples == {<<p, q, r>> :
               p \in {Imm3("MUL", TRUE, "ax", "bx", 4), Reg3("ADD", TRUE, "ax", "bx", "cx"),
                      Imm3("ADD", TRUE, "ax", "bx", 3)},
               q \in Sums,
               r \in {Reg3("ADD", TRUE, "ax", "ax", "cx"), Imm3("ADD", TRUE, "ax", "ax", 7),
                      Imm3("ADD", TRUE, "cx", "ax", 7), Imm3("MUL", TRUE, "ax", "ax", 2)}}

(* Constants that are stored                                               *)
StoreOps == {Reg3("ST", TRUE, d, s, None) : d \in ABC, s \in AB}
            \cup {Imm3("ST", TRUE, None, s, n) : s \in AB, n \in {3, 100}}
            \cup {Reg3("STX", TRUE, d, s, x) : d \in ABC, s \in ABC, x \in AB}
            \cup {[Imm3("STX", TRUE, None, s, n) EXCEPT !.r[3] = x] :
                     s \in ABC, x \in AB, n \in {3, 100}}
Constants == {<<Imm3("MOV", TRUE, d, None, n), q>> : d \in AB, n \in {0, 3, 100}, q \in StoreOps}

(***************************************************************************)
(* The programs the code does not translate as documented.                 *)
(***************************************************************************)
(* emit_shift_op with the value and the count in CX, or the count in the   *)
(* register that takes the place of CX; emit_div_op of a negative dividend *)
BadShift(op, exit) ==
    \/ BothInCX(op)
    \/ /\ op.code \in {"LSH", "RSH"} /\ ~op.imm
       /\ op.r[1] = "cx" /\ op.r[2] # "ax" /\ op.r[3] = "ax"
       /\ {"cx", "dx", "si"} \subseteq exit \cup {op.r[2]}
BadDiv(op, file) == op.code = "DIV" /\ op.sign /\ op.imm /\ op.k \in {2, 4, 8} /\ file[op.r[2]] < 0

(* A join of operations the second of which does not use the result of the *)
(* first, or subtracts, or whose constant, doubled or negated, does not    *)
(* fit into an instruction any more                                        *)
MayJoin(p, q) == JoinedMul(p, q) # {} \/ JoinedAdd(p, q) # {}
BadJoin(p, q) ==
    /\ MayJoin(p, q)
    /\ \/ p.r[1] \notin Uses(q)
       \/ p.code = "ADD" /\ ~p.imm /\ q.code = "SUB"
       \/ \E both \in JoinedAdd(p, q) : both.e \notin Imm

(* A constant stored through its own register                              *)
BadStore(p, q) == q.code \in Stores /\ Cardinality({i \in 1 .. 3 : q.r[i] = p.r[1]}) > 1

Bad(prog1) ==
    LET list == prog1.ops IN
    \/ \E i \in 1 .. Len(list) :
          BadShift(list[i], prog1.exit) \/ BadDiv(list[i], prog1.file)
    \/ \E i \in 1 .. Len(list) - 1 :
          BadJoin(list[i], list[i + 1]) \/ BadStore(list[i], list[i + 1])

Families == Programs1(Singles(SpecialReg), Exits, {{}}, Files)
            \cup Programs1(Singles(SpecialImm), {{"bx"}, MCReg \ {"si"}}, {{}}, Files)
            \cup Programs1(Singles(PlainReg), {MCReg}, {{}}, Files)
            \cup Programs1(Singles(PlainImm), {MCReg \ {"si"}}, {{}}, {First, Second})
            \cup Programs1(Carries, {ABCD}, {{}}, {First, Second})
            \cup Programs1(Pairs, Live, {{"join"}}, {First})
            \cup Programs1(Triples, {{"ax", "cx"}}, {{"join"}, {"join", "unused"}}, {First})
            \cup Programs1(Constants, Live, {{}, {"unused"}}, {First})

Everything == {p \in Families : ~Bad(p)}

(* A sum from which a constant is subtracted                               *)
Differences == Programs1({<<Reg3("ADD", TRUE, d, "bx", "cx"), Imm3("SUB", TRUE, e, d, n)>> :
                             d \in AB, e \in AB, n \in {3, -8}},
                         {{"ax", "bx"}}, {{"join"}}, Files)

ASSUME MCShiftsAssumption == ShiftsApart
=============================================================================
