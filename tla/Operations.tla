----------------------------- MODULE Operations -----------------------------
(***************************************************************************)
(* Operations of straight-line code and what they compute: jitlib.h and    *)
(* the liveness of a list without branches (flow-analysis.h).  Meaning is  *)
(* the reference the other modules are compared with: the instruction set  *)
(* as the documentation states it ("O1 := O2 - O3"), on registers of W     *)
(* bits.                                                                   *)
(***************************************************************************)
EXTENDS Integers, Sequences, FiniteSetsExt, SequencesExt

CONSTANTS
    W,   \* bits of a register (REG_SIZE * 8)
    I,   \* bits of an immediate value of a machine instruction (32)
    Reg  \* registers

ASSUME WidthAssumption == I \in Nat \ {0} /\ W \in Nat /\ I < W

(***************************************************************************)
(* Words: signed numbers of W bits.  Wrap is what is left of a result that *)
(* does not fit, Short what is left of a value written into an instruction *)
(***************************************************************************)
Within(bits) == -(2^(bits - 1)) .. 2^(bits - 1) - 1
Word == Within(W)
Imm == Within(I)
Reduced(n, bits) == ((n + 2^(bits - 1)) % (2^bits)) - 2^(bits - 1)
Wrap(n) == Reduced(n, W)
Short(n) == Reduced(n, I)
Unsigned(n) == n % 2^W
As(sign, n) == IF sign THEN n ELSE Unsigned(n)

Bits(n) == {i \in 0 .. W - 1 : (Unsigned(n) \div 2^i) % 2 = 1}
OfBits(S) == Wrap(SumSet({2^i : i \in S}))

AbsOf(n) == IF n < 0 THEN -n ELSE n
Quotient(a, b) == IF (a < 0) = (b < 0) THEN AbsOf(a) \div AbsOf(b)
                                       ELSE -(AbsOf(a) \div AbsOf(b))
Remainder(a, b) == a - b * Quotient(a, b)

(***************************************************************************)
(* An operation: code with the flags SIGNED and IMM, its register operands *)
(* r (None where the operand is not a register), its immediate operand k,  *)
(* and e, the second immediate of the operations the optimiser makes.      *)
(* Codes of binary operations are those of the source without JIT_.        *)
(***************************************************************************)
None == "none"
NOP == [code |-> "NOP", sign |-> TRUE, imm |-> FALSE, r |-> <<None, None, None>>,
        k |-> 0, e |-> 0]

Compares == {"LT", "LE", "GT", "GE", "EQ", "NE"}
Arithmetic == {"ADD", "ADDC", "ADDX", "SUB", "SUBC", "SUBX", "RSB", "MUL", "HMUL",
               "DIV", "MOD", "AND", "OR", "XOR", "LSH", "RSH"}
Overflows == {"BOADD", "BOSUB", "BNOADD", "BNOSUB"}
CompareBranches == {"BLT", "BLE", "BGT", "BGE", "BEQ", "BNE"}
Branches == CompareBranches \cup {"BMS", "BMC"} \cup Overflows
Stores == {"ST", "STX", "X86_STI", "X86_STXI"}
Unary == {"MOV", "NEG", "NOT"}
Joined == {"X86_ADDMUL", "X86_ADDIMM"}
Code == Compares \cup Arithmetic \cup Branches \cup Stores \cup Unary \cup Joined
        \cup {"NOP"}
Op == [code : Code, sign : BOOLEAN, imm : BOOLEAN, k : Int, e : Int,
       r : [1 .. 3 -> Reg \cup {None}]]

(* ARG_TYPE(op, 1) = TREG: the operation assigns its first operand         *)
HasTarget(op) == op.code \in Compares \cup Arithmetic \cup Unary \cup Joined

(* The registers an operation reads and the ones it writes, which its spec *)
(* records.  The spec of an overflow branch names O2 as read only.         *)
Uses(op) == {op.r[i] : i \in IF HasTarget(op) THEN {2, 3} ELSE {1, 2, 3}} \ {None}
Defs(op) == IF HasTarget(op) THEN {op.r[1]} ELSE {}

(* live_in and live_out of the operations of a list after which `exit' are *)
(* live, as the analysis finds them                                        *)
Liveness(list, exit) ==
    LET In(i, out) == Uses(list[i]) \cup (out \ Defs(list[i]))
        outs[i \in 1 .. Len(list)] ==
            IF i = Len(list) THEN exit ELSE In(i + 1, outs[i + 1])
    IN  [i \in 1 .. Len(list) |-> [in |-> In(i, outs[i]), out |-> outs[i]]]

---------------------------------------------------------------------------
(***************************************************************************)
(* The meaning of an operation: a state s is the registers, the carry, the *)
(* stores made so far <<address, value>>, and whether the branch is taken. *)
(***************************************************************************)
Holds(cond, a, b) ==
    CASE cond \in {"LT", "BLT"} -> a < b
      [] cond \in {"LE", "BLE"} -> a <= b
      [] cond \in {"GT", "BGT"} -> a > b
      [] cond \in {"GE", "BGE"} -> a >= b
      [] cond \in {"EQ", "BEQ"} -> a = b
      [] cond \in {"NE", "BNE"} -> a # b

Computed(op, a, b, carry) ==
    LET c == IF carry THEN 1 ELSE 0
        u == As(op.sign, a)
        v == As(op.sign, b)
    IN  CASE op.code \in {"ADD", "ADDC"} -> a + b
          [] op.code = "ADDX" -> a + (b + c)
          [] op.code \in {"SUB", "SUBC"} -> a - b
          [] op.code = "SUBX" -> a - (b + c)
          [] op.code = "RSB" -> b - a
          [] op.code = "MUL" -> a * b
          [] op.code = "HMUL" -> (u * v) \div 2^W
          [] op.code = "DIV" -> Quotient(u, v)
          [] op.code = "MOD" -> Remainder(u, v)
          [] op.code = "AND" -> OfBits(Bits(a) \cap Bits(b))
          [] op.code = "OR" -> OfBits(Bits(a) \cup Bits(b))
          [] op.code = "XOR" -> OfBits(SymDiff(Bits(a), Bits(b)))
          [] op.code = "LSH" -> a * 2^b
          [] op.code = "RSH" -> u \div 2^b
          [] op.code \in Compares -> IF Holds(op.code, u, v) THEN 1 ELSE 0

CarryOut(op, a, b) == IF op.code = "ADDC" THEN Unsigned(a) + Unsigned(b) >= 2^W
                                          ELSE Unsigned(a) < Unsigned(b)

(* The value of the last operand                                           *)
Operand(op, i, reg) == IF op.r[i] = None THEN op.k ELSE reg[op.r[i]]

Taken(op, a, b) ==
    CASE op.code \in CompareBranches -> Holds(op.code, As(op.sign, a), As(op.sign, b))
      [] op.code = "BMS" -> Bits(a) \cap Bits(b) # {}
      [] op.code = "BMC" -> Bits(a) \cap Bits(b) = {}
      [] op.code = "BOADD" -> a + b \notin Word
      [] op.code = "BNOADD" -> a + b \in Word
      [] op.code = "BOSUB" -> a - b \notin Word
      [] op.code = "BNOSUB" -> a - b \in Word

Assign(s, r, n) == [s EXCEPT !.reg[r] = Wrap(n)]
Put(s, address, value) == [s EXCEPT !.out = Append(s.out, <<Wrap(address), value>>)]

Meaning(s, op) ==
    LET a == Operand(op, 2, s.reg)
        b == Operand(op, 3, s.reg)
    IN  CASE op.code = "NOP" -> s
          [] op.code = "MOV" -> Assign(s, op.r[1], a)
          [] op.code = "NEG" -> Assign(s, op.r[1], -a)
          [] op.code = "NOT" -> Assign(s, op.r[1], -a - 1)
          [] op.code \in {"ADDC", "SUBC"} ->
                [Assign(s, op.r[1], Computed(op, a, b, s.carry))
                    EXCEPT !.carry = CarryOut(op, a, b)]
          [] op.code \in (Arithmetic \cup Compares) \ {"ADDC", "SUBC"} ->
                Assign(s, op.r[1], Computed(op, a, b, s.carry))
          [] op.code \in {"BOADD", "BNOADD"} ->
                [Assign(s, op.r[2], a + b) EXCEPT !.taken = Taken(op, a, b)]
          [] op.code \in {"BOSUB", "BNOSUB"} ->
                [Assign(s, op.r[2], a - b) EXCEPT !.taken = Taken(op, a, b)]
          [] op.code \in Branches \ Overflows -> [s EXCEPT !.taken = Taken(op, a, b)]
          [] op.code = "ST" -> Put(s, Operand(op, 1, s.reg), s.reg[op.r[2]])
          [] op.code = "STX" -> Put(s, Operand(op, 1, s.reg) + a, s.reg[op.r[3]])
          [] op.code = "X86_STI" -> Put(s, Operand(op, 1, s.reg), op.e)
          [] op.code = "X86_STXI" -> Put(s, Operand(op, 1, s.reg) + a, op.e)
          [] op.code = "X86_ADDMUL" ->
                Assign(s, op.r[1], IF op.imm THEN a * 2^op.e + op.k ELSE a + b * 2^op.e)
          [] op.code = "X86_ADDIMM" -> Assign(s, op.r[1], a + b + op.e)

(* A list of operations run from the registers reg                         *)
Start(reg) == [reg |-> reg, carry |-> FALSE, out |-> <<>>, taken |-> FALSE]
RunFrom(list, reg) == FoldLeft(Meaning, Start(reg), list)

(* Two states a program that only reads `exit' afterwards cannot tell apart *)
SameOn(exit, s, t) == /\ \A r \in exit : s.reg[r] = t.reg[r]
                      /\ s.out = t.out /\ s.taken = t.taken

(***************************************************************************)
(* The documentation gives an operation a meaning when its divisor is not  *)
(* zero, its quotient fits, and its shift is by less than a register.      *)
(***************************************************************************)
Defined(op, reg) ==
    LET a == As(op.sign, Operand(op, 2, reg))
        b == As(op.sign, Operand(op, 3, reg))
    IN  /\ op.code \in {"DIV", "MOD"} => b # 0 /\ (op.sign => Quotient(a, b) \in Word)
        /\ op.code \in {"LSH", "RSH"} => b \in 0 .. W - 1

ListDefined(list, reg) ==
    \A i \in 1 .. Len(list) : Defined(list[i], RunFrom(SubSeq(list, 1, i - 1), reg).reg)
=============================================================================
