---------------------------- MODULE RiscMeaning ----------------------------
(***************************************************************************)
(* What the documentation promises of the operations that Operations       *)
(* leaves out: loads and stores by size, floating-point operations, calls  *)
(* and arguments, and the moves to and from memory that the register       *)
(* allocator adds.  The reference for the SPARC and ARM32 back ends.       *)
(*                                                                         *)
(* A floating-point number is counted in quarters, so that halves and      *)
(* their rounding are in the model; Nan is not comparable with any.        *)
(***************************************************************************)
EXTENDS Operations, TLC

CONSTANTS
    ByteBits, HalfBits,  \* bits of the cells of 1 and of 2 bytes (8 and 16)
    Result, FResult,     \* what an external function returns
    Printf               \* the address of printf

ASSUME SizesAssumption == 0 < ByteBits /\ ByteBits < HalfBits /\ HalfBits < W

(* An operation has, besides the fields of Operations, arg_size, the       *)
(* virtual register v of an operation of the register allocator, and       *)
(* `fwd' for a branch to JIT_FORWARD, which a later PATCH directs there.   *)
Plain == [code |-> "NOP", sign |-> TRUE, imm |-> FALSE, r |-> <<None, None, None>>,
          k |-> 0, e |-> 0, size |-> 4, v |-> <<None, 0>>, fwd |-> FALSE]

FloatSums == {"FADD", "FSUB", "FRSB", "FMUL", "FDIV"}
FloatBranches == {"FBLT", "FBLE", "FBGT", "FBGE", "FBEQ", "FBNE"}
FloatMemory == {"FLD", "FLDX", "FST", "FSTX"}
Roundings == {"TRUNC", "FLOOR", "CEIL", "ROUND"}
FloatCode == FloatSums \cup FloatBranches \cup FloatMemory \cup Roundings
             \cup {"FMOV", "FNEG", "FRET", "FPUTARG", "FRETVAL"}

Nan == 99999
FloatValue(code, a, b) ==
    IF Nan \in {a, b} THEN Nan
    ELSE CASE code = "FADD" -> a + b
           [] code = "FSUB" -> a - b
           [] code = "FRSB" -> b - a
           [] code = "FMUL" -> Quotient(a * b, 4)
           [] code = "FDIV" -> Quotient(a * 4, b)
FloatHolds(code, a, b) ==
    IF Nan \in {a, b} THEN code = "FBNE"
    ELSE CASE code = "FBLT" -> a < b
           [] code = "FBLE" -> a <= b
           [] code = "FBGT" -> a > b
           [] code = "FBGE" -> a >= b
           [] code = "FBEQ" -> a = b
           [] code = "FBNE" -> a # b
Rounded(code, a) ==
    CASE code = "TRUNC" -> Quotient(a, 4)
      [] code = "FLOOR" -> a \div 4
      [] code = "CEIL" -> -((-a) \div 4)
      [] code = "ROUND" -> IF a < 0 THEN -((2 - a) \div 4) ELSE (a + 2) \div 4
Negated(a) == IF a = Nan THEN Nan ELSE -a

(* Memory is a map from addresses to <<what is there, its value>>          *)
Contents(op) == IF op.code \in FloatMemory
                THEN IF op.size = 4 THEN "single" ELSE "double"
                ELSE CASE op.size = 1 -> "byte" [] op.size = 2 -> "half" [] op.size = 4 -> "word"
CellBits(what) == CASE what = "byte" -> ByteBits [] what = "half" -> HalfBits [] what = "word" -> W
Loaded(op, cell) ==
    IF op.code \in FloatMemory THEN cell[2]
    ELSE IF op.sign THEN Reduced(cell[2], CellBits(cell[1])) ELSE cell[2] % 2^CellBits(cell[1])
Stored(op, n) == <<Contents(op), IF op.code \in FloatMemory THEN n
                                 ELSE n % 2^CellBits(Contents(op))>>

(***************************************************************************)
(* The state adds to that of Operations: mem; input, the arguments the     *)
(* function was called with; args, the ones prepared so far; calls, the    *)
(* calls made; slot, the values kept in memory; result; and skip, while a  *)
(* branch forward is on its way to its PATCH.                              *)
(***************************************************************************)
Begin(file, mem, input) ==
    [reg |-> file, carry |-> FALSE, out |-> <<>>, taken |-> FALSE, mem |-> mem,
     input |-> input, args |-> <<>>, calls |-> <<>>, slot |-> <<>>, result |-> <<>>,
     skip |-> FALSE]

SetFloat(s, r, q) == [s EXCEPT !.reg[r] = q]
Branched(s, op, taken) ==
    IF op.fwd THEN [s EXCEPT !.skip = taken, !.taken = FALSE] ELSE [s EXCEPT !.taken = taken]
Argument(op, value) == [fp |-> op.code = "FPUTARG", size |-> op.size, value |-> value]
Called(s, address, args) == [s EXCEPT !.calls = Append(s.calls, [to |-> address, args |-> args])]
Copied(mem, to, from, count) ==
    [a \in {to + i : i \in 0 .. count - 1} |-> mem[from + (a - to)]] @@ mem
Filled(mem, op, to, count, value) ==
    [a \in {to + op.size * i : i \in 0 .. count - 1} |-> Stored(op, value)] @@ mem

Obeyed(s, op) ==
    LET a == Operand(op, 2, s.reg)
        b == Operand(op, 3, s.reg)
        first == Operand(op, 1, s.reg)
        Put1(address, value) == [s EXCEPT !.mem = (address :> Stored(op, value)) @@ s.mem]
        Load(address) == LET n == Loaded(op, s.mem[address]) IN
            IF op.code \in FloatMemory THEN SetFloat(s, op.r[1], n) ELSE Assign(s, op.r[1], n)
    IN  CASE op.code \in Branches ->
                LET t == Meaning(s, op) IN Branched(t, op, t.taken)
          [] op.code \in Code \ (Branches \cup Stores) -> Meaning(s, op)
          [] op.code = "JMP" -> Branched(s, op, TRUE)
          [] op.code \in {"LD", "FLD"} -> Load(a)
          [] op.code \in {"LDX", "FLDX"} -> Load(a + b)
          [] op.code \in {"ST", "FST"} -> Put1(first, a)
          [] op.code \in {"STX", "FSTX"} -> Put1(first + a, b)
          [] op.code = "MEMCPY" -> [s EXCEPT !.mem = Copied(s.mem, first, a, b)]
          [] op.code = "MEMSET" -> [s EXCEPT !.mem = Filled(s.mem, op, first, a, b)]
          [] op.code = "FMOV" -> SetFloat(s, op.r[1], a)
          [] op.code = "FNEG" -> SetFloat(s, op.r[1], Negated(a))
          [] op.code \in FloatSums -> SetFloat(s, op.r[1], FloatValue(op.code, a, b))
          [] op.code \in FloatBranches -> Branched(s, op, FloatHolds(op.code, a, b))
          [] op.code \in Roundings -> Assign(s, op.r[1], Rounded(op.code, a))
          [] op.code = "EXT" -> SetFloat(s, op.r[1], 4 * a)
          [] op.code = "GETARG" -> [s EXCEPT !.reg[op.r[1]] = s.input[op.k + 1].value]
          [] op.code = "PREPARE" -> [s EXCEPT !.args = <<>>]
          [] op.code \in {"PUTARG", "FPUTARG"} ->
                LET n == IF op.imm THEN op.k ELSE IF op.r[1] # None THEN s.reg[op.r[1]]
                         ELSE s.slot[op.v]
                IN [s EXCEPT !.args = Append(s.args, Argument(op, n))]
          [] op.code = "CALL" -> Called(s, first, s.args)
          [] op.code = "MSG" ->
                Called(s, Printf, << Argument(op, op.k) >> \o
                                  (IF op.imm THEN <<>> ELSE << Argument(op, a) >>))
          [] op.code = "RETVAL" -> Assign(s, op.r[1], Result)
          [] op.code = "FRETVAL" -> SetFloat(s, op.r[1], FResult)
          [] op.code \in {"RET", "FRET"} -> [s EXCEPT !.result = <<op.code, first>>]
          [] op.code \in {"UREG", "SYNCREG"} ->
                IF op.v[1] \in {"A", "FA"} THEN s
                ELSE [s EXCEPT !.slot = (op.v :> s.reg[op.r[2]]) @@ s.slot]
          [] op.code = "LREG" -> [s EXCEPT !.reg[op.r[1]] = s.slot[op.v]]
          [] op.code = "RENAMEREG" -> Assign(s, op.r[1], a)
          [] op.code \in {"REF_CODE", "REF_DATA"} -> Assign(s, op.r[1], op.k)
          [] OTHER -> s

(* One operation; those after a branch forward are not executed until the  *)
(* operation it was directed to, and none is after a return                *)
Documented(s, op) ==
    IF s.result # <<>> THEN s
    ELSE IF s.skip THEN [s EXCEPT !.skip = op.code # "PATCH"] ELSE Obeyed(s, op)

-----------------------------------------------------------------------------
(***************************************************************************)
(* Floating-point numbers in registers and memory: the two words of a      *)
(* double and the one of a single, each with its sign in its top bit, as   *)
(* in IEEE 754.  How the magnitude is spread over the words is not that of *)
(* the standard.                                                           *)
(***************************************************************************)
LowerPart == 2^6
SignBit == 2^(W - 1)
NanBit == 2^(W - 2)
SingleBit == 2^(W - 3)

SignOf(q) == IF q < 0 THEN SignBit ELSE 0
Hi(q) == Wrap(IF q = Nan THEN NanBit ELSE SignOf(q) + AbsOf(q) \div LowerPart)
Lo(q) == IF q = Nan THEN 0 ELSE AbsOf(q) % LowerPart
Single(q) == Wrap(IF q = Nan THEN NanBit + SingleBit ELSE SignOf(q) + SingleBit + AbsOf(q))

Signed(word, n) == IF word < 0 THEN -n ELSE n
Double(hi, lo) == IF (hi \div NanBit) % 2 = 1 THEN Nan
                  ELSE Signed(hi, (Unsigned(hi) % NanBit) * LowerPart + Unsigned(lo))
OfSingle(word) == IF (word \div NanBit) % 2 = 1 THEN Nan
                  ELSE Signed(word, (Unsigned(word) % NanBit) - SingleBit)

(* FNEG and FABS of a word                                                 *)
Flipped(word) == Wrap(word + SignBit)
Cleared(word) == IF word < 0 THEN Flipped(word) ELSE word

(* The outcome of a comparison                                             *)
FCompared(a, b) == IF Nan \in {a, b} THEN "unordered"
                   ELSE IF a < b THEN "less" ELSE IF a = b THEN "equal" ELSE "greater"

-----------------------------------------------------------------------------
(***************************************************************************)
(* Instruction words of 32 bits.  A word is the pair of its upper and      *)
(* lower 16 bits; Packed makes one of fields <<value, lowest bit, width>>, *)
(* each cut to its width, as an assignment to a bit field does, and        *)
(* Bitfield reads a field of it.                                           *)
(***************************************************************************)
InLow(value, at, width) ==
    IF at >= 16 THEN 0
    ELSE (value % 2^(IF width < 16 - at THEN width ELSE 16 - at)) * 2^at
InHigh(value, at, width) ==
    IF at >= 16 THEN (value % 2^width) * 2^(at - 16) ELSE (value % 2^width) \div 2^(16 - at)

Packed(fields) ==
    LET Half(In(_, _, _)) ==
            FoldLeft(LAMBDA sum, f : sum + In(f[1], f[2], f[3]), 0, fields)
    IN  <<Half(InHigh), Half(InLow)>>

Bitfield(word, at, width) ==
    IF at >= 16 THEN (word[1] \div 2^(at - 16)) % 2^width
    ELSE IF at + width <= 16 THEN (word[2] \div 2^at) % 2^width
    ELSE word[2] \div 2^at + (word[1] % 2^(at + width - 16)) * 2^(16 - at)

Bit(word, at) == Bitfield(word, at, 1) = 1
SignExtended(n, width) == IF n >= 2^(width - 1) THEN n - 2^width ELSE n
SignedField(word, at, width) == SignExtended(Bitfield(word, at, width), width)
=============================================================================
