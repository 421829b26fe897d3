------------------------------ MODULE Encoding ------------------------------
(*************************************************************************)
(* A stretch of code from the emitters' requests to the listing: the     *)
(* encoders put one instruction after the other at jit->ip, a forward    *)
(* jump is written with a displacement of 0 and patched when its target  *)
(* is reached, and the finished bytes are handed to the decoder.         *)
(*                                                                       *)
(* Meaning is what the emitters ask for, as the manual of the processor  *)
(* lists it; the decoder stands for the processor.                       *)
(*************************************************************************)
EXTENDS Integers, Sequences, SequencesExt

CONSTANT Units   \* stretches of code: a mode, 32 or 64, and the requests

I386 == INSTANCE X86Code
Amd64 == INSTANCE Amd64Code
Decoder == INSTANCE Udis86

VARIABLES
    unit,      \* the stretch being assembled
    code,      \* the bytes stored so far
    starts,    \* for each request handled, the offset of jit->ip at its start
    listing,   \* the instructions decoded so far
    at         \* where the decoder goes on

vars == <<unit, code, starts, listing, at>>

SseRequests == {"sd", "pd", "pdi", "movsd", "movsdr", "movlpd", "movlpds",
                "movss", "movsss", "sd2ss", "ss2sd", "sd2si", "si2sd",
                "movd", "pushx", "popx"}
Jumps == {"jmp", "jmp32", "jcc", "jcc32", "jccsse", "call"}

Init ==
  /\ unit \in Units
  /\ code = << >>
  /\ starts = << >>
  /\ listing = << >>
  /\ at = 1

Ip == Len(code)
Current == unit.items[Len(starts) + 1]

\* JIT_GET_ADDR of a label that is placed, and 0 for JIT_FORWARD.
Distance(x) == IF x.i \in Jumps /\ x.to # 0 THEN starts[x.to] - Ip ELSE 0

Bytes(x) ==
  IF x.i \in SseRequests
    THEN IF unit.mode = 32 THEN I386!EncodeSse(x) ELSE Amd64!EncodeSse(x)
    ELSE IF unit.mode = 32 THEN I386!Encode(x, Distance(x))
                           ELSE Amd64!Encode(x, Distance(x))

Emit ==
  /\ Len(starts) < Len(unit.items)
  /\ Current.i # "patch"
  /\ code' = code \o Bytes(Current)
  /\ starts' = Append(starts, Ip)
  /\ UNCHANGED <<unit, listing, at>>

\* JIT_PATCH, and common86_patch inside an emitter.
PatchJump ==
  /\ Len(starts) < Len(unit.items)
  /\ Current.i = "patch"
  /\ LET jump == starts[Current.of] + 1
     IN code' = IF unit.mode = 32 THEN I386!Patch(code, jump, Ip + 1)
                                  ELSE Amd64!Patch(code, jump, Ip + 1)
  /\ starts' = Append(starts, Ip)
  /\ UNCHANGED <<unit, listing, at>>

\* One turn of the loop of jit_dump_ops_compilable around ud_disassemble.
Disassemble ==
  /\ Len(starts) = Len(unit.items)
  /\ at <= Len(code)
  /\ LET insn == Decoder!Decode(unit.mode, code, at)
     IN listing' = Append(listing, insn) /\ at' = insn.next
  /\ UNCHANGED <<unit, code, starts>>

Next == Emit \/ PatchJump \/ Disassemble
Spec == Init /\ [][Next]_vars

-----------------------------------------------------------------------------
(* What a request means, as one or two instructions.  An argument names  *)
(* what the meaning fixes: the size of an operand that is only an        *)
(* address, or of memory an SSE instruction names itself, is left out.   *)

Gp(n, size) == [k |-> "reg", r |-> n, size |-> size]
Xmm(n) == [k |-> "xmm", r |-> n]
Value(v) == [v |-> <<v>>]
Place(m) ==
  [k     |-> "mem",
   base  |-> IF m.k = "abs" THEN Decoder!NoReg ELSE m.base,
   index |-> IF m.k = "index" THEN m.index ELSE Decoder!NoReg,
   scale |-> IF m.k = "index" /\ m.shift > 0 THEN 2 ^ m.shift ELSE 0,
   disp  |-> m.disp]
Memory(m, size) == Place(m) @@ [size |-> size]
GpOr(m, size) == IF m.k = "reg" THEN Gp(m.r, size) ELSE Memory(m, size)
XmmOr(m) == IF m.k = "reg" THEN Xmm(m.r) ELSE Place(m)
Insn(mn, args) == [mn |-> mn, cc |-> "", args |-> args]

\* Conditions by the names of the processor's manual.
Condition(cc, sign) ==
  LET both == [eq |-> "z", ne |-> "nz", lz |-> "s", gez |-> "ns",
               p |-> "p", np |-> "np", o |-> "o", no |-> "no"]
      signed == [lt |-> "l", le |-> "le", gt |-> "g", ge |-> "ge"]
      unsigned == [lt |-> "b", le |-> "be", gt |-> "a", ge |-> "ae"]
  IN IF cc \in DOMAIN both THEN both[cc]
     ELSE IF sign THEN signed[cc] ELSE unsigned[cc]

Moved(mode, x) ==
  LET bits == 8 * x.size
      wide == IF x.size < 4 \/ x.sign THEN mode ELSE bits
      name == CASE x.size < 4 -> IF x.sign THEN "movsx" ELSE "movzx"
                [] x.sign /\ x.size = 4 -> "movsxd"
                [] OTHER -> "mov"
  IN Insn(name, <<Gp(x.r, IF mode = 32 THEN 32 ELSE wide), GpOr(x.m, bits)>>)

Meaning(mode, x) ==
  CASE x.i = "store"  -> Insn("mov", <<GpOr(x.m, 8 * x.size), Gp(x.r, 8 * x.size)>>)
    [] x.i = "load"   -> Insn("mov", <<Gp(x.r, 8 * x.size), GpOr(x.m, 8 * x.size)>>)
    [] x.i = "imm"    -> Insn("mov", <<Memory(x.m, 8 * x.size), Value(x.v)>>)
    [] x.i = "movi"   -> Insn("mov", <<Gp(x.r, mode),
                                       [v |-> SubSeq(x.v, 1, mode \div 32)]>>)
    [] x.i = "widen"  -> Moved(mode, x)
    [] x.i = "xchg"   -> Insn("xchg", <<Gp(x.d, 8 * x.size), Gp(x.r, 8 * x.size)>>)
    [] x.i = "lea"    -> Insn("lea", <<Gp(x.r, mode), Place(x.m)>>)
    [] x.i \in {"push", "pop"} -> Insn(x.i, <<Gp(x.r, mode)>>)
    [] x.i = "pushm"  -> Insn("push", <<Memory(x.m, mode)>>)
    [] x.i = "pushi"  -> Insn("push", <<Value(x.v)>>)
    [] x.i = "fld"    -> Insn("fld", <<Memory(x.m, IF x.double THEN 64 ELSE 32)>>)
    [] x.i = "fst"    -> Insn(IF x.pop THEN "fstp" ELSE "fst",
                              <<Memory(x.m, IF x.double THEN 64 ELSE 32)>>)
    [] x.i = "alu"    -> Insn(x.op, <<Gp(x.r, mode), GpOr(x.m, mode)>>)
    [] x.i = "alui"   -> Insn(x.op, <<Gp(x.r, mode), Value(x.v)>>)
    [] x.i = "test"   -> Insn("test", <<Gp(x.d, mode), Gp(x.r, mode)>>)
    [] x.i = "testi"  -> Insn("test", <<Gp(x.r, mode), Value(x.v)>>)
    [] x.i = "shift"  -> Insn(x.op, <<Gp(x.r, mode), Gp(1, 8)>>)
    [] x.i = "shifti" -> Insn(x.op, <<Gp(x.r, mode), Value(x.v)>>)
    [] x.i = "mul"    -> Insn(IF x.sign THEN "imul" ELSE "mul", <<Gp(x.r, mode)>>)
    [] x.i = "div"    -> Insn(IF x.sign THEN "idiv" ELSE "div", <<GpOr(x.m, mode)>>)
    [] x.i \in {"not", "neg"} -> Insn(x.i, <<Gp(x.r, mode)>>)
    [] x.i \in {"nop", "ret"} -> Insn(x.i, << >>)
    [] x.i = "cdq"    -> Insn(IF mode = 64 THEN "cqo" ELSE "cdq", << >>)
    [] x.i \in {"pushf", "popf"} -> Insn(x.i \o (IF mode = 64 THEN "q" ELSE "d"), << >>)
    [] x.i = "set"    -> [Insn("set", <<Gp(x.r, 8)>>) EXCEPT !.cc = Condition(x.cc, x.sign)]
    [] x.i = "jmpr"   -> Insn("jmp", <<Gp(x.r, mode)>>)
    [] x.i = "callr"  -> Insn("call", <<Gp(x.r, mode)>>)
    [] x.i = "callm"  -> Insn("call", <<Memory(x.m, mode)>>)
    [] x.i \in {"jmp", "jmp32"} -> Insn("jmp", <<[k |-> "rel"]>>)
    [] x.i = "call"   -> Insn("call", <<[k |-> "rel"]>>)
    [] x.i \in {"jcc", "jcc32", "jccsse"} ->
         [Insn("j", <<[k |-> "rel"]>>) EXCEPT !.cc = Condition(x.cc, x.sign)]

SseNames == [add |-> "addsd", mul |-> "mulsd", sub |-> "subsd", div |-> "divsd"]
PackedNames == [and |-> "andpd", xor |-> "xorpd", comi |-> "comisd", shuf |-> "shufpd"]

SseMeaning(mode, x) ==
  CASE x.i = "sd"      -> Insn(SseNames[x.op], <<Xmm(x.r), XmmOr(x.m)>>)
    [] x.i = "pd"      -> Insn(PackedNames[x.op], <<Xmm(x.r), XmmOr(x.m)>>)
    [] x.i = "pdi"     -> Insn(PackedNames[x.op], <<Xmm(x.r), XmmOr(x.m), Value(x.v)>>)
    [] x.i = "movsd"   -> Insn("movsd", <<Xmm(x.r), XmmOr(x.m)>>)
    [] x.i = "movsdr"  -> Insn("movsd", <<Xmm(x.d), Xmm(x.r)>>)
    [] x.i = "movlpd"  -> Insn("movlpd", <<Xmm(x.r), Place(x.m)>>)
    [] x.i = "movlpds" -> Insn("movlpd", <<Place(x.m), Xmm(x.r)>>)
    [] x.i = "movss"   -> Insn("movss", <<Xmm(x.r), Place(x.m)>>)
    [] x.i = "movsss"  -> Insn("movss", <<Place(x.m), Xmm(x.r)>>)
    [] x.i = "sd2ss"   -> Insn("cvtsd2ss", <<Xmm(x.r), XmmOr(x.m)>>)
    [] x.i = "ss2sd"   -> Insn("cvtss2sd", <<Xmm(x.r), XmmOr(x.m)>>)
    [] x.i = "sd2si"   -> Insn("cvttsd2si", <<Gp(x.r, mode), XmmOr(x.m)>>)
    [] x.i = "si2sd"   -> Insn("cvtsi2sd", <<Xmm(x.r), GpOr(x.m, mode)>>)
    [] x.i = "movd"    -> Insn(IF x.size = 8 THEN "movq" ELSE "movd",
                               <<Xmm(x.r), Gp(x.s, 8 * x.size)>>)

Saved(x) == Insn("movlpd", <<Place(I386!Base(4, 0)), Xmm(x.r)>>)
Restored(x) == Insn("movlpd", <<Xmm(x.r), Place(I386!Base(4, 0))>>)
Meanings(mode, x) ==
  CASE x.i = "patch" -> << >>
    [] x.i = "pushx" -> <<Insn("sub", <<Gp(4, mode), Value(8)>>), Saved(x)>>
    [] x.i = "popx"  -> <<Restored(x), Insn("add", <<Gp(4, mode), Value(8)>>)>>
    [] x.i \in SseRequests \ {"pushx", "popx"} -> <<SseMeaning(mode, x)>>
    [] OTHER -> <<Meaning(mode, x)>>

\* The instructions of the first n requests.
Asked(n) == FlattenSeq([k \in 1..n |-> Meanings(unit.mode, unit.items[k])])
Expected == Asked(Len(unit.items))

-----------------------------------------------------------------------------
SameArg(want, got) == \A f \in DOMAIN want : f \in DOMAIN got /\ got[f] = want[f]
SameInsn(want, got) ==
  /\ got.mn = want.mn
  /\ got.cc = want.cc
  /\ Len(got.args) = Len(want.args)
  /\ \A a \in DOMAIN want.args : SameArg(want.args[a], got.args[a])

(* The bytes are the instructions that were asked for: the decoder finds *)
(* the same operations, registers, addresses, sizes and values one after *)
(* the other, no instruction swallows bytes of the next, and none is     *)
(* left over.  This is the work of the REX bytes, prefixes, ModRM and    *)
(* SIB bytes of x86-codegen.h and amd64-codegen.h.                       *)
ReadBack ==
  /\ \A n \in DOMAIN listing :
       n <= Len(Expected) /\ SameInsn(Expected[n], listing[n])
  /\ Len(starts) = Len(unit.items) /\ at > Len(code) =>
       at = Len(code) + 1 /\ Len(listing) = Len(Expected)

\* The request a jump leads to: a placed label, or where it is patched.
Goal(n) ==
  LET x == unit.items[n]
  IN IF x.to # 0 THEN x.to
     ELSE CHOOSE m \in DOMAIN unit.items :
            unit.items[m].i = "patch" /\ unit.items[m].of = n
(* Every jump and call of the finished code leads to the request it was  *)
(* meant for, whichever of the short and the long form the encoder chose,*)
(* wherever the REX byte moved the start of the displacement, and        *)
(* whether the label was placed before the jump or patched after it.     *)
JumpsLand ==
  \A n \in DOMAIN unit.items :
    unit.items[n].i \in Jumps =>
      LET i == Len(Asked(n))
      IN i \in DOMAIN listing =>
           /\ listing[i].args # << >>
           /\ listing[i].args[1].k = "rel"
           /\ Decoder!RelTarget(listing[i]) = starts[Goal(n)] + 1
=============================================================================
