----------------------------- MODULE MCEncoding -----------------------------
(*************************************************************************)
(* The requests of the emitters of common86-specific.h, sse2-specific.h, *)
(* amd64-specific.h and x86-specific.h, each followed by a return, and   *)
(* stretches with jumps.  Registers stand for the cases the encoders     *)
(* tell apart: the accumulator, rsp and r12 (a base that needs a SIB     *)
(* byte), rbp (a base that needs a displacement), low and high ones.     *)
(*************************************************************************)
EXTENDS Encoding

CONSTANTS
    LowRegs, HighRegs,   \* registers of the two halves of the AMD64 file
    Bases,               \* base registers, rsp, rbp and r12 among them
    Distances            \* bytes between a jump and its target

Unit(mode, xs) == [mode |-> mode, items |-> xs \o <<[i |-> "ret"]>>]
Width(mode) == mode \div 8
Regs(mode) == IF mode = 64 THEN LowRegs \cup HighRegs ELSE LowRegs
\* On i386 only the first four registers have a byte of their own.
RegsFor(mode, size) ==
  IF mode = 32 /\ size = 1 THEN {r \in LowRegs : r < 4} ELSE Regs(mode)
BasesOf(mode) == IF mode = 64 THEN Bases ELSE {b \in Bases : b < 8}
Sizes(mode) == IF mode = 64 THEN {1, 2, 4, 8} ELSE {1, 2, 4}

Addresses == {I386!Abs(4096)}
BaseForms(mode) == {I386!Base(b, d) : b \in BasesOf(mode), d \in {0, -128, 127, 128}}
IndexForms(mode) ==
  {I386!Index(b, d, n, 0) :
     b \in BasesOf(mode) \ {4, 5}, d \in {0, -8}, n \in Regs(mode)}
Places(mode) == Addresses \cup BaseForms(mode) \cup IndexForms(mode)
SomePlaces(mode) ==
  {m \in Places(mode) : m.k = "abs" \/ (m.base \in {0, 5, 12} /\ m.disp \in {0, -8, 128})}
HighPlace(m) == m.k = "index" /\ (m.base > 7 \/ m.index > 7)
Registers(mode) == {I386!Reg(r) : r \in Regs(mode)}

Moves(mode) ==
  {[i |-> k, r |-> r, m |-> m, size |-> s] :
     k \in {"store", "load"}, r \in Regs(mode), m \in Places(mode), s \in Sizes(mode)}
    \cup {[i |-> "load", r |-> r, m |-> m, size |-> Width(mode)] :
            r \in Regs(mode), m \in Registers(mode)}
MovesOf(mode) ==
  {x \in Moves(mode) :
     /\ x.r \in RegsFor(mode, x.size)
     /\ ~(x.size = 2 /\ x.m.k = "index" /\ (HighPlace(x.m) \/ x.r > 7))}
Constants(mode) ==
  {[i |-> "imm", m |-> m, v |-> v, size |-> s] :
     m \in {p \in SomePlaces(mode) : ~HighPlace(p)}, v \in {-1, 100}, s \in Sizes(mode)}
    \cup {[i |-> "movi", r |-> r, v |-> v] : r \in Regs(mode),
            v \in {<<0, 0>>, <<-1, -1>>, <<305419896, 2>>, <<-2147483647, 0>>}}
Widenings(mode) ==
  {[i |-> "widen", r |-> r, m |-> m, size |-> s, sign |-> b] :
     r \in Regs(mode), m \in Registers(mode) \cup SomePlaces(mode),
     s \in Sizes(mode), b \in BOOLEAN}
WideningsOf(mode) ==
  {x \in Widenings(mode) :
     /\ x.m.k = "reg" => x.m.r \in RegsFor(mode, x.size)
     /\ mode = 32 => x.size < 4
     /\ x.sign => x.size < 8}
Leas(mode) ==
  {[i |-> "lea", r |-> r, m |-> m] : r \in Regs(mode), m \in BaseForms(mode)}
    \cup {[i |-> "lea", r |-> r, m |-> I386!Index(b, 0, n, s)] :
            r \in Regs(mode), b \in Regs(mode), n \in Regs(mode), s \in 0..3}
    \cup {[i |-> "lea", r |-> r, m |-> I386!Index(I386!NoBaseReg, d, n, s)] :
            r \in Regs(mode), d \in {0, 7, -1000}, n \in Regs(mode), s \in {2, 3}}

Arithmetic(mode) ==
  {[i |-> "alu", op |-> o, r |-> r, m |-> m] : o \in {"add", "cmp"}, r \in Regs(mode),
     m \in Registers(mode) \cup (SomePlaces(mode) \ Addresses)}
    \cup {[i |-> "alui", op |-> o, r |-> r, v |-> v] :
            o \in DOMAIN I386!AluOps, r \in Regs(mode) \cup {4},
            v \in {-128, 127, 128, -100000}}
    \cup {[i |-> "shift", op |-> o, r |-> r] :
            o \in DOMAIN I386!ShiftOps, r \in Regs(mode)}
    \cup {[i |-> "shifti", op |-> o, r |-> r, v |-> v] :
            o \in DOMAIN I386!ShiftOps, r \in Regs(mode), v \in {1, 2, 31}}
    \cup {[i |-> "mul", r |-> r, sign |-> b] : r \in Regs(mode), b \in BOOLEAN}
    \cup {[i |-> "div", m |-> m, sign |-> b] : b \in BOOLEAN,
            m \in Registers(mode) \cup {I386!Base(4, -8)}}
    \cup {[i |-> k, r |-> r] : k \in {"not", "neg"}, r \in Regs(mode)}
Tests(mode) ==
  {x \in {[i |-> "test", d |-> d, r |-> r] : d \in Regs(mode), r \in Regs(mode)} :
     (x.d > 7) = (x.r > 7)}
    \cup {[i |-> "testi", r |-> r, v |-> v] : r \in Regs(mode) \ {8}, v \in {1, -2}}
    \cup {[i |-> "set", r |-> r, cc |-> c, sign |-> b] :
            r \in RegsFor(mode, 1), c \in DOMAIN I386!CcUnsigned, b \in BOOLEAN}
Others(mode) ==
  {[i |-> k, r |-> r] : k \in {"push", "pop", "jmpr", "callr"}, r \in Regs(mode)}
    \cup {[i |-> k, m |-> m] : k \in {"pushm", "callm"}, m \in BaseForms(mode)}
    \cup {[i |-> "xchg", d |-> 0, r |-> r, size |-> Width(mode)] : r \in {6, 7}}
    \cup {[i |-> k] : k \in {"nop", "cdq", "pushf", "popf"}}
    \cup (IF mode = 64 THEN {}
          ELSE {[i |-> "pushi", v |-> v] : v \in {-128, 127, 128}}
                 \cup {[i |-> "fld", m |-> m, double |-> b] :
                         m \in BaseForms(mode), b \in BOOLEAN}
                 \cup {[i |-> "fst", m |-> m, double |-> b, pop |-> p] :
                         m \in BaseForms(mode), b \in BOOLEAN, p \in BOOLEAN})

Xmms(mode) == IF mode = 64 THEN {0, 5, 8, 13} ELSE {0, 5}
XmmRegs(mode) == {I386!Reg(n) : n \in Xmms(mode)}
XmmPlaces(mode) == Addresses \cup SomePlaces(mode)
\* In the index forms the i386 macros are given registers as they are.
SseMoves(mode) ==
  {[i |-> k, r |-> r, m |-> m] : r \in Xmms(mode), m \in XmmPlaces(mode),
     k \in {"movsss", "ss2sd"}}
    \cup {[i |-> k, r |-> r, m |-> m] : k \in {"movlpd", "movlpds"}, r \in Xmms(mode),
            m \in {p \in XmmPlaces(mode) : p.k # "abs"}}
    \cup {[i |-> "movsd", r |-> r, m |-> m] : r \in Xmms(mode),
            m \in {p \in XmmPlaces(mode) : p.k # "index"}}
    \cup {[i |-> k, r |-> r] : k \in {"pushx", "popx"}, r \in Xmms(mode)}
    \cup (IF mode = 64
          THEN {[i |-> "movlpds", r |-> r, m |-> m] :
                  r \in Xmms(mode), m \in Addresses}
                 \cup {[i |-> "movss", r |-> r, m |-> m] :
                         r \in Xmms(mode), m \in BaseForms(mode)}
                 \cup {[i |-> "movsd", r |-> d, m |-> m] :
                         d \in Xmms(mode), m \in XmmRegs(mode)}
                 \cup {[i |-> "movd", r |-> d, s |-> r, size |-> z] :
                         d \in Xmms(mode), r \in Regs(mode), z \in {4, 8}}
          ELSE {[i |-> "movsdr", d |-> d, r |-> r] :
                  d \in Xmms(mode), r \in Xmms(mode)})
SseArithmetic(mode) ==
  {[i |-> "sd", op |-> o, r |-> r, m |-> m] : o \in DOMAIN SseNames,
     r \in Xmms(mode), m \in XmmRegs(mode) \cup Addresses}
    \cup {[i |-> "pd", op |-> o, r |-> r, m |-> m] : o \in {"and", "xor", "comi"},
            r \in Xmms(mode), m \in XmmRegs(mode) \cup Addresses}
    \cup {[i |-> "pdi", op |-> "shuf", r |-> r, m |-> m, v |-> 1] :
            r \in Xmms(mode), m \in XmmRegs(mode)}
    \cup {[i |-> k, r |-> r, m |-> m] : k \in {"sd2ss", "ss2sd"},
            r \in Xmms(mode), m \in XmmRegs(mode)}
    \cup {[i |-> "sd2si", r |-> r, m |-> m] : r \in Regs(mode), m \in XmmRegs(mode)}
    \cup {[i |-> "si2sd", r |-> r, m |-> m] : r \in Xmms(mode), m \in Registers(mode)}

-----------------------------------------------------------------------------
(* Stretches with jumps.                                                 *)

Fill(mode, n) ==
  LET long == IF mode = 64 THEN 10 ELSE 5
  IN [k \in 1..n \div long |-> [i |-> "movi", r |-> 1, v |-> <<k, 0>>]]
       \o [k \in 1..n % long |-> [i |-> "nop"]]
Jump(k, to) ==
  IF k \in {"jmp", "jmp32", "call"} THEN [i |-> k, to |-> to]
  ELSE [i |-> k, to |-> to, cc |-> "lt", sign |-> k # "jccsse"]
Backward(mode, k, n) == <<[i |-> "nop"]>> \o Fill(mode, n) \o <<Jump(k, 1)>>
Forward(mode, k, n) == <<Jump(k, 0)>> \o Fill(mode, n) \o <<[i |-> "patch", of |-> 1]>>
Near == {"jmp32", "jcc32", "jccsse"}
Short == {"jmp", "jcc"}
\* emit_sse_round and the loop of a transfer.
Round ==
  LET add == [i |-> "sd", op |-> "add", r |-> 5, m |-> I386!Abs(4096)]
  IN << [i |-> "pdi", op |-> "shuf", r |-> 5, m |-> I386!Reg(5), v |-> 0],
        [i |-> "pd", op |-> "comi", r |-> 5, m |-> I386!Abs(4096)],
        [Jump("jcc", 0) EXCEPT !.sign = FALSE], add, Jump("jmp", 0),
        [i |-> "patch", of |-> 3], [add EXCEPT !.op = "sub"],
        [i |-> "patch", of |-> 5] >>
Transfer(mode) ==
  << [i |-> "load", r |-> 3, m |-> I386!Index(6, -4, 1, 0), size |-> 4],
     [i |-> "store", r |-> 3, m |-> I386!Index(7, -4, 1, 0), size |-> 4],
     [i |-> "alui", op |-> "sub", r |-> 1, v |-> 4],
     [i |-> "jcc", to |-> 1, cc |-> "ne", sign |-> FALSE] >>

JumpUnits(mode) ==
  {Backward(mode, k, n) : k \in Jumps, n \in Distances}
    \cup {Forward(mode, k, n) : k \in Near, n \in Distances}
    \cup {Forward(mode, k, n) : k \in Short, n \in {d \in Distances : d < 128}}
    \cup {Round, Transfer(mode)}

Requests(mode) ==
  MovesOf(mode) \cup Constants(mode) \cup WideningsOf(mode) \cup Leas(mode)
    \cup Arithmetic(mode) \cup Tests(mode) \cup Others(mode)
    \cup SseMoves(mode) \cup SseArithmetic(mode)
MCUnits ==
  UNION {{Unit(mode, <<x>>) : x \in Requests(mode)}
           \cup {Unit(mode, xs) : xs \in JumpUnits(mode)} : mode \in {32, 64}}
=============================================================================
