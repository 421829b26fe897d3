----------------------------- MODULE EmitterProofs -----------------------------
(***************************************************************************)
(* What the instructions of an operation do to the stack, for every list   *)
(* of operations and every choice of registers: what was pushed is popped, *)
(* the words of others are left alone, and a word that is read was put     *)
(* there by the same operation.                                            *)
(*                                                                         *)
(* Walks(c, x, y) says that instructions c take the stack pointer from x   *)
(* to y and that each of them is Allowed where it finds it.  The code Gen  *)
(* makes of an operation Walks from 0 to 0, and what is left of it after   *)
(* an instruction still leads to 0: that is StackInv.  One operation is    *)
(* delicate: emit_shift_op takes its value from the word it pushed CX to,  *)
(* and it pushes CX only if the live sets say CX is used.  ListInv says    *)
(* that they do: the sets may be stale, but no pass changes an operation   *)
(* into a shift after they were computed.                                  *)
(***************************************************************************)
EXTENDS Emitter, SequenceTheorems, TLAPS

(* What an instruction adds to the stack pointer. *)
Change(ins) == IF ins.i = "push" THEN -1
               ELSE IF ins.i = "pop" THEN 1
               ELSE IF ins.i = "addsp" THEN ins.k ELSE 0

(* ins may be run when the stack pointer is `at'. *)
Allowed(ins, at) ==
    /\ at \in Int /\ at <= 0
    /\ at + Change(ins) \in Int /\ at + Change(ins) <= 0
    /\ ins.i \in {"pop", "divm"} => at < 0
    /\ ins.i \in {"save", "alum"} => ins.k \in Int /\ at + ins.k < 0
    /\ ShiftsApart /\ ins.i = "load" => at + ins.k < 0

IsSeq(c) == \E S : c \in Seq(S)

(* The instructions c take the stack pointer from x to y; d are the places *)
(* it is at on the way.                                                    *)
Heights(c, d, x, y) ==
    /\ d \in [1 .. Len(c) + 1 -> Int]
    /\ d[1] = x /\ d[Len(c) + 1] = y
    /\ \A i \in 1 .. Len(c) : Allowed(c[i], d[i]) /\ d[i + 1] = d[i] + Change(c[i])

Walks(c, x, y) == IsSeq(c) /\ \E d : Heights(c, d, x, y)

-----------------------------------------------------------------------------
(* Walks of sequences. *)

LEMMA ConcatFacts ==
    ASSUME NEW a, IsSeq(a), NEW b, IsSeq(b)
    PROVE  /\ IsSeq(a \o b) /\ Len(a \o b) = Len(a) + Len(b) /\ Len(a) \in Nat /\ Len(b) \in Nat
           /\ \A i \in 1 .. Len(a) + Len(b) :
                (a \o b)[i] = IF i <= Len(a) THEN a[i] ELSE b[i - Len(a)]
  <1>1. PICK S, T : a \in Seq(S) /\ b \in Seq(T)
    BY DEF IsSeq
  <1>2. a \in Seq(S \cup T) /\ b \in Seq(S \cup T)
    BY <1>1
  <1>3. a \o b \in Seq(S \cup T)
    BY <1>2
  <1> QED
    BY <1>2, <1>3, ConcatProperties DEF IsSeq

LEMMA WalkNone ==
    ASSUME NEW at \in Int, at <= 0
    PROVE  Walks(<<>>, at, at)
  <1> DEFINE d == [i \in 1 .. 1 |-> at]
  <1>1. Len(<<>>) = 0 /\ <<>> \in Seq({})
    OBVIOUS
  <1>2. Heights(<<>>, d, at, at)
    BY <1>1 DEF Heights
  <1> QED
    BY <1>1, <1>2 DEF Walks, IsSeq

LEMMA WalkOne ==
    ASSUME NEW ins, NEW at \in Int, Allowed(ins, at), NEW to, to = at + Change(ins)
    PROVE  Walks(<<ins>>, at, to)
  <1> DEFINE d == [i \in 1 .. 2 |-> IF i = 1 THEN at ELSE to]
  <1>1. Len(<<ins>>) = 1 /\ <<ins>> \in Seq({ins}) /\ <<ins>>[1] = ins
    OBVIOUS
  <1>2. d \in [1 .. 2 -> Int] /\ d[1] = at /\ d[2] = to
    BY DEF Allowed
  <1> HIDE DEF d
  <1>3. Heights(<<ins>>, d, at, to)
    BY <1>1, <1>2 DEF Heights
  <1> QED
    BY <1>1, <1>3 DEF Walks, IsSeq

LEMMA WalkOn ==
    ASSUME NEW a, NEW b, NEW x, NEW y, NEW z, Walks(a, x, y), Walks(b, y, z)
    PROVE  Walks(a \o b, x, z)
  <1>1. IsSeq(a) /\ IsSeq(b)
    BY DEF Walks
  <1>2. PICK d, e : Heights(a, d, x, y) /\ Heights(b, e, y, z)
    BY DEF Walks
  <1>3. PICK m, n : m = Len(a) /\ n = Len(b)
    OBVIOUS
  <1>4. /\ m \in Nat /\ n \in Nat /\ IsSeq(a \o b) /\ Len(a \o b) = m + n
        /\ \A i \in 1 .. m + n : (a \o b)[i] = IF i <= m THEN a[i] ELSE b[i - m]
    BY <1>1, <1>3, ConcatFacts
  <1>5. /\ d \in [1 .. m + 1 -> Int] /\ d[1] = x /\ d[m + 1] = y
        /\ \A i \in 1 .. m : Allowed(a[i], d[i]) /\ d[i + 1] = d[i] + Change(a[i])
        /\ e \in [1 .. n + 1 -> Int] /\ e[1] = y /\ e[n + 1] = z
        /\ \A i \in 1 .. n : Allowed(b[i], e[i]) /\ e[i + 1] = e[i] + Change(b[i])
    BY <1>2, <1>3 DEF Heights
  <1> DEFINE f == [i \in 1 .. m + n + 1 |-> IF i <= m THEN d[i] ELSE e[i - m]]
  <1>6. f \in [1 .. m + n + 1 -> Int]
    <2> SUFFICES ASSUME NEW i \in 1 .. m + n + 1 PROVE (IF i <= m THEN d[i] ELSE e[i - m]) \in Int
      OBVIOUS
    <2>1. CASE i <= m
      <3>1. i \in 1 .. m + 1
        BY <1>4, <2>1
      <3> QED
        BY <1>5, <2>1, <3>1
    <2>2. CASE ~(i <= m)
      <3>1. i - m \in 1 .. n + 1
        BY <1>4, <2>2
      <3> QED
        BY <1>5, <2>2, <3>1
    <2> QED
      BY <2>1, <2>2
  <1>7. f[1] = x
    <2>1. 1 \in 1 .. m + n + 1
      BY <1>4
    <2>2. CASE m = 0
      BY <1>5, <2>1, <2>2
    <2>3. CASE m # 0
      BY <1>4, <1>5, <2>1, <2>3
    <2> QED
      BY <2>2, <2>3
  <1>8. f[m + n + 1] = z
    <2>1. m + n + 1 \in 1 .. m + n + 1 /\ ~(m + n + 1 <= m) /\ (m + n + 1) - m = n + 1
      BY <1>4
    <2> QED
      BY <1>5, <2>1
  <1>9. ASSUME NEW i \in 1 .. m + n
        PROVE  Allowed((a \o b)[i], f[i]) /\ f[i + 1] = f[i] + Change((a \o b)[i])
    <2>1. i \in 1 .. m + n + 1 /\ i + 1 \in 1 .. m + n + 1
      BY <1>4
    <2>2. CASE i < m
      <3>1. i \in 1 .. m /\ i <= m /\ i + 1 <= m
        BY <1>4, <2>2
      <3>2. f[i] = d[i] /\ f[i + 1] = d[i + 1] /\ (a \o b)[i] = a[i]
        BY <1>4, <2>1, <3>1
      <3> HIDE DEF f
      <3> QED
        BY <1>5, <3>1, <3>2
    <2>3. CASE i = m
      <3>1. i \in 1 .. m /\ i <= m /\ ~(i + 1 <= m) /\ (i + 1) - m = 1
        BY <1>4, <2>3
      <3>2. f[i] = d[i] /\ f[i + 1] = e[1] /\ (a \o b)[i] = a[i]
        BY <1>4, <2>1, <3>1
      <3> HIDE DEF f
      <3>3. e[1] = d[i + 1]
        BY <1>5, <2>3
      <3> QED
        BY <1>5, <3>1, <3>2, <3>3
    <2>4. CASE i > m
      <3>1. i - m \in 1 .. n /\ ~(i <= m) /\ ~(i + 1 <= m) /\ (i + 1) - m = (i - m) + 1
        BY <1>4, <2>4
      <3>2. f[i] = e[i - m] /\ f[i + 1] = e[(i - m) + 1] /\ (a \o b)[i] = b[i - m]
        BY <1>4, <2>1, <3>1
      <3> HIDE DEF f
      <3> QED
        BY <1>5, <3>1, <3>2
    <2> QED
      BY <1>4, <2>2, <2>3, <2>4
  <1> HIDE DEF f
  <1>10. Heights(a \o b, f, x, z)
    BY <1>4, <1>6, <1>7, <1>8, <1>9 DEF Heights
  <1> QED
    BY <1>4, <1>10 DEF Walks

LEMMA WalkRest ==
    ASSUME NEW c, NEW x, NEW y, Walks(c, x, y), c # <<>>
    PROVE  /\ Allowed(Head(c), x)
           /\ Walks(Tail(c), x + Change(Head(c)), y)
  <1>1. PICK S : c \in Seq(S)
    BY DEF Walks, IsSeq
  <1>2. PICK d : Heights(c, d, x, y)
    BY DEF Walks
  <1>3. PICK n : n = Len(c)
    OBVIOUS
  <1>4. /\ n \in Nat \ {0} /\ Head(c) = c[1] /\ Tail(c) \in Seq(S) /\ Len(Tail(c)) = n - 1
        /\ \A i \in 1 .. n - 1 : Tail(c)[i] = c[i + 1]
    BY <1>1, <1>3, HeadTailProperties
  <1>5. /\ d \in [1 .. n + 1 -> Int] /\ d[1] = x /\ d[n + 1] = y
        /\ \A i \in 1 .. n : Allowed(c[i], d[i]) /\ d[i + 1] = d[i] + Change(c[i])
    BY <1>2, <1>3 DEF Heights
  <1>6. Allowed(Head(c), x) /\ d[2] = x + Change(Head(c))
    <2>1. 1 \in 1 .. n
      BY <1>4
    <2>2. Allowed(c[1], d[1]) /\ d[1 + 1] = d[1] + Change(c[1])
      BY <1>5, <2>1
    <2> QED
      BY <1>4, <1>5, <2>2
  <1> DEFINE e == [i \in 1 .. (n - 1) + 1 |-> d[i + 1]]
  <1>7. /\ e \in [1 .. (n - 1) + 1 -> Int] /\ e[1] = d[2] /\ e[(n - 1) + 1] = y
    <2>1. \A i \in 1 .. (n - 1) + 1 : i + 1 \in 1 .. n + 1
      BY <1>4
    <2>2. 1 \in 1 .. (n - 1) + 1 /\ (n - 1) + 1 \in 1 .. (n - 1) + 1 /\ ((n - 1) + 1) + 1 = n + 1
      BY <1>4
    <2> QED
      BY <1>5, <2>1, <2>2
  <1>8. ASSUME NEW i \in 1 .. n - 1
        PROVE  Allowed(Tail(c)[i], e[i]) /\ e[i + 1] = e[i] + Change(Tail(c)[i])
    <2>1. i + 1 \in 1 .. n /\ i \in 1 .. (n - 1) + 1 /\ i + 1 \in 1 .. (n - 1) + 1
      BY <1>4
    <2>2. e[i] = d[i + 1] /\ e[i + 1] = d[(i + 1) + 1] /\ Tail(c)[i] = c[i + 1]
      BY <1>4, <2>1
    <2> HIDE DEF e
    <2> QED
      BY <1>5, <2>1, <2>2
  <1> HIDE DEF e
  <1>9. Heights(Tail(c), e, d[2], y)
    BY <1>4, <1>7, <1>8 DEF Heights
  <1> QED
    BY <1>4, <1>6, <1>9 DEF Walks, IsSeq

-----------------------------------------------------------------------------
(* Instructions that do not touch the stack, and code of such instructions. *)
StackOps == {"push", "pop", "addsp", "divm", "save", "load", "alum"}

Still(c) == IsSeq(c) /\ \A i \in 1 .. Len(c) : c[i].i \notin StackOps

LEMMA StillNone == Still(<<>>)
  <1>1. Len(<<>>) = 0 /\ <<>> \in Seq({})
    OBVIOUS
  <1> QED
    BY <1>1 DEF Still, IsSeq

LEMMA StillOne ==
    ASSUME NEW a, a.i \notin StackOps
    PROVE  Still(<<a>>)
  <1>1. Len(<<a>>) = 1 /\ <<a>> \in Seq({a}) /\ <<a>>[1] = a
    OBVIOUS
  <1>2. IsSeq(<<a>>)
    BY <1>1 DEF IsSeq
  <1>3. \A i \in 1 .. Len(<<a>>) : i = 1
    BY <1>1
  <1> QED
    BY <1>1, <1>2, <1>3 DEF Still

LEMMA StillOn ==
    ASSUME NEW a, NEW b, Still(a), Still(b)
    PROVE  Still(a \o b)
  <1>1. /\ IsSeq(a \o b) /\ Len(a \o b) = Len(a) + Len(b) /\ Len(a) \in Nat /\ Len(b) \in Nat
        /\ \A i \in 1 .. Len(a) + Len(b) :
             (a \o b)[i] = IF i <= Len(a) THEN a[i] ELSE b[i - Len(a)]
    BY ConcatFacts DEF Still
  <1>2. ASSUME NEW i \in 1 .. Len(a) + Len(b) PROVE (a \o b)[i].i \notin StackOps
    <2>1. CASE i <= Len(a)
      <3>1. i \in 1 .. Len(a)
        BY <1>1, <2>1
      <3> QED
        BY <1>1, <2>1, <3>1 DEF Still
    <2>2. CASE ~(i <= Len(a))
      <3>1. i - Len(a) \in 1 .. Len(b)
        BY <1>1, <2>2
      <3> QED
        BY <1>1, <2>2, <3>1 DEF Still
    <2> QED
      BY <2>1, <2>2
  <1> QED
    BY <1>1, <1>2 DEF Still

LEMMA StillTwo ==
    ASSUME NEW a, NEW b, a.i \notin StackOps, b.i \notin StackOps
    PROVE  Still(<<a, b>>)
  <1>1. Len(<<a, b>>) = 2 /\ <<a, b>> \in Seq({a, b}) /\ <<a, b>>[1] = a /\ <<a, b>>[2] = b
    OBVIOUS
  <1>2. IsSeq(<<a, b>>)
    BY <1>1 DEF IsSeq
  <1>3. \A i \in 1 .. Len(<<a, b>>) : i = 1 \/ i = 2
    BY <1>1
  <1> QED
    BY <1>1, <1>2, <1>3 DEF Still

LEMMA StillWalks ==
    ASSUME NEW c, Still(c), NEW at \in Int, at <= 0
    PROVE  Walks(c, at, at)
  <1>1. IsSeq(c) /\ Len(c) \in Nat
    BY DEF Still, IsSeq
  <1> DEFINE d == [i \in 1 .. Len(c) + 1 |-> at]
  <1>2. ASSUME NEW i \in 1 .. Len(c)
        PROVE  Allowed(c[i], at) /\ Change(c[i]) = 0
    BY DEF Still, Allowed, Change, StackOps
  <1>3. Heights(c, d, at, at)
    BY <1>1, <1>2 DEF Heights
  <1> QED
    BY <1>1, <1>3 DEF Walks

-----------------------------------------------------------------------------
(* The emitters that need nothing but the operands. *)

LEMMA QuietInstructions ==
    ASSUME NEW f, NEW d, NEW s, NEW x, NEW e, NEW k
    PROVE  /\ MovReg(d, s).i \notin StackOps /\ MovImm(d, k).i \notin StackOps
           /\ Xchg(d, s).i \notin StackOps
           /\ AluReg(f, d, s).i \notin StackOps /\ AluImm(f, d, k).i \notin StackOps
           /\ Lea(d, s, x, e, k).i \notin StackOps
           /\ Neg(d).i \notin StackOps /\ Not(d).i \notin StackOps
           /\ ShiftImm(f, d, k).i \notin StackOps /\ ShiftCx(f, d).i \notin StackOps
           /\ Mul(s, f).i \notin StackOps /\ Div(s, f).i \notin StackOps
           /\ Cdq.i \notin StackOps
           /\ SetReg(f, d).i \notin StackOps /\ Branch(f).i \notin StackOps
           /\ PutReg(s, x, k, d).i \notin StackOps /\ PutImm(s, x, k, e).i \notin StackOps
  <1>1. MovReg(d, s).i \notin StackOps /\ MovImm(d, k).i \notin StackOps
    BY DEF MovReg, MovImm, Ins, StackOps
  <1>2. Xchg(d, s).i \notin StackOps
    BY DEF Xchg, Ins, StackOps
  <1>3. AluReg(f, d, s).i \notin StackOps /\ AluImm(f, d, k).i \notin StackOps
    BY DEF AluReg, AluImm, Ins, StackOps
  <1>4. Lea(d, s, x, e, k).i \notin StackOps
    BY DEF Lea, Ins, StackOps
  <1>5. Neg(d).i \notin StackOps /\ Not(d).i \notin StackOps
    BY DEF Neg, Not, Ins, StackOps
  <1>6. ShiftImm(f, d, k).i \notin StackOps /\ ShiftCx(f, d).i \notin StackOps
    BY DEF ShiftImm, ShiftCx, Ins, StackOps
  <1>7. Mul(s, f).i \notin StackOps /\ Div(s, f).i \notin StackOps
    BY DEF Mul, Div, Ins, StackOps
  <1>8. Cdq.i \notin StackOps
    BY DEF Cdq, Ins, StackOps
  <1>9. SetReg(f, d).i \notin StackOps /\ Branch(f).i \notin StackOps
    BY DEF SetReg, Branch, Ins, StackOps
  <1>10. PutReg(s, x, k, d).i \notin StackOps /\ PutImm(s, x, k, e).i \notin StackOps
    BY DEF PutReg, PutImm, Ins, StackOps
  <1> QED
    BY <1>1, <1>2, <1>3, <1>4, <1>5, <1>6, <1>7, <1>8, <1>9, <1>10

LEMMA StillWhen ==
    ASSUME NEW condition, NEW c, Still(c)
    PROVE  Still(When(condition, c))
  BY StillNone DEF When

LEMMA StillMove ==
    ASSUME NEW d, NEW s
    PROVE  Still(MovUnlessSame(d, s))
  <1>1. Still(<<MovReg(d, s)>>)
    BY StillOne, QuietInstructions
  <1> QED
    BY <1>1, StillWhen DEF MovUnlessSame

LEMMA StillMoveAnd ==
    ASSUME NEW d, NEW s, NEW a, a.i \notin StackOps
    PROVE  Still(MovUnlessSame(d, s) \o <<a>>)
  <1>1. Still(<<a>>)
    BY StillOne
  <1> QED
    BY <1>1, StillMove, StillOn

LEMMA StillAlu ==
    ASSUME NEW f, NEW op
    PROVE  Still(EmitAlu(f, op))
  <1> DEFINE d == op.r[1]
             s == op.r[2]
             x == op.r[3]
  <1>1. Still(MovUnlessSame(d, s) \o <<AluImm(f, d, op.k)>>)
    BY StillMoveAnd, QuietInstructions
  <1>2. Still(<<AluReg(f, d, x)>>)
    BY StillOne, QuietInstructions
  <1>3. Still(<<AluReg(f, d, s)>>)
    BY StillOne, QuietInstructions
  <1>4. Still(<<MovReg(d, s), AluReg(f, d, x)>>)
    BY StillTwo, QuietInstructions
  <1>5. CASE x = None
    BY <1>1, <1>5 DEF EmitAlu
  <1>6. CASE x # None /\ d = s
    BY <1>2, <1>6 DEF EmitAlu
  <1>7. CASE x # None /\ d # s /\ d = x
    BY <1>3, <1>7 DEF EmitAlu
  <1>8. CASE x # None /\ d # s /\ d # x
    BY <1>4, <1>8 DEF EmitAlu
  <1> QED
    BY <1>5, <1>6, <1>7, <1>8

LEMMA StillAdd ==
    ASSUME NEW op
    PROVE  Still(EmitAdd(op))
  <1>1. Still(<<Lea(op.r[1], op.r[2], op.r[3], 0, op.k)>>)
    BY StillOne, QuietInstructions
  <1> QED
    BY <1>1, StillAlu DEF EmitAdd

LEMMA StillSub ==
    ASSUME NEW op
    PROVE  Still(EmitSub(op))
  <1> DEFINE d == op.r[1]
             s == op.r[2]
             x == op.r[3]
  <1>1. CASE x = None /\ d # s
    <2>1. Still(<<Lea(d, s, None, 0, -op.k)>>)
      BY StillOne, QuietInstructions
    <2> QED
      BY <1>1, <2>1 DEF EmitSub
  <1>2. CASE x = None /\ d = s
    <2>1. Still(<<AluImm("sub", d, op.k)>>)
      BY StillOne, QuietInstructions
    <2> QED
      BY <1>2, <2>1 DEF EmitSub
  <1>3. CASE x # None /\ d = s
    <2>1. Still(<<AluReg("sub", d, x)>>)
      BY StillOne, QuietInstructions
    <2> QED
      BY <1>3, <2>1 DEF EmitSub
  <1>4. CASE x # None /\ d # s /\ d = x
    <2>1. Still(<<AluReg("sub", d, s), Neg(d)>>)
      BY StillTwo, QuietInstructions
    <2> QED
      BY <1>4, <2>1 DEF EmitSub
  <1>5. CASE x # None /\ d # s /\ d # x
    <2>1. Still(<<MovReg(d, s), AluReg("sub", d, x)>>)
      BY StillTwo, QuietInstructions
    <2> QED
      BY <1>5, <2>1 DEF EmitSub
  <1> QED
    BY <1>1, <1>2, <1>3, <1>4, <1>5

LEMMA StillRsb ==
    ASSUME NEW op
    PROVE  Still(EmitRsb(op))
  <1> DEFINE d == op.r[1]
             s == op.r[2]
             x == op.r[3]
  <1>1. CASE x = None /\ d = s
    <2>1. Still(<<AluImm("add", d, -op.k), Neg(d)>>)
      BY StillTwo, QuietInstructions
    <2> QED
      BY <1>1, <2>1 DEF EmitRsb
  <1>2. CASE x = None /\ d # s
    <2>1. Still(<<Lea(d, s, None, 0, -op.k), Neg(d)>>)
      BY StillTwo, QuietInstructions
    <2> QED
      BY <1>2, <2>1 DEF EmitRsb
  <1>3. CASE x # None /\ d = s
    <2>1. Still(<<AluReg("sub", d, x), Neg(d)>>)
      BY StillTwo, QuietInstructions
    <2> QED
      BY <1>3, <2>1 DEF EmitRsb
  <1>4. CASE x # None /\ d # s /\ d = x
    <2>1. Still(<<AluReg("sub", d, s)>>)
      BY StillOne, QuietInstructions
    <2> QED
      BY <1>4, <2>1 DEF EmitRsb
  <1>5. CASE x # None /\ d # s /\ d # x
    <2>1. Still(<<MovReg(d, x), AluReg("sub", d, s)>>)
      BY StillTwo, QuietInstructions
    <2> QED
      BY <1>5, <2>1 DEF EmitRsb
  <1> QED
    BY <1>1, <1>2, <1>3, <1>4, <1>5

LEMMA StillCompare ==
    ASSUME NEW f, NEW op
    PROVE  Still(Compare(f, op))
  <1>1. Still(<<AluImm(f, op.r[2], op.k)>>) /\ Still(<<AluReg(f, op.r[2], op.r[3])>>)
    BY StillOne, QuietInstructions
  <1> QED
    BY <1>1 DEF Compare

LEMMA StillBranch ==
    ASSUME NEW f, NEW op
    PROVE  Still(Compare(f, op) \o <<Branch(Condition(op))>>)
  <1>1. Still(<<Branch(Condition(op))>>)
    BY StillOne, QuietInstructions
  <1> QED
    BY <1>1, StillCompare, StillOn

LEMMA StillCond ==
    ASSUME NEW op
    PROVE  Still(EmitCond(op))
  <1> DEFINE d == op.r[1]
             Both(r) == <<MovImm(r, 0), SetReg(Condition(op), r)>>
  <1>1. \A r : Still(Both(r))
    BY StillTwo, QuietInstructions
  <1>2. Still(<<Xchg("ax", d)>>)
    BY StillOne, QuietInstructions
  <1>3. Still(Compare("cmp", op))
    BY StillCompare
  <1> HIDE DEF Both
  <1>4. Still(<<Xchg("ax", d)>> \o Both("ax") \o <<Xchg("ax", d)>>)
    BY <1>1, <1>2, StillOn
  <1>5. Still(Compare("cmp", op) \o IF d # "si" THEN Both(d)
                                   ELSE <<Xchg("ax", d)>> \o Both("ax") \o <<Xchg("ax", d)>>)
    BY <1>1, <1>3, <1>4, StillOn
  <1> QED
    BY <1>5 DEF EmitCond, Both

LEMMA StillCode ==
    ASSUME NEW op, op.code \in {"NOP", "MOV"} \cup Stores \cup Joined
    PROVE  Still(GenCode(op))
  <1> DEFINE d == op.r[1]
             s == op.r[2]
             x == op.r[3]
  <1>1. CASE op.code = "NOP"
    BY <1>1, StillNone DEF GenCode
  <1>2. CASE op.code = "MOV"
    <2>1. Still(<<AluReg("xor", d, d)>>) /\ Still(<<MovImm(d, op.k)>>)
      BY StillOne, QuietInstructions
    <2> QED
      BY <1>2, <2>1, StillMove DEF GenCode
  <1>3. CASE op.code = "ST"
    <2>1. Still(<<PutReg(d, None, op.k, s)>>)
      BY StillOne, QuietInstructions
    <2> QED
      BY <1>3, <2>1 DEF GenCode
  <1>4. CASE op.code = "STX"
    <2>1. Still(<<PutReg(d, s, op.k, x)>>)
      BY StillOne, QuietInstructions
    <2> QED
      BY <1>4, <2>1 DEF GenCode
  <1>5. CASE op.code = "X86_STI"
    <2>1. Still(<<PutImm(d, None, op.k, op.e)>>)
      BY StillOne, QuietInstructions
    <2> QED
      BY <1>5, <2>1 DEF GenCode
  <1>6. CASE op.code = "X86_STXI"
    <2>1. Still(<<PutImm(d, s, op.k, op.e)>>)
      BY StillOne, QuietInstructions
    <2> QED
      BY <1>6, <2>1 DEF GenCode
  <1>7. CASE op.code = "X86_ADDMUL"
    <2>1. Still(<<Lea(d, None, s, op.e, op.k)>>) /\ Still(<<Lea(d, s, x, op.e, 0)>>)
      BY StillOne, QuietInstructions
    <2> QED
      BY <1>7, <2>1 DEF GenCode
  <1>8. CASE op.code = "X86_ADDIMM"
    <2>1. Still(<<Lea(d, s, x, 0, op.e)>>)
      BY StillOne, QuietInstructions
    <2> QED
      BY <1>8, <2>1 DEF GenCode
  <1> QED
    BY <1>1, <1>2, <1>3, <1>4, <1>5, <1>6, <1>7, <1>8 DEF Stores, Joined

-----------------------------------------------------------------------------
(* The emitters that borrow registers.  What Preserving takes is at most   *)
(* one register to push, which it pops again.                              *)
Saves(r) == r = <<>> \/ \E x : r = <<Push(x)>>
Restores(r) == [i \in 1 .. Len(r) |-> [r[i] EXCEPT !.i = "pop", !.d = r[i].s]]

LEMMA Saved ==
    ASSUME NEW r, Saves(r), NEW at \in Int, at <= 0
    PROVE  /\ Len(r) \in Nat
           /\ Walks(r, at, at - Len(r))
           /\ Walks(Restores(r), at - Len(r), at)
  <1>1. CASE r = <<>>
    <2>1. Len(r) = 0 /\ at - Len(r) = at
      BY <1>1
    <2>2. Restores(r) = <<>>
      BY <1>1 DEF Restores
    <2> QED
      BY <1>1, <2>1, <2>2, WalkNone
  <1>2. CASE \E x : r = <<Push(x)>>
    <2>1. PICK x : r = <<Push(x)>>
      BY <1>2
    <2> DEFINE ins == [Push(x) EXCEPT !.i = "pop", !.d = Push(x).s]
    <2>2. Len(r) = 1 /\ r[1] = Push(x)
      BY <2>1
    <2>3. Restores(r) = <<ins>>
      <3>1. Restores(r) = [i \in 1 .. 1 |-> [r[i] EXCEPT !.i = "pop", !.d = r[i].s]]
        BY <2>2 DEF Restores
      <3>2. \A i \in 1 .. 1 : i = 1
        OBVIOUS
      <3>3. [i \in 1 .. 1 |-> [r[i] EXCEPT !.i = "pop", !.d = r[i].s]] = [i \in 1 .. 1 |-> ins]
        BY <2>2, <3>2
      <3>4. [i \in 1 .. 1 |-> ins] = <<ins>>
        OBVIOUS
      <3> QED
        BY <3>1, <3>3, <3>4
    <2>4. Push(x).i = "push" /\ ins.i = "pop"
      BY DEF Push, Ins
    <2> HIDE DEF ins
    <2>5. Allowed(Push(x), at) /\ Change(Push(x)) = -1
      BY <2>4 DEF Allowed, Change
    <2>6. Allowed(ins, at - 1) /\ Change(ins) = 1
      BY <2>4 DEF Allowed, Change
    <2>7. Walks(<<Push(x)>>, at, at - 1)
      BY <2>5, WalkOne
    <2>8. Walks(<<ins>>, at - 1, at)
      BY <2>6, WalkOne
    <2> QED
      BY <2>1, <2>2, <2>3, <2>7, <2>8
  <1> QED
    BY <1>1, <1>2 DEF Saves

LEMMA PreservingWalks ==
    ASSUME NEW r, Saves(r), NEW t, Saves(t), NEW body, NEW at \in Int, at <= 0,
           Walks(body, at - Len(r) - Len(t), at - Len(r) - Len(t))
    PROVE  Walks(Preserving(r, t, body), at, at)
  <1>1. /\ Len(r) \in Nat /\ Walks(r, at, at - Len(r)) /\ Walks(Restores(r), at - Len(r), at)
    BY Saved
  <1>2. at - Len(r) \in Int /\ at - Len(r) <= 0
    BY <1>1
  <1>3. /\ Walks(t, at - Len(r), at - Len(r) - Len(t))
        /\ Walks(Restores(t), at - Len(r) - Len(t), at - Len(r))
    BY <1>2, Saved
  <1>4. Walks(r \o t, at, at - Len(r) - Len(t))
    BY <1>1, <1>3, WalkOn
  <1>5. Walks((r \o t) \o body, at, at - Len(r) - Len(t))
    BY <1>4, WalkOn
  <1>6. Walks((r \o t) \o body \o Restores(t), at, at - Len(r))
    BY <1>3, <1>5, WalkOn
  <1>7. Walks((r \o t) \o body \o Restores(t) \o Restores(r), at, at)
    BY <1>1, <1>6, WalkOn
  <1> QED
    BY <1>7 DEF Preserving, Restores

LEMMA SavesWhen ==
    ASSUME NEW condition, NEW x
    PROVE  /\ Saves(When(condition, <<Push(x)>>))
           /\ Len(When(condition, <<Push(x)>>)) \in Nat
           /\ condition => Len(When(condition, <<Push(x)>>)) = 1
  BY DEF Saves, When

LEMMA SavesNone == Saves(<<>>) /\ Len(<<>>) = 0
  BY DEF Saves

LEMMA PreservingStill ==
    ASSUME NEW r, Saves(r), NEW t, Saves(t), NEW body, Still(body), NEW at \in Int, at <= 0
    PROVE  Walks(Preserving(r, t, body), at, at)
  <1>1. Len(r) \in Nat /\ Len(t) \in Nat
    BY Saved
  <1>2. at - Len(r) - Len(t) \in Int /\ at - Len(r) - Len(t) <= 0
    BY <1>1
  <1>3. Walks(body, at - Len(r) - Len(t), at - Len(r) - Len(t))
    BY <1>2, StillWalks
  <1> QED
    BY <1>3, PreservingWalks

LEMMA Pair ==
    ASSUME NEW a, NEW b
    PROVE  <<a>> \o <<b>> = <<a, b>>
  <1>1. <<a>> \in Seq({a, b}) /\ <<b>> \in Seq({a, b}) /\ <<a, b>> \in Seq({a, b})
    OBVIOUS
  <1>2. Len(<<a>>) = 1 /\ Len(<<b>>) = 1 /\ Len(<<a, b>>) = 2
    OBVIOUS
  <1>3. /\ <<a>> \o <<b>> \in Seq({a, b}) /\ Len(<<a>> \o <<b>>) = 2
        /\ \A i \in 1 .. 2 : (<<a>> \o <<b>>)[i] = IF i <= 1 THEN <<a>>[i] ELSE <<b>>[i - 1]
    BY <1>1, <1>2, ConcatProperties
  <1>4. \A i \in 1 .. 2 : i = 1 \/ i = 2
    OBVIOUS
  <1>5. \A i \in 1 .. 2 : (<<a>> \o <<b>>)[i] = <<a, b>>[i]
    BY <1>3, <1>4
  <1> QED
    BY <1>1, <1>2, <1>3, <1>5, SeqEqual
LEMMA Triple ==
    ASSUME NEW a, NEW b, NEW c
    PROVE  <<a>> \o <<b>> \o <<c>> = <<a, b, c>>
  <1> DEFINE S == {a, b, c}
  <1>1. <<a, b>> \in Seq(S) /\ <<c>> \in Seq(S) /\ <<a, b, c>> \in Seq(S)
    OBVIOUS
  <1>2. Len(<<a, b>>) = 2 /\ Len(<<c>>) = 1 /\ Len(<<a, b, c>>) = 3
    OBVIOUS
  <1> HIDE DEF S
  <1>3. /\ <<a, b>> \o <<c>> \in Seq(S) /\ Len(<<a, b>> \o <<c>>) = 3
        /\ \A i \in 1 .. 3 : (<<a, b>> \o <<c>>)[i] = IF i <= 2 THEN <<a, b>>[i] ELSE <<c>>[i - 2]
    BY <1>1, <1>2, ConcatProperties
  <1>4. \A i \in 1 .. 3 : i = 1 \/ i = 2 \/ i = 3
    OBVIOUS
  <1>5. \A i \in 1 .. 3 : (<<a, b>> \o <<c>>)[i] = <<a, b, c>>[i]
    BY <1>3, <1>4
  <1>6. <<a, b>> \o <<c>> = <<a, b, c>>
    BY <1>1, <1>2, <1>3, <1>5, SeqEqual
  <1> QED
    BY <1>6, Pair

LEMMA SubxWalks ==
    ASSUME NEW f, NEW op
    PROVE  Walks(EmitSubx(f, op), 0, 0)
  <1> DEFINE d == op.r[1]
             s == op.r[2]
             x == op.r[3]
  <1>1. CASE x = None
    <2>1. Still(MovUnlessSame(d, s) \o <<AluImm(f, d, op.k)>>)
      BY StillMoveAnd, QuietInstructions
    <2> QED
      BY <1>1, <2>1, StillWalks DEF EmitSubx
  <1>2. CASE x # None /\ d = s
    <2>1. Still(<<AluReg(f, d, x)>>)
      BY StillOne, QuietInstructions
    <2> QED
      BY <1>2, <2>1, StillWalks DEF EmitSubx
  <1>3. CASE x # None /\ d # s /\ d = x
    <2> DEFINE save == Save(x, -1)
               use == AluStack(f, d, -1)
    <2>1. save.i = "save" /\ save.k = -1
      BY DEF Save, Ins
    <2>2. use.i = "alum" /\ use.k = -1
      BY DEF AluStack, Ins
    <2>3. EmitSubx(f, op) = <<save, MovReg(d, s), use>>
      BY <1>3 DEF EmitSubx
    <2> HIDE DEF save, use
    <2>4. Allowed(save, 0) /\ Change(save) = 0
      BY <2>1 DEF Allowed, Change
    <2>5. Allowed(use, 0) /\ Change(use) = 0
      BY <2>2 DEF Allowed, Change
    <2>6. Walks(<<save>>, 0, 0) /\ Walks(<<use>>, 0, 0)
      BY <2>4, <2>5, WalkOne
    <2>7. Walks(<<MovReg(d, s)>>, 0, 0)
      BY StillOne, StillWalks, QuietInstructions
    <2>8. Walks(<<save>> \o <<MovReg(d, s)>> \o <<use>>, 0, 0)
      BY <2>6, <2>7, WalkOn
    <2>9. <<save>> \o <<MovReg(d, s)>> \o <<use>> = <<save, MovReg(d, s), use>>
      BY Triple
    <2> QED
      BY <2>3, <2>8, <2>9
  <1>4. CASE x # None /\ d # s /\ d # x
    <2>1. Still(<<MovReg(d, s), AluReg(f, d, x)>>)
      BY StillTwo, QuietInstructions
    <2> QED
      BY <1>4, <2>1, StillWalks DEF EmitSubx
  <1> QED
    BY <1>1, <1>2, <1>3, <1>4

LEMMA MulWalks ==
    ASSUME NEW op, NEW p, NEW high \in BOOLEAN
    PROVE  Walks(EmitMul(op, p, high), 0, 0)
  <1> DEFINE d == op.r[1]
             s == op.r[2]
             x == op.r[3]
             product == CASE x = None -> MovUnlessSame("ax", s) \o <<MovImm("dx", op.k), Mul("dx", Signs(op))>>
                          [] x # None /\ s = "ax" -> <<Mul(x, Signs(op))>>
                          [] x # None /\ s # "ax" /\ x = "ax" -> <<Mul(s, Signs(op))>>
                          [] x # None /\ s # "ax" /\ x # "ax" -> <<MovReg("ax", s), Mul(x, Signs(op))>>
             wide == Preserving(Saving(p, "ax", d), Saving(p, "dx", d),
                                product \o MovUnlessSame(d, IF high THEN "dx" ELSE "ax"))
  <1>1. Still(product)
    <2>1. Still(<<MovImm("dx", op.k), Mul("dx", Signs(op))>>)
      BY StillTwo, QuietInstructions
    <2>2. Still(MovUnlessSame("ax", s) \o <<MovImm("dx", op.k), Mul("dx", Signs(op))>>)
      BY <2>1, StillMove, StillOn
    <2>3. Still(<<Mul(x, Signs(op))>>) /\ Still(<<Mul(s, Signs(op))>>)
      BY StillOne, QuietInstructions
    <2>4. Still(<<MovReg("ax", s), Mul(x, Signs(op))>>)
      BY StillTwo, QuietInstructions
    <2> QED
      BY <2>2, <2>3, <2>4
  <1> HIDE DEF product
  <1>2. Walks(wide, 0, 0)
    <2>1. Saves(Saving(p, "ax", d)) /\ Saves(Saving(p, "dx", d))
      BY SavesWhen DEF Saving
    <2>2. Still(product \o MovUnlessSame(d, IF high THEN "dx" ELSE "ax"))
      BY <1>1, StillMove, StillOn
    <2> QED
      BY <2>1, <2>2, PreservingStill
  <1>3. Still(<<ShiftImm("shl", d, 1)>>)
    BY StillOne, QuietInstructions
  <1>4. \A e : Still(<<Lea(d, s, s, e, 0)>>)
    BY StillOne, QuietInstructions
  <1>5. \A k : Still(MovUnlessSame(d, s) \o <<ShiftImm("shl", d, k)>>)
    BY StillMoveAnd, QuietInstructions
  <1> HIDE DEF wide
  <1>6. EmitMul(op, p, high) \in {wide, <<ShiftImm("shl", d, 1)>>}
                                 \cup {<<Lea(d, s, s, e, 0)>> : e \in 0 .. 3}
                                 \cup {MovUnlessSame(d, s) \o <<ShiftImm("shl", d, k)>> : k \in 2 .. 3}
    <2>1. CASE ~high /\ x = None /\ op.k = 2
      BY <2>1 DEF EmitMul
    <2>2. CASE ~high /\ x = None /\ op.k = 3
      BY <2>2 DEF EmitMul
    <2>3. CASE ~high /\ x = None /\ op.k = 5
      BY <2>3 DEF EmitMul
    <2>4. CASE ~high /\ x = None /\ op.k = 9
      BY <2>4 DEF EmitMul
    <2>5. CASE ~high /\ x = None /\ op.k = 4
      BY <2>5 DEF EmitMul
    <2>6. CASE ~high /\ x = None /\ op.k = 8
      BY <2>6 DEF EmitMul
    <2>7. CASE high \/ x # None \/ op.k \notin {2, 3, 4, 5, 8, 9}
      BY <2>7 DEF EmitMul, wide, product
    <2> QED
      BY <2>1, <2>2, <2>3, <2>4, <2>5, <2>6, <2>7
  <1>7. CASE EmitMul(op, p, high) = wide
    BY <1>2, <1>7
  <1>8. CASE EmitMul(op, p, high) = <<ShiftImm("shl", d, 1)>>
    BY <1>3, <1>8, StillWalks
  <1>9. CASE \E e \in 0 .. 3 : EmitMul(op, p, high) = <<Lea(d, s, s, e, 0)>>
    <2>1. Still(EmitMul(op, p, high))
      BY <1>4, <1>9
    <2> QED
      BY <2>1, StillWalks
  <1>10. CASE \E k \in 2 .. 3 : EmitMul(op, p, high) = MovUnlessSame(d, s) \o <<ShiftImm("shl", d, k)>>
    <2>1. Still(EmitMul(op, p, high))
      BY <1>5, <1>10
    <2> QED
      BY <2>1, StillWalks
  <1> QED
    BY <1>6, <1>7, <1>8, <1>9, <1>10

LEMMA DivWalks ==
    ASSUME NEW op, NEW p, NEW modulo \in BOOLEAN
    PROVE  Walks(EmitDiv(op, p, modulo), 0, 0)
  <1> DEFINE d == op.r[1]
             s == op.r[2]
             x == op.r[3]
             power == x = None /\ op.k \in {2, 4, 8}
             extend == IF op.sign THEN <<Cdq>> ELSE <<AluReg("xor", "dx", "dx")>>
             dividend == MovUnlessSame("ax", s) \o extend
             bx == When(d # "bx", <<Push("bx")>>)
             byBx == Preserving(bx, <<>>, <<MovImm("bx", op.k), Div("bx", Signs(op))>>)
             byWord == <<Push(x)>> \o dividend \o <<DivStack(Signs(op)), AddSp(1)>>
             quotient ==
               CASE x = None -> dividend \o byBx
                 [] x \in {"ax", "dx"} -> byWord
                 [] x \notin {None, "ax", "dx"} -> dividend \o <<Div(x, Signs(op))>>
             r == Saving(p, "ax", d)
             t == Saving(p, "dx", d)
             body == quotient \o MovUnlessSame(d, IF modulo THEN "dx" ELSE "ax")
             long == When(power, MovUnlessSame(d, s)) \o Preserving(r, t, body)
  <1>1. Still(dividend)
    <2>1. Still(<<Cdq>>) /\ Still(<<AluReg("xor", "dx", "dx")>>)
      BY StillOne, QuietInstructions
    <2>2. Still(extend)
      BY <2>1
    <2> HIDE DEF extend
    <2> QED
      BY <2>2, StillMove, StillOn
  <1> HIDE DEF dividend
  <1>2. ASSUME NEW at \in Int, at <= 0 PROVE Walks(quotient, at, at)
    <2>1. Walks(dividend, at, at)
      BY <1>1, <1>2, StillWalks
    <2>2. Walks(dividend \o byBx, at, at)
      <3>1. Saves(bx)
        BY SavesWhen
      <3>2. Still(<<MovImm("bx", op.k), Div("bx", Signs(op))>>)
        BY StillTwo, QuietInstructions
      <3> HIDE DEF bx
      <3>3. Walks(byBx, at, at)
        BY <1>2, <3>1, <3>2, SavesNone, PreservingStill
      <3> QED
        BY <2>1, <3>3, WalkOn
    <2>3. Walks(byWord, at, at)
      <3> DEFINE push == Push(x)
                 div == DivStack(Signs(op))
                 add == AddSp(1)
      <3>1. push.i = "push" /\ div.i = "divm" /\ add.i = "addsp" /\ add.k = 1
        BY DEF Push, DivStack, AddSp, Ins
      <3>2. byWord = <<push>> \o dividend \o <<div, add>>
        OBVIOUS
      <3> HIDE DEF push, div, add, byWord
      <3>3. Allowed(push, at) /\ Change(push) = -1
        BY <1>2, <3>1 DEF Allowed, Change
      <3>4. Allowed(div, at - 1) /\ Change(div) = 0
        BY <1>2, <3>1 DEF Allowed, Change
      <3>5. Allowed(add, at - 1) /\ Change(add) = 1
        BY <1>2, <3>1 DEF Allowed, Change
      <3>6. Walks(<<push>>, at, at - 1)
        BY <3>3, WalkOne
      <3>7. Walks(<<div>>, at - 1, at - 1)
        BY <3>4, WalkOne
      <3>8. Walks(<<add>>, at - 1, at)
        BY <3>5, WalkOne
      <3>9. Walks(dividend, at - 1, at - 1)
        <4>1. at - 1 \in Int /\ at - 1 <= 0
          BY <1>2
        <4> QED
          BY <1>1, <4>1, StillWalks
      <3>10. Walks(<<push>> \o dividend, at, at - 1)
        BY <3>6, <3>9, WalkOn
      <3>11. Walks(<<div>> \o <<add>>, at - 1, at)
        BY <3>7, <3>8, WalkOn
      <3>12. <<div>> \o <<add>> = <<div, add>>
        BY Pair
      <3>13. Walks(<<push>> \o dividend \o <<div, add>>, at, at)
        BY <3>10, <3>11, <3>12, WalkOn
      <3> QED
        BY <3>2, <3>13
    <2>4. Walks(dividend \o <<Div(x, Signs(op))>>, at, at)
      <3>1. Still(<<Div(x, Signs(op))>>)
        BY StillOne, QuietInstructions
      <3>2. Walks(<<Div(x, Signs(op))>>, at, at)
        BY <1>2, <3>1, StillWalks
      <3> QED
        BY <2>1, <3>2, WalkOn
    <2> HIDE DEF byBx, byWord
    <2> QED
      BY <2>2, <2>3, <2>4
  <1>3. Walks(long, 0, 0)
    <2>1. Saves(r) /\ Saves(t)
      BY SavesWhen DEF Saving
    <2> HIDE DEF quotient, r, t
    <2>2. Len(r) \in Nat /\ Len(t) \in Nat
      BY <2>1, Saved
    <2> DEFINE at == 0 - Len(r) - Len(t)
    <2>3. at \in Int /\ at <= 0
      BY <2>2
    <2> HIDE DEF at
    <2>4. Walks(quotient, at, at)
      BY <1>2, <2>3
    <2>5. Walks(MovUnlessSame(d, IF modulo THEN "dx" ELSE "ax"), at, at)
      BY <2>3, StillMove, StillWalks
    <2>6. Walks(body, at, at)
      BY <2>4, <2>5, WalkOn
    <2> HIDE DEF body
    <2>7. Walks(Preserving(r, t, body), 0, 0)
      BY <2>1, <2>6, PreservingWalks DEF at
    <2>8. Walks(When(power, MovUnlessSame(d, s)), 0, 0)
      BY StillMove, StillWhen, StillWalks
    <2> QED
      BY <2>7, <2>8, WalkOn
  <1>4. \A f, k : Still(MovUnlessSame(d, s) \o <<ShiftImm(f, d, k)>>)
    BY StillMoveAnd, QuietInstructions
  <1>5. \A k : Still(MovUnlessSame(d, s) \o <<AluImm("and", d, k)>>)
    BY StillMoveAnd, QuietInstructions
  <1>6. CASE power /\ ~modulo
    <2>1. EmitDiv(op, p, modulo) =
            MovUnlessSame(d, s) \o <<ShiftImm(IF op.sign THEN "sar" ELSE "shr", d, Log2(op.k))>>
      BY <1>6 DEF EmitDiv
    <2> QED
      BY <1>4, <2>1, StillWalks
  <1>7. CASE power /\ modulo /\ ~op.sign
    <2>1. EmitDiv(op, p, modulo) = MovUnlessSame(d, s) \o <<AluImm("and", d, op.k - 1)>>
      BY <1>7 DEF EmitDiv
    <2> QED
      BY <1>5, <2>1, StillWalks
  <1>8. CASE ~power \/ (modulo /\ op.sign)
    <2>1. EmitDiv(op, p, modulo) = long
      BY <1>8 DEF EmitDiv, dividend
    <2> QED
      BY <1>3, <2>1
  <1> QED
    BY <1>6, <1>7, <1>8

(* CX was pushed when the value is taken from the stack: it is live, as an *)
(* operand, and is not the count.                                          *)
LEMMA ShiftWalks ==
    ASSUME NEW f, NEW op, NEW p, op.code \in {"LSH", "RSH"},
           ShiftsApart => ~BothInCX(op), Uses(op) \subseteq live[p].in
    PROVE  Walks(EmitShift(f, op, p), 0, 0)
  <1> DEFINE d == op.r[1]
             s == op.r[2]
             x == op.r[3]
             tmp == IF UnusedReg(p) = <<>> THEN "ax" ELSE Head(UnusedReg(p))
             cx == When(x # "cx" /\ "cx" \in InUse(p), <<Push("cx")>>)
             value == When(d # s, IF s = "cx" THEN <<Load(d, 0)>> ELSE <<MovReg(d, s)>>)
             other == When(tmp \in InUse(p), <<Push(tmp)>>)
             inCx == MovUnlessSame("cx", x) \o value \o <<ShiftCx(f, d)>>
             inTmp == MovUnlessSame(tmp, s) \o MovUnlessSame("cx", x) \o <<ShiftCx(f, tmp), MovReg(d, tmp)>>
  <1>1. CASE x = None
    <2>1. Still(MovUnlessSame(d, s) \o <<ShiftImm(f, d, op.k)>>)
      BY StillMoveAnd, QuietInstructions
    <2> QED
      BY <1>1, <2>1, StillWalks DEF EmitShift
  <1>2. CASE x # None /\ d # "cx"
    <2>1. Saves(cx) /\ Len(cx) \in Nat /\ (x # "cx" /\ "cx" \in InUse(p) => Len(cx) = 1)
      BY SavesWhen
    <2> DEFINE at == 0 - Len(cx) - Len(<<>>)
    <2>2. at = 0 - Len(cx) /\ at \in Int /\ at <= 0
      BY <2>1
    <2>3. EmitShift(f, op, p) = Preserving(cx, <<>>, inCx)
      BY <1>2 DEF EmitShift
    <2> HIDE DEF at, cx
    <2>4. Walks(value, at, at)
      <3>1. CASE d = s
        BY <2>2, <3>1, WalkNone DEF When
      <3>2. CASE d # s /\ s # "cx"
        <4>1. Still(<<MovReg(d, s)>>)
          BY StillOne, QuietInstructions
        <4> QED
          BY <2>2, <3>2, <4>1, StillWalks DEF When
      <3>3. CASE d # s /\ s = "cx"
        <4> DEFINE load == Load(d, 0)
        <4>1. load.i = "load" /\ load.k = 0
          BY DEF Load, Ins
        <4>2. value = <<load>>
          BY <3>3 DEF When
        <4> HIDE DEF load, value
        <4>3. ASSUME ShiftsApart PROVE at < 0
          <5>1. x # "cx"
            BY <1>2, <3>3, <4>3 DEF BothInCX
          <5>2. "cx" \in Uses(op)
            BY <3>3 DEF Uses, HasTarget, Arithmetic, None
          <5>3. "cx" \in InUse(p)
            BY <5>2 DEF InUse
          <5> QED
            BY <2>1, <2>2, <5>1, <5>3
        <4>4. Allowed(load, at) /\ Change(load) = 0
          BY <2>2, <4>1, <4>3 DEF Allowed, Change
        <4>5. Walks(<<load>>, at, at)
          BY <2>2, <4>4, WalkOne
        <4> QED
          BY <4>2, <4>5
      <3> QED
        BY <3>1, <3>2, <3>3
    <2> HIDE DEF value
    <2>5. Walks(MovUnlessSame("cx", x), at, at)
      BY <2>2, StillMove, StillWalks
    <2>6. Walks(<<ShiftCx(f, d)>>, at, at)
      <3>1. Still(<<ShiftCx(f, d)>>)
        BY StillOne, QuietInstructions
      <3> QED
        BY <2>2, <3>1, StillWalks
    <2>7. Walks(inCx, at, at)
      BY <2>4, <2>5, <2>6, WalkOn
    <2> HIDE DEF inCx
    <2>8. Walks(Preserving(cx, <<>>, inCx), 0, 0)
      BY <2>1, <2>7, SavesNone, PreservingWalks DEF at
    <2> QED
      BY <2>3, <2>8
  <1>3. CASE x # None /\ d = "cx"
    <2>1. Saves(other)
      BY SavesWhen
    <2>2. EmitShift(f, op, p) = Preserving(other, <<>>, inTmp)
      BY <1>3 DEF EmitShift
    <2>3. Still(<<ShiftCx(f, tmp), MovReg(d, tmp)>>)
      BY StillTwo, QuietInstructions
    <2>4. Still(inTmp)
      BY <2>3, StillMove, StillOn
    <2> HIDE DEF other, inTmp
    <2> QED
      BY <2>1, <2>2, <2>4, SavesNone, PreservingStill
  <1> QED
    BY <1>1, <1>2, <1>3

-----------------------------------------------------------------------------
(* The code of every operation leaves the stack pointer where it was. *)

LEMMA GenWalks ==
    ASSUME NEW op, NEW p, op.code \in Code,
           ShiftsApart => ~BothInCX(op),
           op.code \in {"LSH", "RSH"} => Uses(op) \subseteq live[p].in
    PROVE  Walks(Gen(op, p), 0, 0)
  <1> DEFINE d == op.r[1]
             s == op.r[2]
  <1>1. CASE op.code \in {"NEG", "NOT"}
    <2>1. Still(MovUnlessSame(d, s) \o <<Neg(d)>>) /\ Still(MovUnlessSame(d, s) \o <<Not(d)>>)
      BY StillMoveAnd, QuietInstructions
    <2>2. Still(Gen(op, p))
      BY <1>1, <2>1 DEF Gen, Compares, CompareBranches
    <2> QED
      BY <2>2, StillWalks
  <1>2. CASE op.code \in {"ADD", "ADDC", "ADDX", "AND", "OR", "XOR", "SUB", "RSB"}
    <2>1. Still(EmitAdd(op)) /\ Still(EmitSub(op)) /\ Still(EmitRsb(op)) /\ \A f : Still(EmitAlu(f, op))
      BY StillAdd, StillSub, StillRsb, StillAlu
    <2>2. Still(Gen(op, p))
      BY <1>2, <2>1 DEF Gen, Compares, CompareBranches
    <2> QED
      BY <2>2, StillWalks
  <1>3. CASE op.code \in {"SUBC", "SUBX"}
    <2>1. \A f : Walks(EmitSubx(f, op), 0, 0)
      BY SubxWalks
    <2> QED
      BY <1>3, <2>1 DEF Gen, Compares, CompareBranches
  <1>4. CASE op.code \in {"MUL", "HMUL"}
    <2>1. Gen(op, p) = EmitMul(op, p, op.code = "HMUL")
      BY <1>4 DEF Gen, Compares, CompareBranches
    <2> QED
      BY <2>1, MulWalks
  <1>5. CASE op.code \in {"DIV", "MOD"}
    <2>1. Gen(op, p) = EmitDiv(op, p, op.code = "MOD")
      BY <1>5 DEF Gen, Compares, CompareBranches
    <2> QED
      BY <2>1, DivWalks
  <1>6. CASE op.code \in {"LSH", "RSH"}
    <2>1. \A f : Walks(EmitShift(f, op, p), 0, 0)
      BY <1>6, ShiftWalks
    <2>2. Gen(op, p) = EmitShift(IF op.code = "LSH" THEN "shl" ELSE IF op.sign THEN "sar" ELSE "shr", op, p)
      BY <1>6 DEF Gen, Compares, CompareBranches
    <2> QED
      BY <2>1, <2>2
  <1>7. CASE op.code \in Compares
    <2>1. Gen(op, p) = EmitCond(op)
      BY <1>7 DEF Gen, Compares, CompareBranches
    <2> QED
      BY <2>1, StillCond, StillWalks
  <1>8. CASE op.code \in Branches
    <2>1. \A f : Still(Compare(f, op) \o <<Branch(Condition(op))>>)
      BY StillBranch
    <2>2. \E f : Gen(op, p) = Compare(f, op) \o <<Branch(Condition(op))>>
      <3>1. CASE op.code \in CompareBranches
        BY <3>1 DEF Gen, Compares, CompareBranches
      <3>2. CASE op.code \in {"BMS", "BMC"}
        BY <3>2 DEF Gen, Compares, CompareBranches
      <3>3. CASE op.code \in {"BOADD", "BNOADD"}
        BY <3>3 DEF Gen, Compares, CompareBranches
      <3>4. CASE op.code \in {"BOSUB", "BNOSUB"}
        BY <3>4 DEF Gen, Compares, CompareBranches
      <3> QED
        BY <1>8, <3>1, <3>2, <3>3, <3>4 DEF Branches, Overflows
    <2> QED
      BY <2>1, <2>2, StillWalks
  <1>9. CASE op.code \in {"NOP", "MOV"} \cup Stores \cup Joined
    <2>1. Gen(op, p) = GenCode(op)
      BY <1>9 DEF Gen, Stores, Joined, Compares, CompareBranches
    <2> QED
      BY <1>9, <2>1, StillCode, StillWalks
  <1> QED
    BY <1>1, <1>2, <1>3, <1>4, <1>5, <1>6, <1>7, <1>8, <1>9
    DEF Code, Arithmetic, Unary

-----------------------------------------------------------------------------
(* The list: operations for which there is code, shifts with live operands. *)

Emittable == {o \in Op : ShiftsApart => ~BothInCX(o)}
Shifts == {"LSH", "RSH"}

(* The sets of a shift contain its operands.                               *)
ShiftsLive(list, sets) ==
    \A p \in 1 .. Len(list) : list[p].code \in Shifts => Uses(list[p]) \subseteq sets[p].in

ListInv ==
    /\ ops \in Seq(Emittable)
    /\ pos \in Nat \ {0}
    /\ pass # "imms" => ShiftsLive(ops, live)

Operands == [1 .. 3 -> Reg \cup {None}]

LEMMA OthersEmittable ==
    ASSUME NEW o \in Op, o.code \notin Shifts
    PROVE  o \in Emittable
  BY DEF Emittable, BothInCX, Shifts

LEMMA EmittableFields ==
    ASSUME NEW o \in Emittable
    PROVE  /\ o \in Op
           /\ o.code \in Code /\ o.sign \in BOOLEAN /\ o.imm \in BOOLEAN /\ o.k \in Int /\ o.e \in Int
           /\ o.r \in [1 .. 3 -> Reg \cup {None}]
  BY DEF Emittable, Op

LEMMA OpChanged ==
    ASSUME NEW op \in Op, NEW c \in Code, NEW k \in Int, NEW e \in Int, NEW r \in Operands
    PROVE  /\ [op EXCEPT !.code = c, !.imm = TRUE, !.k = k, !.r = r] \in Op
           /\ [op EXCEPT !.imm = FALSE, !.k = k, !.r = r] \in Op
           /\ [op EXCEPT !.code = c, !.imm = FALSE, !.k = k, !.e = e, !.r = r] \in Op
           /\ [op EXCEPT !.code = c, !.e = e, !.r = r] \in Op
  <1>1. [op EXCEPT !.code = c, !.imm = TRUE, !.k = k, !.r = r] \in Op
    BY DEF Op, Operands
  <1>2. [op EXCEPT !.imm = FALSE, !.k = k, !.r = r] \in Op
    BY DEF Op, Operands
  <1>3. [op EXCEPT !.code = c, !.imm = FALSE, !.k = k, !.e = e, !.r = r] \in Op
    BY DEF Op, Operands
  <1>4. [op EXCEPT !.code = c, !.e = e, !.r = r] \in Op
    BY DEF Op, Operands
  <1> QED
    BY <1>1, <1>2, <1>3, <1>4

LEMMA NOPEmittable == NOP \in Emittable
  <1>1. <<None, None, None>> \in [1 .. 3 -> Reg \cup {None}]
    OBVIOUS
  <1>2. NOP \in Op
    BY <1>1 DEF NOP, Op, Code
  <1>3. NOP.code \notin Shifts
    BY DEF NOP, Shifts
  <1> QED
    BY <1>2, <1>3, OthersEmittable

LEMMA LivenessShifts ==
    ASSUME NEW list \in Seq(Emittable), NEW exit
    PROVE  ShiftsLive(list, Liveness(list, exit))
  <1> SUFFICES ASSUME NEW p \in 1 .. Len(list)
               PROVE  Uses(list[p]) \subseteq Liveness(list, exit)[p].in
    BY DEF ShiftsLive
  <1> QED
    BY DEF Liveness

(* The operations a pass changes are not shifts.                           *)
Keeps(list) ==
    \A p \in 1 .. Len(list) : list[p].code \in Shifts => p \in 1 .. Len(ops) /\ list[p] = ops[p]

LEMMA LeaveKeeps ==
    ASSUME ListInv, NEW list \in Seq(Emittable), NEW n \in Nat \ {0},
           pass = "imms" \/ Keeps(list), Leave(list, n)
    PROVE  ListInv'
  <1>1. ops' = list
    BY DEF Leave
  <1>2. CASE pos + n <= Len(list)
    <2>1. pos' = pos + n /\ pass' = pass /\ live' = live
      BY <1>2 DEF Leave
    <2>2. ASSUME pass # "imms" PROVE ShiftsLive(list, live)
      BY <2>2 DEF ListInv, ShiftsLive, Keeps
    <2> QED
      BY <1>1, <2>1, <2>2 DEF ListInv
  <1>3. CASE ~(pos + n <= Len(list))
    <2>1. pos' = 1 /\ live' = IF Analysed(list) THEN Liveness(list, prog.exit) ELSE live
      BY <1>3 DEF Leave
    <2>2. ShiftsLive(list, live')
      <3>1. CASE Analysed(list)
        BY <2>1, <3>1, LivenessShifts
      <3>2. CASE ~Analysed(list)
        <4>1. pass # "imms"
          BY <3>2 DEF Analysed
        <4> QED
          BY <2>1, <3>2, <4>1 DEF ListInv, ShiftsLive, Keeps
      <3> QED
        BY <3>1, <3>2
    <2> QED
      BY <1>1, <2>1, <2>2 DEF ListInv
  <1> QED
    BY <1>2, <1>3

LEMMA StepSame ==
    ASSUME ListInv, Step(ops)
    PROVE  ListInv'
  <1>1. Keeps(ops)
    BY DEF Keeps
  <1> QED
    BY <1>1, LeaveKeeps DEF Step, ListInv

LEMMA StepOne ==
    ASSUME ListInv, NEW i \in 1 .. Len(ops), NEW o \in Op, o.code \notin Shifts,
           Step([ops EXCEPT ![i] = o])
    PROVE  ListInv'
  <1> DEFINE list == [ops EXCEPT ![i] = o]
  <1>1. o \in Emittable /\ ops \in Seq(Emittable)
    BY OthersEmittable DEF ListInv
  <1>2. /\ list \in Seq(Emittable) /\ Len(list) = Len(ops)
        /\ \A j \in 1 .. Len(ops) : list[j] = IF j = i THEN o ELSE ops[j]
    BY <1>1, ExceptSeq
  <1> HIDE DEF list
  <1>3. Keeps(list)
    BY <1>2 DEF Keeps
  <1>4. Leave(list, 1)
    BY DEF Step, list
  <1>5. 1 \in Nat \ {0}
    OBVIOUS
  <1> QED
    BY <1>2, <1>3, <1>4, <1>5, LeaveKeeps

LEMMA StepTwo ==
    ASSUME ListInv, NEW i \in 1 .. Len(ops), i + 1 \in 1 .. Len(ops),
           NEW o \in Op, o.code \notin Shifts,
           Step(Two(i, NOP, o))
    PROVE  ListInv'
  <1> DEFINE half == [ops EXCEPT ![i] = NOP]
             list == [half EXCEPT ![i + 1] = o]
  <1>1. o \in Emittable /\ ops \in Seq(Emittable)
    BY OthersEmittable DEF ListInv
  <1>2. /\ half \in Seq(Emittable) /\ Len(half) = Len(ops)
        /\ \A j \in 1 .. Len(ops) : half[j] = IF j = i THEN NOP ELSE ops[j]
    BY <1>1, NOPEmittable, ExceptSeq
  <1>3. Two(i, NOP, o) = list
    BY DEF Two
  <1> HIDE DEF half
  <1>4. /\ list \in Seq(Emittable) /\ Len(list) = Len(ops)
        /\ \A j \in 1 .. Len(ops) : list[j] = IF j = i + 1 THEN o ELSE half[j]
    BY <1>1, <1>2, ExceptSeq
  <1> HIDE DEF list
  <1>5. NOP.code \notin Shifts
    BY DEF NOP, Shifts
  <1>6. Keeps(list)
    BY <1>2, <1>4, <1>5 DEF Keeps
  <1> QED
    BY <1>3, <1>4, <1>6, LeaveKeeps DEF Step

LEMMA CorrectLongImmKeeps ==
    ASSUME ListInv, CorrectLongImm
    PROVE  ListInv'
  <1>1. pass = "imms" /\ pos <= Len(ops) /\ ops \in Seq(Emittable) /\ pos \in Nat \ {0}
    BY DEF CorrectLongImm, At, ListInv
  <1>2. PICK op : op = ops[pos]
    OBVIOUS
  <1>3. op \in Emittable
    BY <1>1, <1>2, ElementOfSeq
  <1> DEFINE mov == [NOP EXCEPT !.code = "MOV", !.imm = TRUE, !.k = op.k, !.r[1] = RImm]
             by == [op EXCEPT !.imm = FALSE, !.k = 0, !.r[ImmArg(op)] = RImm]
             before == SubSeq(ops, 1, pos - 1)
             after == SubSeq(ops, pos + 1, Len(ops))
  <1>4. CASE op.imm /\ op.code # "MOV" /\ ImmOverflow(op)
    <2>1. Leave(before \o <<mov, by>> \o after, 2)
      BY <1>2, <1>4 DEF CorrectLongImm
    <2>2. mov \in Emittable
      <3>1. [<<None, None, None>> EXCEPT ![1] = RImm] \in [1 .. 3 -> Reg \cup {None}]
        BY ImmAssumption
      <3>2. NOP \in Op /\ NOP.r = <<None, None, None>>
        BY NOPEmittable, EmittableFields DEF NOP
      <3>3. mov = [NOP EXCEPT !.code = "MOV", !.imm = TRUE, !.k = op.k, !.r = [NOP.r EXCEPT ![1] = RImm]]
        BY <3>2 DEF Op
      <3>4. op.k \in Int /\ "MOV" \in Code
        BY <1>3, EmittableFields DEF Code, Unary
      <3> DEFINE r == [NOP.r EXCEPT ![1] = RImm]
      <3>5. r \in Operands
        BY <3>1, <3>2 DEF Operands
      <3> HIDE DEF mov, r
      <3>6. mov = [NOP EXCEPT !.code = "MOV", !.imm = TRUE, !.k = op.k, !.r = r]
        BY <3>3 DEF r
      <3>7. mov \in Op
        BY <3>2, <3>4, <3>5, <3>6, OpChanged
      <3>8. mov.code = "MOV"
        BY <3>2, <3>6 DEF Op
      <3> QED
        BY <3>7, <3>8, OthersEmittable DEF Shifts
    <2>3. by \in Emittable
      <3>1. op.r \in [1 .. 3 -> Reg \cup {None}] /\ ImmArg(op) \in 1 .. 3
        BY <1>3, EmittableFields DEF ImmArg
      <3>2. [op.r EXCEPT ![ImmArg(op)] = RImm] \in [1 .. 3 -> Reg \cup {None}]
        BY <3>1, ImmAssumption
      <3>3. by = [op EXCEPT !.imm = FALSE, !.k = 0, !.r = [op.r EXCEPT ![ImmArg(op)] = RImm]]
        BY <1>3, EmittableFields DEF Op
      <3> DEFINE r == [op.r EXCEPT ![ImmArg(op)] = RImm]
      <3> HIDE DEF by, r
      <3>4. by \in Op /\ by.code = op.code /\ by.imm = FALSE /\ by.r = r
        <4>1. r \in Operands /\ by = [op EXCEPT !.imm = FALSE, !.k = 0, !.r = r]
          BY <3>2, <3>3 DEF r, Operands
        <4>2. op \in Op /\ op.code \in Code /\ 0 \in Int
          BY <1>3, EmittableFields
        <4>3. by \in Op
          BY <4>1, <4>2, OpChanged
        <4> QED
          BY <4>1, <4>2, <4>3 DEF Op
      <3>5. ASSUME ShiftsApart, BothInCX(by) PROVE FALSE
        <4>1. op.code \in Shifts
          BY <3>4, <3>5 DEF BothInCX, Shifts
        <4>2. ImmArg(op) = 3
          BY <4>1 DEF ImmArg, Shifts
        <4>3. by.r[1] = op.r[1] /\ by.r[2] = op.r[2] /\ by.r[3] = RImm
          BY <3>1, <3>4, <4>2 DEF r
        <4>4. BothInCX(op)
          BY <1>4, <3>4, <3>5, <4>3 DEF BothInCX
        <4> QED
          BY <1>3, <3>5, <4>4 DEF Emittable
      <3> QED
        BY <3>4, <3>5 DEF Emittable
    <2>4. before \in Seq(Emittable) /\ after \in Seq(Emittable)
      <3>1. \A i \in 1 .. Len(ops) : ops[i] \in Emittable
        BY <1>1, ElementOfSeq
      <3>2. /\ Len(ops) \in Int /\ pos - 1 \in Int /\ pos + 1 \in Int
            /\ \A i \in 1 .. pos - 1 : i \in 1 .. Len(ops)
            /\ \A i \in pos + 1 .. Len(ops) : i \in 1 .. Len(ops)
        BY <1>1
      <3> QED
        BY <3>1, <3>2, SubSeqProperties
    <2> HIDE DEF mov, by, before, after
    <2>5. <<mov, by>> \in Seq(Emittable)
      BY <2>2, <2>3
    <2>6. before \o <<mov, by>> \o after \in Seq(Emittable)
      BY <2>4, <2>5, ConcatProperties
    <2>7. 2 \in Nat \ {0}
      OBVIOUS
    <2> DEFINE list == before \o <<mov, by>> \o after
    <2> HIDE DEF list
    <2>8. list \in Seq(Emittable) /\ Leave(list, 2)
      BY <2>1, <2>6 DEF list
    <2> QED
      BY <1>1, <2>7, <2>8, LeaveKeeps
  <1>5. CASE ~(op.imm /\ op.code # "MOV" /\ ImmOverflow(op))
    <2>1. Step(ops)
      BY <1>2, <1>5 DEF CorrectLongImm
    <2> QED
      BY <2>1, StepSame
  <1> QED
    BY <1>4, <1>5

LEMMA DropUnusedKeeps ==
    ASSUME ListInv, DropUnused
    PROVE  ListInv'
  <1>1. pos \in 1 .. Len(ops)
    BY DEF DropUnused, At, ListInv
  <1>2. Step([ops EXCEPT ![pos] = NOP]) \/ Step(ops)
    BY DEF DropUnused
  <1>3. NOP \in Op /\ NOP.code \notin Shifts
    BY NOPEmittable, EmittableFields DEF NOP, Shifts
  <1> QED
    BY <1>1, <1>2, <1>3, StepSame, StepOne

LEMMA JoinStoreKeeps ==
    ASSUME ListInv, JoinStore
    PROVE  ListInv'
  <1>1. pos \in 1 .. Len(ops) /\ ops \in Seq(Emittable) /\ pos \in Nat
    BY DEF JoinStore, At, ListInv
  <1>2. ops[pos] \in Emittable
    BY <1>1, ElementOfSeq
  <1> DEFINE Stored(c, i) == [ops[pos] EXCEPT !.code = c, !.e = ops[pos - 1].k, !.r[i] = None]
  <1>3. ASSUME NEW i \in 2 .. 3, NEW c \in {"X86_STI", "X86_STXI"}, pos > 1,
               Step(Two(pos - 1, NOP, Stored(c, i)))
        PROVE  ListInv'
    <2>1. pos - 1 \in 1 .. Len(ops) /\ (pos - 1) + 1 \in 1 .. Len(ops)
      BY <1>1, <1>3
    <2>2. ops[pos - 1] \in Emittable
      BY <1>1, <2>1, ElementOfSeq
    <2>3. ops[pos - 1].k \in Int
      BY <2>2, EmittableFields
    <2>4. [ops[pos].r EXCEPT ![i] = None] \in [1 .. 3 -> Reg \cup {None}]
      BY <1>2, EmittableFields
    <2>5. c \in Code
      BY DEF Code, Stores
    <2>6. Stored(c, i) = [ops[pos] EXCEPT !.code = c, !.e = ops[pos - 1].k,
                                          !.r = [ops[pos].r EXCEPT ![i] = None]]
      BY <1>2, EmittableFields DEF Op
    <2>7. Stored(c, i) \in Op /\ Stored(c, i).code = c
      <3> DEFINE r == [ops[pos].r EXCEPT ![i] = None]
      <3>1. r \in Operands
        BY <2>4 DEF Operands
      <3> HIDE DEF Stored, r
      <3>2. Stored(c, i) = [ops[pos] EXCEPT !.code = c, !.e = ops[pos - 1].k, !.r = r]
        BY <2>6 DEF r
      <3>3. PICK op, k : op = ops[pos] /\ k = ops[pos - 1].k
        OBVIOUS
      <3>4. op \in Op /\ k \in Int /\ c \in Code
        BY <1>2, <2>3, <2>5, <3>3, EmittableFields
      <3>5. [op EXCEPT !.code = c, !.e = k, !.r = r] \in Op
        BY <3>1, <3>4, OpChanged
      <3>6. Stored(c, i) = [op EXCEPT !.code = c, !.e = k, !.r = r]
        BY <3>2, <3>3
      <3>7. Stored(c, i).code = c
        BY <3>4, <3>6 DEF Op
      <3> QED
        BY <3>5, <3>6, <3>7
    <2>8. c \notin Shifts
      BY DEF Shifts
    <2> HIDE DEF Stored
    <2> QED
      BY <1>3, <2>1, <2>7, <2>8, StepTwo
  <1>4. CASE pos > 1 /\ Step(Two(pos - 1, NOP, Stored("X86_STI", 2)))
    BY <1>3, <1>4
  <1>5. CASE pos > 1 /\ Step(Two(pos - 1, NOP, Stored("X86_STXI", 3)))
    BY <1>3, <1>5
  <1>6. CASE Step(ops)
    BY <1>6, StepSame
  <1> QED
    BY <1>4, <1>5, <1>6 DEF JoinStore, StoresConstant

LEMMA ShiftIndexInt ==
    ASSUME NEW op \in Emittable, SuitableMul(op)
    PROVE  ShiftIndex(op) \in Int
  <1>1. CASE op.code = "LSH"
    BY <1>1, EmittableFields DEF ShiftIndex
  <1>2. CASE op.code # "LSH"
    <2>1. op.k \in {2, 4, 8}
      BY <1>2 DEF SuitableMul, Signed
    <2>2. 2^1 = 2 /\ 2^2 = 4 /\ 2^3 = 8
      OBVIOUS
    <2>3. \E n \in 1 .. 3 : 2^n = op.k
      <3>1. CASE op.k = 2
        BY <2>2, <3>1
      <3>2. CASE op.k = 4
        BY <2>2, <3>2
      <3>3. CASE op.k = 8
        BY <2>2, <3>3
      <3> QED
        BY <2>1, <3>1, <3>2, <3>3
    <2> DEFINE n == CHOOSE m \in 1 .. 3 : 2^m = op.k
    <2>4. n \in 1 .. 3
      BY <2>3
    <2>5. ShiftIndex(op) = n
      BY <1>2 DEF ShiftIndex
    <2> HIDE DEF n
    <2>6. n \in Int
      BY <2>4
    <2> QED
      BY <2>5, <2>6
  <1> QED
    BY <1>1, <1>2

LEMMA JoinedMulOp ==
    ASSUME NEW op \in Emittable, NEW next \in Emittable, NEW both \in JoinedMul(op, next)
    PROVE  both \in Op /\ both.code = "X86_ADDMUL"
  <1>1. SuitableMul(op) /\ (both = AddMulI(op, next) \/ both = AddMulR(op, next))
    <2>1. JoinedMul(op, next) \in {{}, {AddMulI(op, next)}, {AddMulR(op, next)}}
      BY DEF JoinedMul
    <2>2. CASE ~SuitableMul(op)
      <3>1. JoinedMul(op, next) = {}
        BY <2>2 DEF JoinedMul
      <3> QED
        BY <3>1
    <2> QED
      BY <2>1, <2>2
  <1>2. ShiftIndex(op) \in Int
    BY <1>1, ShiftIndexInt
  <1>3. "X86_ADDMUL" \in Code
    BY DEF Code, Joined
  <1>4. /\ op.r[1] \in Reg \cup {None} /\ op.r[2] \in Reg \cup {None}
        /\ next.r[1] \in Reg \cup {None} /\ next.r[2] \in Reg \cup {None}
        /\ next.r[3] \in Reg \cup {None}
    BY EmittableFields
  <1>5. CASE both = AddMulI(op, next)
    <2>1. [next.r EXCEPT ![2] = op.r[2]] \in [1 .. 3 -> Reg \cup {None}]
      BY <1>4, EmittableFields
    <2>2. both = [next EXCEPT !.code = "X86_ADDMUL", !.r = [next.r EXCEPT ![2] = op.r[2]],
                              !.e = ShiftIndex(op)]
      BY <1>5, EmittableFields DEF AddMulI, Op
    <2> QED
      BY <1>2, <1>3, <2>1, <2>2, EmittableFields DEF Op
  <1>6. CASE both = AddMulR(op, next)
    <2> DEFINE other == IF next.r[2] = op.r[1] THEN next.r[3] ELSE next.r[2]
    <2>1. other \in Reg \cup {None}
      BY <1>4
    <2>2. both = [next EXCEPT !.code = "X86_ADDMUL", !.e = ShiftIndex(op),
                              !.r = <<next.r[1], other, op.r[2]>>]
      BY <1>6 DEF AddMulR
    <2> HIDE DEF other
    <2>3. <<next.r[1], other, op.r[2]>> \in [1 .. 3 -> Reg \cup {None}]
      BY <1>4, <2>1
    <2> QED
      BY <1>2, <1>3, <2>2, <2>3, EmittableFields DEF Op
  <1> QED
    BY <1>1, <1>5, <1>6

LEMMA JoinedAddOp ==
    ASSUME NEW op \in Emittable, NEW next \in Emittable, NEW both \in JoinedAdd(op, next)
    PROVE  both \in Op /\ both.code = "X86_ADDIMM"
  <1>1. both = AddrAddi(op, next) \/ both = AddiAddr(op, next)
    BY DEF JoinedAdd
  <1>2. "X86_ADDIMM" \in Code
    BY DEF Code, Joined
  <1>3. /\ op.r[1] \in Reg \cup {None} /\ op.r[2] \in Reg \cup {None} /\ op.r[3] \in Reg \cup {None}
        /\ next.r[1] \in Reg \cup {None} /\ next.r[2] \in Reg \cup {None}
        /\ next.r[3] \in Reg \cup {None} /\ op.k \in Int /\ next.k \in Int
    BY EmittableFields
  <1>4. CASE both = AddrAddi(op, next)
    <2>1. <<next.r[1], op.r[2], op.r[3]>> \in [1 .. 3 -> Reg \cup {None}]
      BY <1>3
    <2>2. both = [next EXCEPT !.code = "X86_ADDIMM", !.imm = FALSE, !.k = 0,
                              !.e = next.k, !.r = <<next.r[1], op.r[2], op.r[3]>>]
      BY <1>4 DEF AddrAddi
    <2> DEFINE r == <<next.r[1], op.r[2], op.r[3]>>
    <2>3. r \in Operands
      BY <2>1 DEF Operands
    <2> HIDE DEF r
    <2>4. both = [next EXCEPT !.code = "X86_ADDIMM", !.imm = FALSE, !.k = 0, !.e = next.k, !.r = r]
      BY <2>2 DEF r
    <2>5. next \in Op /\ 0 \in Int
      BY EmittableFields
    <2>6. both \in Op
      BY <1>2, <1>3, <2>3, <2>4, <2>5, OpChanged
    <2> QED
      BY <2>4, <2>5, <2>6 DEF Op
  <1>5. CASE both = AddiAddr(op, next)
    <2> DEFINE k == IF op.code = "SUB" THEN -op.k ELSE op.k
               e == IF next.r[2] = next.r[3] THEN 2 * k ELSE k
               Renamed(r) == IF r = op.r[1] THEN op.r[2] ELSE r
    <2>1. e \in Int
      BY <1>3
    <2>2. both = [next EXCEPT !.code = "X86_ADDIMM", !.e = e,
                              !.r = <<next.r[1], Renamed(next.r[2]), Renamed(next.r[3])>>]
      BY <1>5 DEF AddiAddr
    <2>3. Renamed(next.r[2]) \in Reg \cup {None} /\ Renamed(next.r[3]) \in Reg \cup {None}
      BY <1>3
    <2> HIDE DEF e, Renamed
    <2>4. <<next.r[1], Renamed(next.r[2]), Renamed(next.r[3])>> \in [1 .. 3 -> Reg \cup {None}]
      BY <1>3, <2>3
    <2> QED
      BY <1>2, <2>1, <2>2, <2>4, EmittableFields DEF Op
  <1> QED
    BY <1>1, <1>4, <1>5

LEMMA JoinKeeps ==
    ASSUME ListInv, pos \in 1 .. Len(ops), NEW joined, Join(joined),
           \A both \in joined : pos + 1 \in 1 .. Len(ops) => both \in Op /\ both.code \notin Shifts
    PROVE  ListInv'
  <1>1. CASE Step(ops)
    BY <1>1, StepSame
  <1>2. CASE \E both \in joined : Related(ops[pos]) /\ Step(Two(pos, NOP, both))
    <2>1. PICK both \in joined : Related(ops[pos]) /\ Step(Two(pos, NOP, both))
      BY <1>2
    <2>2. pos + 1 \in 1 .. Len(ops)
      BY <2>1 DEF Related, ListInv
    <2> QED
      BY <2>1, <2>2, StepTwo
  <1> QED
    BY <1>1, <1>2 DEF Join

LEMMA RewriteKeeps ==
    ASSUME ListInv, Rewrite
    PROVE  ListInv'
  <1>1. CASE CorrectLongImm
    BY <1>1, CorrectLongImmKeeps
  <1>2. CASE DropUnused
    BY <1>2, DropUnusedKeeps
  <1>3. CASE JoinStore
    BY <1>3, JoinStoreKeeps
  <1>4. CASE JoinAddMul \/ JoinAddImm
    <2>1. pos \in 1 .. Len(ops) /\ ops \in Seq(Emittable)
      BY <1>4 DEF JoinAddMul, JoinAddImm, At, ListInv
    <2>2. ops[pos] \in Emittable /\ (pos + 1 \in 1 .. Len(ops) => ops[pos + 1] \in Emittable)
      BY <2>1, ElementOfSeq
    <2>3. "X86_ADDMUL" \notin Shifts /\ "X86_ADDIMM" \notin Shifts
      BY DEF Shifts
    <2>4. CASE JoinAddMul
      <3>1. Join(JoinedMul(ops[pos], ops[pos + 1]))
        BY <2>4 DEF JoinAddMul
      <3>2. \A both \in JoinedMul(ops[pos], ops[pos + 1]) :
               pos + 1 \in 1 .. Len(ops) => both \in Op /\ both.code \notin Shifts
        BY <2>2, <2>3, JoinedMulOp
      <3> QED
        BY <2>1, <3>1, <3>2, JoinKeeps
    <2>5. CASE JoinAddImm
      <3>1. Join(JoinedAdd(ops[pos], ops[pos + 1]))
        BY <2>5 DEF JoinAddImm
      <3>2. \A both \in JoinedAdd(ops[pos], ops[pos + 1]) :
               pos + 1 \in 1 .. Len(ops) => both \in Op /\ both.code \notin Shifts
        BY <2>2, <2>3, JoinedAddOp
      <3> QED
        BY <2>1, <3>1, <3>2, JoinKeeps
    <2> QED
      BY <1>4, <2>4, <2>5
  <1> QED
    BY <1>1, <1>2, <1>3, <1>4 DEF Rewrite

-----------------------------------------------------------------------------
(* The machine: what is left of the code leads back to the place where it  *)
(* began, and the words from there on are those of the caller.             *)

StackInv ==
    /\ DOMAIN mem = Slots
    /\ sp \in Int /\ sp <= 0
    /\ Walks(code, sp, 0)
    /\ \A w \in Slots : w >= 0 => mem[w] = Foreign

EmitInv == ListInv /\ StackInv

(* The effect of an instruction on the stack.                              *)
OnStack(ins) ==
    /\ sp' = sp + Change(ins)
    /\ mem' = mem \/ \E w \in Int : w < 0 /\ \E v : mem' = [mem EXCEPT ![w] = v]

LEMMA RunOne ==
    ASSUME StackInv, code # <<>>, OnStack(Head(code)), code' = Tail(code)
    PROVE  StackInv'
  <1>1. Allowed(Head(code), sp) /\ Walks(Tail(code), sp + Change(Head(code)), 0)
    BY WalkRest DEF StackInv
  <1>2. sp' \in Int /\ sp' <= 0 /\ Walks(code', sp', 0)
    BY <1>1 DEF Allowed, OnStack
  <1>3. DOMAIN mem' = Slots /\ \A w \in Slots : w >= 0 => mem'[w] = Foreign
    <2>1. CASE mem' = mem
      BY <2>1 DEF StackInv
    <2>2. CASE \E w \in Int : w < 0 /\ \E v : mem' = [mem EXCEPT ![w] = v]
      <3>1. PICK w \in Int : w < 0 /\ \E v : mem' = [mem EXCEPT ![w] = v]
        BY <2>2
      <3>2. \A u \in Slots : u >= 0 => u # w
        BY <3>1, SlotsAssumption
      <3> QED
        BY <3>1, <3>2 DEF StackInv
    <2> QED
      BY <2>1, <2>2 DEF OnStack
  <1> QED
    BY <1>2, <1>3 DEF StackInv

LEMMA NotOfStack ==
    ASSUME NEW ins, ins.i \notin {"push", "pop", "addsp"}, sp \in Int
    PROVE  sp + Change(ins) = sp
  BY DEF Change

LEMMA MoveOnStack ==
    ASSUME sp \in Int, NEW ins, Allowed(ins, sp), DoMove(ins)
    PROVE  OnStack(ins)
  <1>1. sp' = sp + Change(ins)
    BY NotOfStack DEF DoMove
  <1>2. CASE mem' = mem
    BY <1>1, <1>2 DEF OnStack
  <1>3. CASE ins.i = "save" /\ mem' = [mem EXCEPT ![sp + ins.k] = reg[ins.s]]
    <2>1. sp + ins.k \in Int /\ sp + ins.k < 0
      BY <1>3 DEF Allowed
    <2> QED
      BY <1>1, <1>3, <2>1 DEF OnStack
  <1> QED
    BY <1>2, <1>3 DEF DoMove

LEMMA StackOnStack ==
    ASSUME sp \in Int, sp <= 0, NEW ins, DoStack(ins)
    PROVE  OnStack(ins)
  <1>1. CASE ins.i = "push" /\ sp' = sp - 1 /\ mem' = [mem EXCEPT ![sp - 1] = reg[ins.s]]
    <2>1. sp - 1 \in Int /\ sp - 1 < 0 /\ sp' = sp + Change(ins)
      BY <1>1 DEF Change
    <2> QED
      BY <1>1, <2>1 DEF OnStack
  <1>2. CASE ins.i = "pop" /\ sp' = sp + 1 /\ mem' = mem
    BY <1>2 DEF OnStack, Change
  <1>3. CASE ins.i = "addsp" /\ sp' = sp + ins.k /\ mem' = mem
    BY <1>3 DEF OnStack, Change
  <1> QED
    BY <1>1, <1>2, <1>3 DEF DoStack

LEMMA OthersOnStack ==
    ASSUME sp \in Int, NEW ins,
           \/ DoAlu(ins) \/ DoUnary(ins) \/ DoShift(ins) \/ DoMul(ins) \/ DoDiv(ins)
           \/ DoCdq(ins) \/ DoCondition(ins) \/ DoStore(ins)
    PROVE  OnStack(ins)
  <1>1. CASE DoAlu(ins)
    BY <1>1, NotOfStack DEF DoAlu, Quiet, OnStack
  <1>2. CASE DoUnary(ins)
    BY <1>2, NotOfStack DEF DoUnary, Quiet, OnStack
  <1>3. CASE DoShift(ins)
    BY <1>3, NotOfStack DEF DoShift, Quiet, OnStack
  <1>4. CASE DoMul(ins)
    BY <1>4, NotOfStack DEF DoMul, Quiet, OnStack
  <1>5. CASE DoDiv(ins)
    BY <1>5, NotOfStack DEF DoDiv, OnStack
  <1>6. CASE DoCdq(ins)
    BY <1>6, NotOfStack DEF DoCdq, Quiet, OnStack
  <1>7. CASE DoCondition(ins)
    BY <1>7, NotOfStack DEF DoCondition, OnStack
  <1>8. CASE DoStore(ins)
    BY <1>8, NotOfStack DEF DoStore, OnStack
  <1> QED
    BY <1>1, <1>2, <1>3, <1>4, <1>5, <1>6, <1>7, <1>8

LEMMA InstructionKeeps ==
    ASSUME EmitInv, code # <<>>, OnStack(Head(code)), code' = Tail(code), UNCHANGED rewriteVars
    PROVE  EmitInv'
  <1>1. StackInv'
    BY RunOne DEF EmitInv
  <1>2. ListInv'
    BY DEF EmitInv, ListInv, ShiftsLive, rewriteVars
  <1> QED
    BY <1>1, <1>2 DEF EmitInv

-----------------------------------------------------------------------------
(* The invariant. *)

LEMMA EmitInvInit ==
    ASSUME Init
    PROVE  EmitInv
  <1>1. prog \in Programs /\ ops = prog.ops /\ pass = "imms" /\ pos = 1
    BY DEF Init, RewriteInit
  <1>2. prog.ops \in Seq(Op)
    BY <1>1, ProgramsAssumption
  <1>3. ops \in Seq(Emittable)
    <2>1. PICK list, n : list = ops /\ n = Len(list) /\ list \in Seq(Op)
      BY <1>1, <1>2
    <2>2. DOMAIN list = 1 .. n /\ n \in Nat /\ list \in [1 .. n -> Op]
      BY <2>1, LenProperties
    <2>3. \A i \in 1 .. n : list[i] \in Emittable
      BY <1>1, <2>1, <2>2 DEF Emittable, ShiftsApart
    <2>4. list \in [1 .. n -> Emittable]
      BY <2>2, <2>3
    <2>5. list \in Seq(Emittable)
      BY <2>2, <2>4, SeqDef
    <2> QED
      BY <2>1, <2>5
  <1>4. ListInv
    BY <1>1, <1>3 DEF ListInv
  <1>5. StackInv
    <2>1. mem = [w \in Slots |-> Foreign] /\ sp = 0 /\ code = <<>>
      BY DEF Init, MachineInit
    <2>2. Walks(<<>>, 0, 0)
      BY WalkNone
    <2> QED
      BY <2>1, <2>2 DEF StackInv
  <1> QED
    BY <1>4, <1>5 DEF EmitInv

LEMMA EmitKeeps ==
    ASSUME EmitInv, Emit
    PROVE  EmitInv'
  <1>1. ops \in Seq(Emittable) /\ pos \in 1 .. Len(ops) /\ pass = "emit" /\ code = <<>>
    BY DEF Emit, EmitInv, ListInv
  <1>2. ops[pos] \in Emittable
    BY <1>1, ElementOfSeq
  <1>3. ops[pos].code \in Shifts => Uses(ops[pos]) \subseteq live[pos].in
    BY <1>1 DEF EmitInv, ListInv, ShiftsLive
  <1>4. Walks(Gen(ops[pos], pos), 0, 0)
    BY <1>2, <1>3, EmittableFields, GenWalks DEF Emittable, Shifts
  <1>5. sp = 0
    <2>1. PICK d : Heights(<<>>, d, sp, 0)
      BY <1>1 DEF EmitInv, StackInv, Walks
    <2>2. Len(<<>>) = 0
      OBVIOUS
    <2> QED
      BY <2>1, <2>2 DEF Heights
  <1>6. StackInv'
    BY <1>4, <1>5 DEF EmitInv, StackInv, Emit, machineVars
  <1>7. ListInv'
    BY DEF EmitInv, ListInv, ShiftsLive, Emit
  <1> QED
    BY <1>6, <1>7 DEF EmitInv

LEMMA EmitInvNext ==
    ASSUME EmitInv, [Next]_vars
    PROVE  EmitInv'
  <1>0. sp \in Int /\ sp <= 0
    BY DEF EmitInv, StackInv
  <1>1. CASE UNCHANGED vars
    BY <1>1 DEF vars, rewriteVars, machineVars, EmitInv, ListInv, ShiftsLive, StackInv
  <1>2. CASE Rewrite /\ UNCHANGED <<machineVars, code>>
    <2>1. ListInv'
      BY <1>2, RewriteKeeps DEF EmitInv
    <2>2. StackInv'
      BY <1>2 DEF EmitInv, StackInv, machineVars
    <2> QED
      BY <2>1, <2>2 DEF EmitInv
  <1>3. CASE Emit
    BY <1>3, EmitKeeps
  <1>4. CASE Instruction(DoMove)
    <2>1. code # <<>> /\ Allowed(Head(code), sp)
      BY <1>4, WalkRest DEF Instruction, EmitInv, StackInv
    <2>2. OnStack(Head(code))
      BY <1>0, <1>4, <2>1, MoveOnStack DEF Instruction
    <2> QED
      BY <1>4, <2>1, <2>2, InstructionKeeps DEF Instruction
  <1>5. CASE Instruction(DoStack)
    <2>1. OnStack(Head(code))
      BY <1>0, <1>5, StackOnStack DEF Instruction
    <2> QED
      BY <1>5, <2>1, InstructionKeeps DEF Instruction
  <1>6. CASE \/ Instruction(DoAlu) \/ Instruction(DoUnary) \/ Instruction(DoShift)
             \/ Instruction(DoMul) \/ Instruction(DoDiv) \/ Instruction(DoCdq)
             \/ Instruction(DoCondition) \/ Instruction(DoStore)
    <2>1. code # <<>> /\ code' = Tail(code) /\ UNCHANGED rewriteVars
      BY <1>6 DEF Instruction
    <2>2. LET ins == Head(code) IN
          \/ DoAlu(ins) \/ DoUnary(ins) \/ DoShift(ins) \/ DoMul(ins) \/ DoDiv(ins)
          \/ DoCdq(ins) \/ DoCondition(ins) \/ DoStore(ins)
      BY <1>6 DEF Instruction
    <2>3. OnStack(Head(code))
      BY <1>0, <2>2, OthersOnStack
    <2> QED
      BY <2>1, <2>3, InstructionKeeps
  <1> QED
    BY <1>1, <1>2, <1>3, <1>4, <1>5, <1>6 DEF Next

-----------------------------------------------------------------------------
(* Between operations the stack pointer is where it was at the start, and  *)
(* no instruction has written to a word of the caller: emit_mul_op,        *)
(* emit_div_op and emit_shift_op pop what they push on every path.         *)
THEOREM CodeIsBalanced == Spec => []Balanced
  <1>1. EmitInv => Balanced
    <2> SUFFICES ASSUME EmitInv PROVE Balanced
      OBVIOUS
    <2>1. ASSUME code = <<>> PROVE sp = 0
      <3>1. PICK d : Heights(<<>>, d, sp, 0)
        BY <2>1 DEF EmitInv, StackInv, Walks
      <3>2. Len(<<>>) = 0
        OBVIOUS
      <3> QED
        BY <3>1, <3>2 DEF Heights
    <2> QED
      BY <2>1 DEF Balanced, EmitInv, StackInv
  <1> QED
    BY <1>1, EmitInvInit, EmitInvNext, PTL DEF Spec

(* Where no shift has its value and its count in CX, an instruction that   *)
(* reads the stack reads a word that its own operation put there: the      *)
(* divisor of emit_div_op, the value of emit_shift_op, the subtrahend of   *)
(* emit_subx_op, and every register that is popped.                        *)
THEOREM ReadsItsOwnWords == ShiftsApart /\ Spec => []OwnWords
  <1>1. ASSUME ShiftsApart PROVE EmitInv => OwnWords
    <2> SUFFICES ASSUME EmitInv, code # <<>>
                 PROVE  /\ Head(code).i \in {"pop", "divm"} => sp < 0
                        /\ Head(code).i \in {"load", "alum"} => sp + Head(code).k < 0
      BY DEF OwnWords
    <2>1. Allowed(Head(code), sp)
      BY WalkRest DEF EmitInv, StackInv
    <2> QED
      BY <1>1, <2>1 DEF Allowed
  <1>2. ASSUME ShiftsApart PROVE Spec => []OwnWords
    BY <1>1, <1>2, EmitInvInit, EmitInvNext, PTL DEF Spec
  <1> QED
    BY <1>2
=============================================================================
