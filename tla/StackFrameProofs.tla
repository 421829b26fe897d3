-------------------------- MODULE StackFrameProofs --------------------------
(***************************************************************************)
(* Proofs about the stack of generated functions (StackFrame), for every   *)
(* number of argument registers and every unit of functions.               *)
(*                                                                         *)
(* First, what the model's operators compute: stack_pos of an argument is  *)
(* the number of arguments on the stack before it (StackPosFacts), which   *)
(* is where emit_arguments, going from the last one to the first, pushes   *)
(* it (OnStackFacts); the blocks of jit_allocai are one behind the other   *)
(* (BlockEnds); the words of a frame belong to one cell each (PlacesApart).*)
(*                                                                         *)
(* Then the emitter, which goes down the list: EmitInv says what the code  *)
(* emitted so far is (Expected) and what push_count and prepared_args      *)
(* count when it comes to an operation, on the list.  Last the code that   *)
(* runs, along branches: RunInv says what is in the words of the stack     *)
(* when control is at an operation, however it came there.  The two agree  *)
(* because a call is one piece of the list nothing branches into.          *)
(***************************************************************************)
EXTENDS StackFrame, Iteration

LEMMA Evens ==
    ASSUME NEW n \in Nat
    PROVE  /\ n % 2 \in {0, 1}
           /\ Align(n) \in Nat /\ Align(n) % 2 = 0
           /\ Align(n) = n \/ Align(n) = n + 1
  BY DEF Align

-----------------------------------------------------------------------------
(* Counting arguments.                                                     *)

LEMMA CountUpTo ==
    ASSUME NEW n \in Nat, NEW P
    PROVE  /\ Cardinality((1 .. 0) \cap P) = 0
           /\ Cardinality((1 .. n) \cap P) \in 0 .. n
           /\ Cardinality((1 .. n + 1) \cap P) =
                Cardinality((1 .. n) \cap P) + (IF n + 1 \in P THEN 1 ELSE 0)
  <1> DEFINE S == (1 .. n) \cap P
             T == (1 .. n + 1) \cap P
  <1>1. IsFiniteSet(1 .. n) /\ Cardinality(1 .. n) = n
    <2>1. 1 \in Int /\ n \in Int /\ (1 > n => n = 0)
      OBVIOUS
    <2> QED
      BY <2>1, FS_Interval
  <1>2. S \in SUBSET (1 .. n)
    OBVIOUS
  <1>3. T = IF n + 1 \in P THEN S \cup {n + 1} ELSE S
    OBVIOUS
  <1>4. n + 1 \notin S
    OBVIOUS
  <1> HIDE DEF S, T
  <1>5. IsFiniteSet(S) /\ Cardinality(S) \in Nat /\ Cardinality(S) <= n
    BY <1>1, <1>2, FS_Subset, FS_CardinalityType
  <1>6. Cardinality(S \cup {n + 1}) = Cardinality(S) + 1
    BY <1>4, <1>5, FS_AddElement
  <1>7. Cardinality(T) = Cardinality(S) + (IF n + 1 \in P THEN 1 ELSE 0)
    BY <1>3, <1>5, <1>6
  <1>8. (1 .. 0) \cap P = {}
    OBVIOUS
  <1> QED
    BY <1>5, <1>7, <1>8, FS_EmptySet DEF S, T

(* A signature: what jit_init_arg_params and emit_arguments go by.         *)
Signature(f) == f.params \in Seq({"gp", "fp"})

OfClass(f, class) == {k \in DOMAIN f.params : f.params[k] = class}

(* The arguments that registers do not suffice for.                        *)
Stacked(f) == {k \in DOMAIN f.params : ~PassedByReg(f, k - 1)}

LEMMA BeforeFacts ==
    ASSUME NEW f, Signature(f), NEW n \in 0 .. Len(f.params), NEW class
    PROVE  /\ Before(f, n, class) \in Nat
           /\ Before(f, 0, class) = 0
           /\ n < Len(f.params) =>
                Before(f, n + 1, class) =
                  Before(f, n, class) + (IF f.params[n + 1] = class THEN 1 ELSE 0)
  <1>0. Len(f.params) \in Nat /\ DOMAIN f.params = 1 .. Len(f.params)
    BY DEF Signature
  <1>1. ASSUME NEW m \in 0 .. Len(f.params)
        PROVE  Before(f, m, class) = Cardinality((1 .. m) \cap OfClass(f, class))
    <2>1. {k \in 1 .. m : f.params[k] = class} = (1 .. m) \cap OfClass(f, class)
      BY <1>0 DEF OfClass
    <2> QED
      BY <2>1 DEF Before
  <1>2. n \in Nat /\ 0 \in 0 .. Len(f.params)
    BY <1>0
  <1>3. Before(f, n, class) \in Nat /\ Before(f, 0, class) = 0
    <2>1. /\ Cardinality((1 .. n) \cap OfClass(f, class)) \in 0 .. n
          /\ Cardinality((1 .. 0) \cap OfClass(f, class)) = 0
      BY <1>2, CountUpTo
    <2> QED
      BY <1>1, <1>2, <2>1
  <1>4. ASSUME n < Len(f.params)
        PROVE  Before(f, n + 1, class) =
                 Before(f, n, class) + (IF f.params[n + 1] = class THEN 1 ELSE 0)
    <2>1. n + 1 \in 0 .. Len(f.params) /\ n + 1 \in DOMAIN f.params
      BY <1>0, <1>4
    <2>2. n + 1 \in OfClass(f, class) <=> f.params[n + 1] = class
      BY <2>1 DEF OfClass
    <2>3. Cardinality((1 .. n + 1) \cap OfClass(f, class)) =
            Cardinality((1 .. n) \cap OfClass(f, class)) +
              (IF n + 1 \in OfClass(f, class) THEN 1 ELSE 0)
      BY <1>2, CountUpTo
    <2> QED
      BY <1>1, <2>1, <2>2, <2>3
  <1> QED
    BY <1>3, <1>4

LEMMA MaxStep ==
    ASSUME NEW a \in Nat, NEW r \in Nat
    PROVE  /\ Max2(0, (a + 1) - r) = Max2(0, a - r) + (IF a >= r THEN 1 ELSE 0)
           /\ Max2(0, a - r) \in Nat /\ Max2(0, a - r) = Max2(a - r, 0)
           /\ Max2(0, 0 - r) = 0
           /\ a >= r => Max2(0, a - r) = a - r
  BY DEF Max2

(* Of the first n arguments, those beyond the registers are on the stack.  *)
Beyond(f, n) ==
    Max2(0, Before(f, n, "gp") - GpArgRegCnt) + Max2(0, Before(f, n, "fp") - FpArgRegCnt)

LEMMA BeyondRegisters ==
    ASSUME NEW f, Signature(f)
    PROVE  \A n \in 0 .. Len(f.params) :
             Cardinality((1 .. n) \cap Stacked(f)) = Beyond(f, n)
  <1> DEFINE N == Len(f.params)
             S == {n \in 0 .. N : Cardinality((1 .. n) \cap Stacked(f)) = Beyond(f, n)}
  <1>0. N \in Nat /\ DOMAIN f.params = 1 .. N /\ GpArgRegCnt \in Nat /\ FpArgRegCnt \in Nat
        /\ \A k \in 1 .. N : f.params[k] \in {"gp", "fp"}
    BY CountAssumption DEF Signature
  <1>1. 0 \in S
    <2>1. Before(f, 0, "gp") = 0 /\ Before(f, 0, "fp") = 0
      BY <1>0, BeforeFacts
    <2>2. Cardinality((1 .. 0) \cap Stacked(f)) = 0
      BY CountUpTo
    <2> QED
      BY <1>0, <2>1, <2>2 DEF Beyond, Max2
  <1>2. ASSUME NEW n \in 0 .. N - 1, n \in S PROVE n + 1 \in S
    <2>1. n \in Nat /\ n \in 0 .. N /\ n < N /\ n + 1 \in 1 .. N /\ (n + 1) - 1 = n
      BY <1>0
    <2> DEFINE g == Before(f, n, "gp")
               p == Before(f, n, "fp")
    <2>2. /\ g \in Nat /\ p \in Nat
          /\ Before(f, n + 1, "gp") = g + (IF f.params[n + 1] = "gp" THEN 1 ELSE 0)
          /\ Before(f, n + 1, "fp") = p + (IF f.params[n + 1] = "fp" THEN 1 ELSE 0)
      BY <2>1, BeforeFacts
    <2>3. n + 1 \in Stacked(f) <=>
            IF f.params[n + 1] = "gp" THEN g >= GpArgRegCnt ELSE p >= FpArgRegCnt
      BY <1>0, <2>1, <2>2 DEF Stacked, PassedByReg, GpPos, FpPos
    <2>4. Cardinality((1 .. n + 1) \cap Stacked(f)) =
            Beyond(f, n) + (IF n + 1 \in Stacked(f) THEN 1 ELSE 0)
      BY <1>2, <2>1, CountUpTo
    <2> HIDE DEF g, p
    <2>5. /\ Beyond(f, n) = Max2(0, g - GpArgRegCnt) + Max2(0, p - FpArgRegCnt)
          /\ Beyond(f, n + 1) = Max2(0, Before(f, n + 1, "gp") - GpArgRegCnt)
                                 + Max2(0, Before(f, n + 1, "fp") - FpArgRegCnt)
      BY DEF Beyond, g, p
    <2>6. Beyond(f, n + 1) = Beyond(f, n) + (IF n + 1 \in Stacked(f) THEN 1 ELSE 0)
      <3>1. CASE f.params[n + 1] = "gp"
        <4>1. Max2(0, (g + 1) - GpArgRegCnt) =
                Max2(0, g - GpArgRegCnt) + (IF g >= GpArgRegCnt THEN 1 ELSE 0)
          BY <1>0, <2>2, MaxStep
        <4>2. Before(f, n + 1, "gp") = g + 1 /\ Before(f, n + 1, "fp") = p
          BY <2>2, <3>1
        <4>3. Max2(0, g - GpArgRegCnt) \in Nat /\ Max2(0, p - FpArgRegCnt) \in Nat
          BY <1>0, <2>2, MaxStep
        <4> QED
          BY <2>3, <2>5, <3>1, <4>1, <4>2, <4>3
      <3>2. CASE f.params[n + 1] = "fp"
        <4>1. Max2(0, (p + 1) - FpArgRegCnt) =
                Max2(0, p - FpArgRegCnt) + (IF p >= FpArgRegCnt THEN 1 ELSE 0)
          BY <1>0, <2>2, MaxStep
        <4>2. Before(f, n + 1, "fp") = p + 1 /\ Before(f, n + 1, "gp") = g
          BY <2>2, <3>2
        <4>3. Max2(0, g - GpArgRegCnt) \in Nat /\ Max2(0, p - FpArgRegCnt) \in Nat
          BY <1>0, <2>2, MaxStep
        <4> QED
          BY <2>3, <2>5, <3>2, <4>1, <4>2, <4>3
      <3> QED
        BY <1>0, <2>1, <3>1, <3>2
    <2> QED
      BY <2>1, <2>4, <2>6
  <1>3. 0 .. N \subseteq S
    <2> HIDE DEF S
    <2> QED
      BY <1>0, <1>1, <1>2, InductionTo
  <1> QED
    BY <1>3

(* stack_pos counts the arguments on the stack before one that is there.   *)
LEMMA StackPosFacts ==
    ASSUME NEW f, Signature(f), NEW i \in Params(f)
    PROVE  /\ StackPos(f, i) \in Int
           /\ ~PassedByReg(f, i) =>
                StackPos(f, i) = Cardinality((1 .. i) \cap Stacked(f)) /\ i + 1 \in Stacked(f)
  <1>0. /\ i \in 0 .. Len(f.params) /\ i + 1 \in DOMAIN f.params /\ (i + 1) - 1 = i
        /\ GpArgRegCnt \in Nat /\ FpArgRegCnt \in Nat
    BY CountAssumption DEF Signature, Params
  <1>1. Before(f, i, "gp") \in Nat /\ Before(f, i, "fp") \in Nat
    BY <1>0, BeforeFacts
  <1>2. Cardinality((1 .. i) \cap Stacked(f)) = Beyond(f, i)
    BY <1>0, BeyondRegisters
  <1> QED
    BY <1>0, <1>1, <1>2 DEF StackPos, PassedByReg, GpPos, FpPos, Beyond, Max2, Stacked

-----------------------------------------------------------------------------
(* From the last argument to the first.                                    *)

NextBelow(S, x) == CHOOSE k \in S : k < x /\ \A j \in S : j < x => k >= j

BelowCount(S, x) == Cardinality((1 .. x - 1) \cap S)

LEMMA NextBelowFacts ==
    ASSUME NEW N \in Nat, NEW S, S \subseteq 1 .. N, NEW x \in 1 .. N + 1, BelowCount(S, x) # 0
    PROVE  /\ NextBelow(S, x) \in S
           /\ BelowCount(S, NextBelow(S, x)) = BelowCount(S, x) - 1
  <1> DEFINE T == {N - k : k \in (1 .. x - 1) \cap S}
             y == NextBelow(S, x)
  <1>1. (1 .. x - 1) \cap S # {}
    BY FS_EmptySet DEF BelowCount
  <1>2. T \subseteq Nat /\ T # {}
    BY <1>1
  <1>3. PICK t \in T : \A k \in T : t <= k
    <2> HIDE DEF T
    <2> QED
      BY <1>2, LeastElement
  <1>4. PICK m \in (1 .. x - 1) \cap S : t = N - m
    OBVIOUS
  <1>5. ASSUME NEW j \in S, j < x PROVE m >= j
    <2>1. j \in (1 .. x - 1) \cap S
      BY <1>5
    <2>2. N - j \in T
      BY <2>1
    <2> QED
      BY <1>3, <1>4, <2>1, <2>2
  <1>6. \E k \in S : k < x /\ \A j \in S : j < x => k >= j
    BY <1>4, <1>5
  <1>7. y \in S /\ y < x /\ \A j \in S : j < x => y >= j
    BY <1>6 DEF NextBelow
  <1> HIDE DEF y
  <1>8. (1 .. x - 1) \cap S = (1 .. (y - 1) + 1) \cap S /\ y - 1 \in Nat /\ (y - 1) + 1 = y
    BY <1>7
  <1>9. /\ Cardinality((1 .. (y - 1) + 1) \cap S) = Cardinality((1 .. y - 1) \cap S) + 1
        /\ Cardinality((1 .. y - 1) \cap S) \in 0 .. y - 1
    <2>1. /\ Cardinality((1 .. (y - 1) + 1) \cap S) =
               Cardinality((1 .. y - 1) \cap S) + (IF (y - 1) + 1 \in S THEN 1 ELSE 0)
          /\ Cardinality((1 .. y - 1) \cap S) \in 0 .. y - 1
      BY <1>8, CountUpTo
    <2> QED
      BY <1>7, <1>8, <2>1
  <1>10. BelowCount(S, y) = BelowCount(S, x) - 1
    BY <1>8, <1>9 DEF BelowCount
  <1> QED
    BY <1>7, <1>10 DEF y

(* w goes down through S.                                                  *)
Descends(w, S, N) ==
    /\ w[0] = N + 1
    /\ \A n \in 1 .. Cardinality(S) :
         w[n - 1] \in 1 .. N + 1 /\ BelowCount(S, w[n - 1]) # 0 => w[n] = NextBelow(S, w[n - 1])

LEMMA DescentCounts ==
    ASSUME NEW N \in Nat, NEW S, S \subseteq 1 .. N, NEW w, Descends(w, S, N)
    PROVE  /\ Cardinality(S) \in 0 .. N
           /\ \A n \in 0 .. Cardinality(S) :
                /\ w[n] \in 1 .. N + 1
                /\ BelowCount(S, w[n]) = Cardinality(S) - n
                /\ n # 0 => w[n] \in S
  <1> DEFINE C == Cardinality(S)
             Good(n) == /\ w[n] \in 1 .. N + 1
                        /\ BelowCount(S, w[n]) = C - n
                        /\ n # 0 => w[n] \in S
             D == {n \in 0 .. C : Good(n)}
  <1>1. (1 .. N) \cap S = S /\ (N + 1) - 1 = N
    <2>1. \A x \in S : x \in 1 .. N
      OBVIOUS
    <2>2. (1 .. N) \cap S = S
      BY <2>1, Zenon
    <2> QED
      BY <2>2
  <1>2. C \in 0 .. N
    BY <1>1, CountUpTo
  <1> HIDE DEF C
  <1>3. 0 \in D
    <2>1. BelowCount(S, N + 1) = C
      BY <1>1 DEF BelowCount, C
    <2> QED
      BY <1>2, <2>1 DEF Descends
  <1>4. ASSUME NEW n \in 0 .. C - 1, n \in D PROVE n + 1 \in D
    <2>1. BelowCount(S, w[n]) # 0 /\ w[n] \in 1 .. N + 1 /\ BelowCount(S, w[n]) = C - n
      BY <1>2, <1>4
    <2>2. n + 1 \in 1 .. C /\ (n + 1) - 1 = n
      BY <1>2
    <2>3. w[n + 1] = NextBelow(S, w[n])
      BY <2>1, <2>2 DEF Descends, C
    <2>4. w[n + 1] \in S /\ BelowCount(S, w[n + 1]) = (C - n) - 1
      BY <2>1, <2>3, NextBelowFacts
    <2>5. (C - n) - 1 = C - (n + 1) /\ n + 1 \in 0 .. C /\ n + 1 # 0
      BY <1>2, <2>2
    <2>6. \A x \in S : x \in 1 .. N + 1
      OBVIOUS
    <2>7. Good(n + 1)
      BY <2>4, <2>5, <2>6
    <2> QED
      BY <2>5, <2>7
  <1>5. 0 .. C \subseteq D
    <2> HIDE DEF D
    <2> QED
      BY <1>2, <1>3, <1>4, InductionTo
  <1> QED
    BY <1>2, <1>5 DEF C

(* Each element comes after as many as are above it.                       *)
ComesInTurn(w, S, k) ==
    \E n \in 1 .. Cardinality(S) : n = Cardinality(S) - BelowCount(S, k) /\ w[n] = k

LEMMA DescentFinds ==
    ASSUME NEW N \in Nat, NEW S, S \subseteq 1 .. N, NEW w, Descends(w, S, N), NEW k \in S
    PROVE  ComesInTurn(w, S, k)
  <1> DEFINE C == Cardinality(S)
  <1>1. C \in 0 .. N /\ \A n \in 0 .. C : n # 0 => w[n] \in S /\ BelowCount(S, w[n]) = C - n
    BY DescentCounts
  <1>2. ASSUME NEW x \in S
        PROVE  /\ BelowCount(S, x) \in Nat
               /\ Cardinality((1 .. x) \cap S) = BelowCount(S, x) + 1
    <2>1. x - 1 \in Nat /\ (x - 1) + 1 = x
      OBVIOUS
    <2>2. /\ Cardinality((1 .. (x - 1) + 1) \cap S) =
               Cardinality((1 .. x - 1) \cap S) + (IF (x - 1) + 1 \in S THEN 1 ELSE 0)
          /\ Cardinality((1 .. x - 1) \cap S) \in 0 .. x - 1
      BY <2>1, CountUpTo
    <2> QED
      BY <2>1, <2>2 DEF BelowCount
  <1>3. IsFiniteSet(S)
    <2>1. IsFiniteSet(1 .. N)
      BY FS_Interval
    <2> QED
      BY <2>1, FS_Subset
  <1>4. ASSUME NEW x \in S, NEW y \in S, x < y PROVE BelowCount(S, x) < BelowCount(S, y)
    <2>1. (1 .. x) \cap S \subseteq (1 .. y - 1) \cap S /\ (1 .. y - 1) \cap S \subseteq S
      BY <1>4
    <2>2. IsFiniteSet((1 .. y - 1) \cap S)
      BY <1>3, <2>1, FS_Subset
    <2>3. Cardinality((1 .. x) \cap S) <= Cardinality((1 .. y - 1) \cap S)
      BY <2>1, <2>2, FS_Subset
    <2> DEFINE a == BelowCount(S, x)
               b == BelowCount(S, y)
    <2>4. a \in Nat /\ b \in Nat /\ a + 1 <= b
      BY <1>2, <2>3 DEF BelowCount
    <2> HIDE DEF a, b
    <2>5. a < b
      BY <2>4
    <2> QED
      BY <2>5 DEF a, b
  <1>5. BelowCount(S, k) + 1 <= C
    <2>1. (1 .. k) \cap S \subseteq S
      OBVIOUS
    <2>2. Cardinality((1 .. k) \cap S) <= C
      BY <1>3, <2>1, FS_Subset
    <2> QED
      BY <1>2, <2>2
  <1> HIDE DEF C
  <1>6. C - BelowCount(S, k) \in 1 .. C
    <2> DEFINE a == BelowCount(S, k)
    <2>1. a \in Nat /\ a + 1 <= C /\ C \in Nat
      <3>1. a \in Nat
        BY <1>2
      <3>2. C \in Nat
        BY <1>1
      <3> QED
        BY <1>5, <3>1, <3>2
    <2> HIDE DEF a
    <2>2. C - a \in 1 .. C
      BY <2>1
    <2> QED
      BY <2>2 DEF a
  <1> DEFINE n == C - BelowCount(S, k)
  <1>7. w[n] \in S /\ BelowCount(S, w[n]) = BelowCount(S, k)
    <2>1. n \in 0 .. C /\ n # 0 /\ C - n = BelowCount(S, k)
      <3> DEFINE a == BelowCount(S, k)
      <3>1. a \in Nat /\ C - a \in 1 .. C /\ C \in Nat
        <4>1. a \in Nat
          BY <1>2
        <4>2. C \in Nat
          BY <1>1
        <4> QED
          BY <1>6, <4>1, <4>2
      <3> HIDE DEF a
      <3>2. C - a \in 0 .. C /\ C - a # 0 /\ C - (C - a) = a
        BY <3>1
      <3> QED
        BY <3>2 DEF a
    <2> HIDE DEF n
    <2> QED
      BY <1>1, <2>1
  <1>8. w[n] = k
    <2>1. ~(w[n] < k) /\ ~(k < w[n])
      <3> HIDE DEF n
      <3> DEFINE a == BelowCount(S, k)
      <3>1. a \in Nat /\ BelowCount(S, w[n]) = a
        BY <1>2, <1>7
      <3>2. ~(a < a)
        BY <3>1
      <3>3. w[n] < k => a < a
        BY <1>4, <1>7, <3>1
      <3>4. k < w[n] => a < a
        BY <1>4, <1>7, <3>1
      <3> QED
        BY <3>2, <3>3, <3>4
    <2> HIDE DEF n
    <2>2. w[n] \in Int /\ k \in Int
      <3>1. \A x \in S : x \in Int
        OBVIOUS
      <3> QED
        BY <1>7, <3>1
    <2> QED
      BY <2>1, <2>2
  <1> QED
    BY <1>6, <1>8 DEF C, ComesInTurn

LEMMA DescentExists ==
    ASSUME NEW N \in Nat, NEW S, S \subseteq 1 .. N
    PROVE  \E w : w = [n \in 0 .. Cardinality(S) |->
                         IF n = 0 THEN N + 1 ELSE NextBelow(S, w[n - 1])]
  <1> DEFINE C == Cardinality(S)
             T == 0 .. N + 1
             step == [x \in T |-> IF x # 0 /\ BelowCount(S, x) # 0 THEN NextBelow(S, x) ELSE 0]
  <1>1. C \in Nat
    <2>1. (1 .. N) \cap S = S
      OBVIOUS
    <2> QED
      BY <2>1, CountUpTo
  <1>2. step \in [T -> T]
    <2>1. ASSUME NEW x \in T, x # 0, BelowCount(S, x) # 0 PROVE NextBelow(S, x) \in T
      <3>1. x \in 1 .. N + 1
        BY <2>1
      <3>2. NextBelow(S, x) \in S
        <4> HIDE DEF T, step
        <4> QED
          BY <2>1, <3>1, NextBelowFacts
      <3>3. \A y \in S : y \in T
        OBVIOUS
      <3> QED
        BY <3>2, <3>3
    <2> QED
      BY <2>1
  <1>3. PICK w : Iterates(w, C, T, N + 1, step)
    <2>1. N + 1 \in T
      OBVIOUS
    <2> HIDE DEF T, step, C
    <2> QED
      BY <1>1, <1>2, <2>1, IterationExists
  <1> HIDE DEF C
  <1>4. \A n \in 1 .. C : n - 1 \in 0 .. C /\ w[n - 1] \in T /\ w[n] = step[w[n - 1]]
    <2> HIDE DEF T, step
    <2>1. \A n \in 1 .. C : n - 1 \in 0 .. C
      BY <1>1
    <2> QED
      BY <1>3, <2>1 DEF Iterates
  <1>5. Descends(w, S, N)
    <2>1. ASSUME NEW n \in 1 .. C, w[n - 1] \in 1 .. N + 1, BelowCount(S, w[n - 1]) # 0
          PROVE  w[n] = NextBelow(S, w[n - 1])
      <3>1. w[n - 1] \in T /\ w[n] = step[w[n - 1]]
        <4> HIDE DEF T, step
        <4> QED
          BY <1>4
      <3>2. w[n - 1] # 0
        BY <2>1
      <3>3. \A x \in T : x # 0 /\ BelowCount(S, x) # 0 => step[x] = NextBelow(S, x)
        BY DEF step
      <3> HIDE DEF T, step
      <3> QED
        BY <2>1, <3>1, <3>2, <3>3
    <2>2. w[0] = N + 1
      BY <1>3 DEF Iterates
    <2> QED
      BY <2>1, <2>2 DEF Descends, C
  <1>6. ASSUME NEW n \in 1 .. C PROVE w[n] = NextBelow(S, w[n - 1])
    <2>1. n - 1 \in 0 .. C /\ C - (n - 1) # 0
      BY <1>1
    <2>2. w[n - 1] \in 1 .. N + 1 /\ BelowCount(S, w[n - 1]) = C - (n - 1)
      BY <1>5, <2>1, DescentCounts DEF C
    <2> QED
      BY <1>5, <2>1, <2>2 DEF Descends, C
  <1>7. ASSUME NEW n \in 0 .. C PROVE w[n] = IF n = 0 THEN N + 1 ELSE NextBelow(S, w[n - 1])
    <2>1. n # 0 => n \in 1 .. C
      BY <1>1
    <2>2. w[0] = N + 1
      BY <1>3 DEF Iterates
    <2> QED
      BY <1>6, <2>1, <2>2
  <1>8. w = [n \in 0 .. C |-> IF n = 0 THEN N + 1 ELSE NextBelow(S, w[n - 1])]
    <2>1. w = [n \in 0 .. C |-> w[n]]
      BY <1>3 DEF Iterates
    <2> QED
      BY <1>7, <2>1, Zenon
  <1> QED
    BY <1>8 DEF C

(* What emit_arguments pushes: as many words as there are arguments beyond *)
(* the registers, each with as many below it as stack_pos says.            *)
Callee(kinds) == [params |-> kinds]

LEMMA OnStackFacts ==
    ASSUME NEW kinds \in Seq({"gp", "fp"})
    PROVE  /\ Beyond(Callee(kinds), Len(kinds)) \in Nat
           /\ OnStack(kinds) \in Seq({<<"out", i>> : i \in Int})
           /\ Len(OnStack(kinds)) = Beyond(Callee(kinds), Len(kinds))
           /\ \A i \in Params(Callee(kinds)) : ~PassedByReg(Callee(kinds), i) =>
                LET m == Len(OnStack(kinds)) - StackPos(Callee(kinds), i)
                IN m \in 1 .. Len(OnStack(kinds)) /\ OnStack(kinds)[m] = <<"out", i>>
  <1> DEFINE f == Callee(kinds)
             N == Len(kinds)
             S == Stacked(f)
             C == Cardinality(S)
             Defined(w) == w = [n \in 0 .. C |->
                                  IF n = 0 THEN N + 1
                                  ELSE CHOOSE k \in S :
                                         /\ k < w[n - 1]
                                         /\ \A j \in S : j < w[n - 1] => k >= j]
             Nth == CHOOSE w : Defined(w)
  <1>1. Signature(f) /\ f.params = kinds /\ N \in Nat /\ DOMAIN kinds = 1 .. N
    BY DEF Signature, Callee
  <1>2. S = {k \in DOMAIN kinds : ~PassedByReg([params |-> kinds], k - 1)}
    BY <1>1 DEF Stacked, Callee
  <1>3. S \subseteq 1 .. N
    BY <1>1, <1>2
  <1>4. OnStack(kinds) = [n \in 1 .. C |-> <<"out", Nth[n] - 1>>]
    BY <1>2 DEF OnStack
  <1>5. \E w : Defined(w)
    <2>1. PICK w : w = [n \in 0 .. C |-> IF n = 0 THEN N + 1 ELSE NextBelow(S, w[n - 1])]
      <3> HIDE DEF S, N
      <3> QED
        BY <1>1, <1>3, DescentExists
    <2>2. Defined(w)
      BY <2>1, Zenon DEF NextBelow
    <2> HIDE DEF Defined
    <2> QED
      BY <2>2
  <1>6. Defined(Nth)
    <2> HIDE DEF Defined
    <2> QED
      BY <1>5
  <1> HIDE DEF Nth
  <1>7. C \in 0 .. N /\ C = Beyond(f, N)
    <2>1. (1 .. N) \cap S = S
      <3>1. \A x \in S : x \in 1 .. N
        BY <1>3
      <3> QED
        BY <3>1, Zenon
    <2>2. Cardinality((1 .. N) \cap S) \in 0 .. N
      BY <1>1, CountUpTo
    <2>3. N \in 0 .. Len(f.params)
      BY <1>1
    <2>4. Cardinality((1 .. N) \cap S) = Beyond(f, N)
      <3> HIDE DEF f, N
      <3> QED
        BY <1>1, <2>3, BeyondRegisters
    <2> QED
      BY <2>1, <2>2, <2>4
  <1>8. Descends(Nth, S, N)
    <2>1. Nth = [n \in 0 .. C |-> IF n = 0 THEN N + 1 ELSE NextBelow(S, Nth[n - 1])]
      BY <1>6, Zenon DEF NextBelow
    <2> HIDE DEF S, N, C, Defined
    <2>2. Nth[0] = N + 1 /\ \A n \in 1 .. C : Nth[n] = NextBelow(S, Nth[n - 1])
      BY <1>7, <2>1
    <2> QED
      BY <2>2 DEF Descends, C
  <1> HIDE DEF Defined, S, N, f
  <1>9. \A n \in 1 .. C : Nth[n] \in Int
    <2>1. \A n \in 0 .. C : Nth[n] \in 1 .. N + 1
      BY <1>1, <1>3, <1>8, DescentCounts
    <2> HIDE DEF C
    <2> QED
      BY <1>7, <2>1
  <1>10. /\ OnStack(kinds) \in Seq({<<"out", i>> : i \in Int})
         /\ Len(OnStack(kinds)) = C
    <2>1. \A n \in 1 .. C : <<"out", Nth[n] - 1>> \in {<<"out", i>> : i \in Int}
      <3>1. ASSUME NEW n \in 1 .. C PROVE Nth[n] - 1 \in Int
        BY <1>9
      <3> QED
        BY <3>1
    <2> HIDE DEF C
    <2> QED
      BY <1>4, <1>7, <2>1
  <1>11. ASSUME NEW i \in Params(f), ~PassedByReg(f, i)
         PROVE  LET m == C - StackPos(f, i)
                IN m \in 1 .. C /\ OnStack(kinds)[m] = <<"out", i>>
    <2>1. StackPos(f, i) = BelowCount(S, i + 1) /\ i + 1 \in S /\ i \in Int
      <3>1. (i + 1) - 1 = i /\ i \in Int
        BY <1>1 DEF Params
      <3>2. StackPos(f, i) = Cardinality((1 .. i) \cap S) /\ i + 1 \in S
        BY <1>1, <1>11, StackPosFacts DEF S
      <3> QED
        BY <3>1, <3>2 DEF BelowCount
    <2>2. PICK n \in 1 .. C : n = C - BelowCount(S, i + 1) /\ Nth[n] = i + 1
      <3>1. \A k \in S : ComesInTurn(Nth, S, k)
        BY <1>1, <1>3, <1>8, DescentFinds
      <3> QED
        BY <2>1, <3>1 DEF ComesInTurn
    <2> DEFINE m == C - StackPos(f, i)
    <2>3. m \in 1 .. C /\ Nth[m] = i + 1
      BY <2>1, <2>2
    <2> HIDE DEF m, C
    <2>4. (i + 1) - 1 = i
      BY <2>1
    <2>5. OnStack(kinds)[m] = <<"out", i>>
      BY <1>4, <2>3, <2>4
    <2> QED
      BY <2>3, <2>5 DEF m
  <1> HIDE DEF C
  <1> QED
    BY <1>7, <1>10, <1>11 DEF N, f

(* Blocks of memory lie one after the other.                               *)
LEMMA BlockSizes ==
    ASSUME NEW bytes \in Nat
    PROVE  BlockSize(bytes) \in Nat
  BY DEF BlockSize

LEMMA BlockEnds ==
    ASSUME NEW f, f.allocas \in Seq(Nat)
    PROVE  /\ AllocaEnd(f) \in [0 .. Len(f.allocas) -> Nat]
           /\ AllocaEnd(f)[0] = 0
           /\ \A k \in 1 .. Len(f.allocas) :
                AllocaEnd(f)[k] = AllocaEnd(f)[k - 1] + BlockSize(f.allocas[k])
  <1> DEFINE N == Len(f.allocas)
             step == [k \in 1 .. N |-> [x \in Nat |-> x + BlockSize(f.allocas[k])]]
             Defined(w) == w = [k \in 0 .. N |->
                                  IF k = 0 THEN 0 ELSE w[k - 1] + BlockSize(f.allocas[k])]
             End == CHOOSE w : Defined(w)
  <1>1. N \in Nat /\ \A k \in 1 .. N : f.allocas[k] \in Nat
    OBVIOUS
  <1>2. step \in [1 .. N -> [Nat -> Nat]]
    <2>1. ASSUME NEW k \in 1 .. N, NEW x \in Nat PROVE x + BlockSize(f.allocas[k]) \in Nat
      <3>1. BlockSize(f.allocas[k]) \in Nat
        BY <1>1, BlockSizes
      <3> QED
        BY <3>1
    <2> HIDE DEF N
    <2> QED
      BY <2>1
  <1>3. PICK w \in [0 .. N -> Nat] : IsIndexedWalk(w, N, 0, step)
    <2> HIDE DEF step, N
    <2> QED
      BY <1>1, <1>2, IndexedWalkExists
  <1>4. Defined(w)
    <2>1. ASSUME NEW k \in 0 .. N
          PROVE  (IF k = 0 THEN 0 ELSE step[k][w[k - 1]]) =
                 (IF k = 0 THEN 0 ELSE w[k - 1] + BlockSize(f.allocas[k]))
      <3>1. CASE k # 0
        <4>1. k \in 1 .. N /\ k - 1 \in 0 .. N
          BY <1>1, <3>1
        <4>2. w[k - 1] \in Nat
          BY <4>1
        <4> QED
          BY <3>1, <4>1, <4>2
      <3> QED
        BY <3>1
    <2> QED
      BY <1>3, <2>1, Zenon DEF IsIndexedWalk
  <1>5. Defined(End)
    <2>1. \E v : Defined(v)
      <3> HIDE DEF Defined
      <3> QED
        BY <1>4
    <2> HIDE DEF Defined
    <2> QED
      BY <2>1
  <1>6. AllocaEnd(f) = End
    BY DEF AllocaEnd
  <1> HIDE DEF End
  <1>7. End[0] = 0 /\ \A k \in 1 .. N : End[k] = End[k - 1] + BlockSize(f.allocas[k])
    <2>1. \A k \in 0 .. N : End[k] = IF k = 0 THEN 0 ELSE End[k - 1] + BlockSize(f.allocas[k])
      BY <1>1, <1>5
    <2>2. 0 \in 0 .. N /\ \A k \in 1 .. N : k \in 0 .. N /\ k # 0
      BY <1>1
    <2> HIDE DEF N, Defined
    <2> QED
      BY <2>1, <2>2
  <1> DEFINE P == {k \in 0 .. N : End[k] \in Nat}
  <1>8. 0 .. N \subseteq P
    <2>1. 0 \in P
      BY <1>1, <1>7
    <2>2. ASSUME NEW k \in 0 .. N - 1, k \in P PROVE k + 1 \in P
      <3>1. k + 1 \in 1 .. N /\ (k + 1) - 1 = k
        BY <1>1
      <3>2. BlockSize(f.allocas[k + 1]) \in Nat
        BY <1>1, <3>1, BlockSizes
      <3>3. End[k + 1] = End[k] + BlockSize(f.allocas[k + 1])
        BY <1>7, <3>1
      <3> QED
        BY <2>2, <3>1, <3>2, <3>3
    <2> HIDE DEF P
    <2> QED
      BY <1>1, <2>1, <2>2, InductionTo
  <1>9. End = [k \in 0 .. N |-> End[k]]
    <2>1. DOMAIN End = 0 .. N /\ End = [k \in DOMAIN End |-> End[k]]
      BY <1>5
    <2> QED
      BY <2>1
  <1>10. End \in [0 .. N -> Nat]
    BY <1>8, <1>9
  <1> QED
    BY <1>6, <1>7, <1>10

LEMMA BlocksGrow ==
    ASSUME NEW f, f.allocas \in Seq(Nat)
    PROVE  \A j, k \in 0 .. Len(f.allocas) : j <= k => AllocaEnd(f)[j] <= AllocaEnd(f)[k]
  <1> DEFINE N == Len(f.allocas)
             End == AllocaEnd(f)
  <1>1. /\ N \in Nat
        /\ \A k \in 0 .. N : End[k] \in Nat
        /\ \A k \in 0 .. N - 1 : End[k] <= End[k + 1]
    <2>1. End \in [0 .. N -> Nat]
          /\ \A k \in 1 .. N : End[k] = End[k - 1] + BlockSize(f.allocas[k])
      BY BlockEnds
    <2>2. ASSUME NEW k \in 0 .. N - 1 PROVE End[k] <= End[k + 1]
      <3>1. k + 1 \in 1 .. N /\ (k + 1) - 1 = k /\ k \in 0 .. N
        OBVIOUS
      <3>2. BlockSize(f.allocas[k + 1]) \in Nat
        <4>1. f.allocas[k + 1] \in Nat
          BY <3>1
        <4> QED
          BY <4>1, BlockSizes
      <3>3. End[k + 1] = End[k] + BlockSize(f.allocas[k + 1]) /\ End[k] \in Nat
        BY <2>1, <3>1
      <3> HIDE DEF End
      <3> QED
        BY <3>2, <3>3
    <2> QED
      BY <2>1, <2>2
  <1> HIDE DEF End, N
  <1>2. SUFFICES ASSUME NEW j \in 0 .. N PROVE \A k \in 0 .. N : j <= k => End[j] <= End[k]
    BY DEF End, N
  <1> DEFINE P == {k \in 0 .. N : j <= k => End[j] <= End[k]}
  <1>3. 0 \in P
    BY <1>1
  <1>4. ASSUME NEW k \in 0 .. N - 1, k \in P PROVE k + 1 \in P
    <2>1. End[k] <= End[k + 1] /\ End[j] \in Nat /\ End[k] \in Nat /\ End[k + 1] \in Nat
          /\ k + 1 \in 0 .. N
      BY <1>1
    <2>2. CASE j = k + 1
      BY <2>1, <2>2
    <2>3. CASE j # k + 1
      BY <1>4, <2>1, <2>3
    <2> QED
      BY <2>2, <2>3
  <1>5. 0 .. N \subseteq P
    <2> HIDE DEF P
    <2> QED
      BY <1>1, <1>3, <1>4, InductionTo
  <1> QED
    BY <1>5

-----------------------------------------------------------------------------
(* Calls: PREPARE, the PUTARGs and CALL stand next to each other.          *)

Passes == {"PUTARG", "FPUTARG"}
Inside == {"PUTARG", "FPUTARG", "CALL"}

IsFunction(f) == f \in Function /\ WellFormedFunction(f)

LEMMA FunctionFacts ==
    ASSUME NEW f, IsFunction(f)
    PROVE  /\ f.gp \in Nat /\ f.fp \in Nat /\ f.saved \in Nat
           /\ f.allocas \in Seq(Nat)
           /\ Signature(f)
           /\ f.body \in Seq(Op) /\ Len(f.body) \in Nat \ {0}
           /\ DOMAIN f.body = 1 .. Len(f.body)
           /\ \A o \in DOMAIN f.body : /\ f.body[o] \in Op
                                       /\ f.body[o].kind \in Kinds
                                       /\ f.body[o].live \in Nat
                                       /\ f.body[o].x \in Cell
  <1>1. f \in Function /\ Len(f.body) > 0
    BY DEF IsFunction, WellFormedFunction
  <1>2. f.body \in Seq(Op)
    BY <1>1 DEF Function
  <1>3. Len(f.body) \in Nat \ {0} /\ DOMAIN f.body = 1 .. Len(f.body)
    BY <1>1, <1>2
  <1>4. \A o \in DOMAIN f.body : f.body[o] \in Op
    BY <1>2, <1>3
  <1>5. \A op \in Op : op.kind \in Kinds /\ op.live \in Nat /\ op.x \in Cell
    BY DEF Op
  <1> QED
    BY <1>1, <1>2, <1>3, <1>4, <1>5 DEF Function, Signature

(* What follows an operation.                                              *)
LEMMA NextFacts ==
    ASSUME NEW f, IsFunction(f), NEW o \in DOMAIN f.body
    PROVE  /\ f.body[o].kind \notin {"RET", "FRET"} => o + 1 \in DOMAIN f.body
           /\ o + 1 \in DOMAIN f.body => 
                (f.body[o + 1].kind \in Inside <=> InCall(f.body[o]))
           /\ f.body[o].kind \in Inside => o - 1 \in DOMAIN f.body /\ InCall(f.body[o - 1])
           /\ f.body[o].kind = "PROLOG" <=> o = 1
  <1>1. /\ Len(f.body) \in Nat \ {0} /\ DOMAIN f.body = 1 .. Len(f.body)
        /\ f.body[Len(f.body)].kind \in {"RET", "FRET"}
    BY FunctionFacts DEF IsFunction, WellFormedFunction
  <1>2. \A p \in DOMAIN f.body :
          /\ f.body[p].kind = "PROLOG" <=> p = 1
          /\ InCall(f.body[p]) => f.body[p + 1].kind \in Inside
          /\ f.body[p].kind \in Inside => InCall(f.body[p - 1])
    BY DEF IsFunction, WellFormedFunction, Inside
  <1>3. f.body[o].kind \notin {"RET", "FRET"} => o + 1 \in DOMAIN f.body
    BY <1>1
  <1>4. f.body[o].kind \in Inside => o - 1 \in DOMAIN f.body
    <2>1. f.body[o].kind \in Inside => o # 1
      BY <1>2 DEF Inside
    <2> QED
      BY <1>1, <2>1
  <1>5. ASSUME o + 1 \in DOMAIN f.body
        PROVE  f.body[o + 1].kind \in Inside <=> InCall(f.body[o])
    <2>1. (o + 1) - 1 = o
      BY <1>1
    <2>2. f.body[o + 1].kind \in Inside => InCall(f.body[(o + 1) - 1])
      BY <1>2, <1>5
    <2> QED
      BY <1>2, <2>1, <2>2
  <1> QED
    BY <1>2, <1>3, <1>4, <1>5

(* The PREPARE that belongs to an operation of a call.                     *)
Prepares(f, q, o) ==
    /\ q \in 1 .. o - 1
    /\ f.body[q].kind = "PREPARE"
    /\ \A k \in q + 1 .. o - 1 : f.body[k].kind \in Passes

LEMMA PreparesOnce ==
    ASSUME NEW f, NEW o \in Nat, NEW q, Prepares(f, q, o), NEW p, Prepares(f, p, o)
    PROVE  p = q
  <1>1. /\ p \in 1 .. o - 1 /\ q \in 1 .. o - 1
        /\ f.body[p].kind \notin Passes /\ f.body[q].kind \notin Passes
    BY DEF Prepares, Passes
  <1>2. ~(p < q)
    <2>1. p < q => q \in p + 1 .. o - 1
      BY <1>1
    <2> QED
      BY <1>1, <2>1 DEF Prepares
  <1>3. ~(q < p)
    <2>1. q < p => p \in q + 1 .. o - 1
      BY <1>1
    <2> QED
      BY <1>1, <2>1 DEF Prepares
  <1> QED
    BY <1>1, <1>2, <1>3

LEMMA PrepareFacts ==
    ASSUME NEW f, IsFunction(f), NEW o \in DOMAIN f.body, f.body[o].kind \in Inside
    PROVE  Prepares(f, PrepareOf(f, o), o)
  <1> DEFINE T == {o - q : q \in {q \in 1 .. o - 1 : f.body[q].kind \notin Passes}}
  <1>1. DOMAIN f.body = 1 .. Len(f.body) /\ Len(f.body) \in Nat
    BY FunctionFacts
  <1>2. o \in Nat /\ o # 1 /\ 1 \in DOMAIN f.body /\ f.body[1].kind = "PROLOG"
    <2>1. o \in Nat /\ 1 \in DOMAIN f.body
      BY <1>1
    <2>2. f.body[1].kind = "PROLOG" /\ f.body[o].kind # "PROLOG"
      BY <2>1, NextFacts DEF Inside
    <2> QED
      BY <2>1, <2>2
  <1>3. T \subseteq Nat /\ T # {}
    <2>1. 1 \in 1 .. o - 1
      BY <1>1, <1>2
    <2>2. o - 1 \in T
      BY <1>2, <2>1 DEF Passes
    <2>3. \A t \in T : t \in Nat
      BY <1>2
    <2> QED
      BY <2>2, <2>3
  <1>4. PICK t \in T : \A k \in T : t <= k
    <2> HIDE DEF T
    <2> QED
      BY <1>3, LeastElement
  <1>5. PICK q \in 1 .. o - 1 : t = o - q /\ f.body[q].kind \notin Passes
    OBVIOUS
  <1>6. ASSUME NEW k \in q + 1 .. o - 1 PROVE f.body[k].kind \in Passes
    <2>1. k \in 1 .. o - 1 /\ ~(t <= o - k)
      BY <1>2, <1>5
    <2> QED
      BY <1>4, <2>1
  <1>7. f.body[q].kind = "PREPARE"
    <2>1. q \in DOMAIN f.body /\ q + 1 \in DOMAIN f.body
      BY <1>1, <1>2, <1>5
    <2>2. f.body[q + 1].kind \in Inside
      <3>1. CASE q + 1 = o
        BY <3>1
      <3>2. CASE q + 1 # o
        <4>1. q + 1 \in q + 1 .. o - 1
          BY <1>2, <1>5, <3>2
        <4> QED
          BY <1>6, <4>1 DEF Passes, Inside
      <3> QED
        BY <3>1, <3>2
    <2>3. InCall(f.body[q])
      BY <2>1, <2>2, NextFacts
    <2> QED
      BY <1>5, <2>3 DEF InCall, Passes
  <1>8. Prepares(f, q, o)
    BY <1>5, <1>6, <1>7 DEF Prepares
  <1> DEFINE Last(p) == /\ f.body[p].kind = "PREPARE"
                        /\ \A k \in (p + 1) .. o : f.body[k].kind # "PREPARE"
  <1>9. q \in 1 .. o /\ Last(q)
    <2>1. ASSUME NEW k \in q + 1 .. o PROVE f.body[k].kind # "PREPARE"
      <3>1. k = o \/ k \in q + 1 .. o - 1
        BY <1>2, <1>5
      <3> QED
        BY <1>6, <3>1 DEF Passes, Inside
    <2> QED
      BY <1>2, <1>5, <1>7, <2>1
  <1>10. PrepareOf(f, o) = CHOOSE p \in 1 .. o : Last(p)
    BY DEF PrepareOf
  <1>11. PrepareOf(f, o) \in 1 .. o /\ Last(PrepareOf(f, o))
    <2> HIDE DEF Last
    <2> QED
      BY <1>9, <1>10
  <1>12. PrepareOf(f, o) = q
    <2> DEFINE p == PrepareOf(f, o)
    <2>1. p \in Int /\ q \in Int /\ p \in 1 .. o /\ Last(p)
      BY <1>2, <1>5, <1>11
    <2> HIDE DEF p
    <2>2. ~(p < q)
      <3>1. p < q => q \in p + 1 .. o
        BY <1>2, <1>5, <2>1
      <3> QED
        BY <1>7, <2>1, <3>1
    <2>3. ~(q < p)
      <3>1. q < p => p \in q + 1 .. o
        BY <1>2, <1>5, <2>1
      <3> QED
        BY <1>9, <2>1, <3>1
    <2>4. p = q
      BY <2>1, <2>2, <2>3
    <2> QED
      BY <2>4 DEF p
  <1> QED
    BY <1>8, <1>12

LEMMA PrepareNext ==
    ASSUME NEW f, IsFunction(f), NEW o \in DOMAIN f.body,
           o + 1 \in DOMAIN f.body, f.body[o + 1].kind \in Inside
    PROVE  /\ f.body[o].kind = "PREPARE" => PrepareOf(f, o + 1) = o
           /\ f.body[o].kind # "PREPARE" => /\ f.body[o].kind \in Passes
                                            /\ PrepareOf(f, o + 1) = PrepareOf(f, o)
  <1>1. /\ o \in Nat /\ (o + 1) - 1 = o /\ o + 1 \in Nat
        /\ Prepares(f, PrepareOf(f, o + 1), o + 1)
    BY FunctionFacts, PrepareFacts
  <1> DEFINE q == PrepareOf(f, o + 1)
  <1>2. /\ q \in 1 .. o /\ f.body[q].kind = "PREPARE"
        /\ \A k \in q + 1 .. o : f.body[k].kind \in Passes
    BY <1>1 DEF Prepares
  <1> HIDE DEF q
  <1>3. ASSUME f.body[o].kind = "PREPARE" PROVE q = o
    <2>1. q # o => o \in q + 1 .. o
      BY <1>1, <1>2
    <2> QED
      BY <1>2, <1>3, <2>1 DEF Passes
  <1>4. ASSUME f.body[o].kind # "PREPARE"
        PROVE  f.body[o].kind \in Passes /\ q = PrepareOf(f, o)
    <2>1. f.body[o].kind \in Passes
      BY <1>4, NextFacts DEF InCall, Passes
    <2>2. Prepares(f, PrepareOf(f, o), o)
      BY <2>1, PrepareFacts DEF Passes, Inside
    <2>3. Prepares(f, q, o)
      <3>1. q # o
        BY <1>2, <1>4
      <3>2. q \in 1 .. o - 1 /\ \A k \in q + 1 .. o - 1 : k \in q + 1 .. o
        BY <1>1, <1>2, <3>1
      <3> QED
        BY <1>2, <3>2 DEF Prepares
    <2>4. q = PrepareOf(f, o)
      BY <1>1, <2>2, <2>3, PreparesOnce
    <2> QED
      BY <2>1, <2>4
  <1> QED
    BY <1>3, <1>4 DEF q

-----------------------------------------------------------------------------
(* The arguments of a call, counted one by one.                            *)

ClassOf(kind) == IF kind = "PUTARG" THEN "gp" ELSE "fp"

LEMMA ArgKindsFacts ==
    ASSUME NEW f, IsFunction(f), NEW o \in DOMAIN f.body, f.body[o].kind \in Inside
    PROVE  /\ ArgKinds(f, o) \in Seq({"gp", "fp"})
           /\ Len(ArgKinds(f, o)) = (o - PrepareOf(f, o)) - 1
           /\ \A k \in 1 .. Len(ArgKinds(f, o)) :
                ArgKinds(f, o)[k] = ClassOf(f.body[PrepareOf(f, o) + k].kind)
  <1> DEFINE q == PrepareOf(f, o)
             n == (o - q) - 1
  <1>1. q \in 1 .. o - 1 /\ o \in Nat
    BY PrepareFacts, FunctionFacts DEF Prepares
  <1>2. ArgKinds(f, o) = [k \in 1 .. n |-> ClassOf(f.body[q + k].kind)]
    BY DEF ArgKinds, ClassOf
  <1> HIDE DEF q
  <1>3. n \in Nat
    BY <1>1
  <1>4. \A k \in 1 .. n : ClassOf(f.body[q + k].kind) \in {"gp", "fp"}
    BY DEF ClassOf
  <1> HIDE DEF n
  <1>5. ArgKinds(f, o) \in Seq({"gp", "fp"}) /\ Len(ArgKinds(f, o)) = n
    BY <1>2, <1>3, <1>4
  <1>6. \A k \in 1 .. n : ArgKinds(f, o)[k] = ClassOf(f.body[q + k].kind)
    BY <1>2
  <1> QED
    BY <1>5, <1>6 DEF n, q

LEMMA ArgKindsNext ==
    ASSUME NEW f, IsFunction(f), NEW o \in DOMAIN f.body,
           o + 1 \in DOMAIN f.body, f.body[o + 1].kind \in Inside
    PROVE  /\ f.body[o].kind = "PREPARE" => Len(ArgKinds(f, o + 1)) = 0
           /\ f.body[o].kind # "PREPARE" =>
                /\ Len(ArgKinds(f, o + 1)) = Len(ArgKinds(f, o)) + 1
                /\ ArgKinds(f, o + 1)[Len(ArgKinds(f, o)) + 1] = ClassOf(f.body[o].kind)
                /\ \A k \in 1 .. Len(ArgKinds(f, o)) :
                     ArgKinds(f, o + 1)[k] = ArgKinds(f, o)[k]
  <1>1. o \in Nat
    BY FunctionFacts
  <1>2. /\ Len(ArgKinds(f, o + 1)) = ((o + 1) - PrepareOf(f, o + 1)) - 1
        /\ \A k \in 1 .. Len(ArgKinds(f, o + 1)) :
             ArgKinds(f, o + 1)[k] = ClassOf(f.body[PrepareOf(f, o + 1) + k].kind)
    BY ArgKindsFacts
  <1>3. ASSUME f.body[o].kind = "PREPARE" PROVE Len(ArgKinds(f, o + 1)) = 0
    BY <1>1, <1>2, <1>3, PrepareNext
  <1>4. ASSUME f.body[o].kind # "PREPARE"
        PROVE  /\ Len(ArgKinds(f, o + 1)) = Len(ArgKinds(f, o)) + 1
               /\ ArgKinds(f, o + 1)[Len(ArgKinds(f, o)) + 1] = ClassOf(f.body[o].kind)
               /\ \A k \in 1 .. Len(ArgKinds(f, o)) :
                    ArgKinds(f, o + 1)[k] = ArgKinds(f, o)[k]
    <2> DEFINE q == PrepareOf(f, o)
               n == Len(ArgKinds(f, o))
    <2>1. f.body[o].kind \in Passes /\ PrepareOf(f, o + 1) = q
      BY <1>4, PrepareNext
    <2>2. f.body[o].kind \in Inside
      BY <2>1 DEF Passes, Inside
    <2>3. q \in 1 .. o - 1
      BY <2>2, PrepareFacts DEF Prepares
    <2>4. /\ n = (o - q) - 1
          /\ \A k \in 1 .. n : ArgKinds(f, o)[k] = ClassOf(f.body[q + k].kind)
      BY <2>2, ArgKindsFacts
    <2> HIDE DEF q, n
    <2>5. Len(ArgKinds(f, o + 1)) = n + 1 /\ n \in Nat /\ q + (n + 1) = o
      <3>1. Len(ArgKinds(f, o + 1)) = ((o + 1) - q) - 1
        BY <1>2, <2>1
      <3>2. ((o + 1) - q) - 1 = ((o - q) - 1) + 1 /\ (o - q) - 1 \in Nat /\ q + (((o - q) - 1) + 1) = o
        BY <1>1, <2>3
      <3> QED
        BY <2>4, <3>1, <3>2
    <2>6. ArgKinds(f, o + 1)[n + 1] = ClassOf(f.body[o].kind)
      <3>1. n + 1 \in 1 .. Len(ArgKinds(f, o + 1))
        BY <2>5
      <3> QED
        BY <1>2, <2>1, <2>5, <3>1
    <2>7. ASSUME NEW k \in 1 .. n PROVE ArgKinds(f, o + 1)[k] = ArgKinds(f, o)[k]
      <3>1. k \in 1 .. Len(ArgKinds(f, o + 1))
        BY <2>5
      <3> QED
        BY <1>2, <2>1, <2>4, <3>1
    <2> QED
      BY <2>5, <2>6, <2>7 DEF n
  <1> QED
    BY <1>3, <1>4

(* prepared_args has the arguments passed so far.                          *)
Passed(f, o, class) == Before(Callee(ArgKinds(f, o)), Len(ArgKinds(f, o)), class)
OnStackSize(f, o) == Beyond(Callee(ArgKinds(f, o)), Len(ArgKinds(f, o)))

Counted(f, o, args) ==
    /\ args = [gp |-> args.gp, fp |-> args.fp, stack_size |-> args.stack_size]
    /\ args.gp = Passed(f, o, "gp")
    /\ args.fp = Passed(f, o, "fp")
    /\ args.stack_size = OnStackSize(f, o)

LEMMA PassedFacts ==
    ASSUME NEW f, IsFunction(f), NEW o \in DOMAIN f.body, f.body[o].kind \in Inside
    PROVE  /\ Passed(f, o, "gp") \in Nat /\ Passed(f, o, "fp") \in Nat
           /\ OnStackSize(f, o) = Max2(Passed(f, o, "gp") - GpArgRegCnt, 0)
                                   + Max2(Passed(f, o, "fp") - FpArgRegCnt, 0)
           /\ OnStackSize(f, o) \in Nat
  <1> DEFINE kinds == ArgKinds(f, o)
  <1>1. kinds \in Seq({"gp", "fp"})
    BY ArgKindsFacts
  <1>2. Signature(Callee(kinds)) /\ Len(kinds) \in 0 .. Len(Callee(kinds).params)
    BY <1>1 DEF Signature, Callee
  <1>3. Passed(f, o, "gp") \in Nat /\ Passed(f, o, "fp") \in Nat
    BY <1>2, BeforeFacts DEF Passed
  <1>4. OnStackSize(f, o) = Max2(0, Passed(f, o, "gp") - GpArgRegCnt)
                             + Max2(0, Passed(f, o, "fp") - FpArgRegCnt)
    BY DEF OnStackSize, Beyond, Passed
  <1> QED
    BY <1>3, <1>4, CountAssumption DEF Max2

LEMMA PassedAtFirst ==
    ASSUME NEW f, IsFunction(f), NEW o \in DOMAIN f.body, f.body[o].kind = "PREPARE",
           o + 1 \in DOMAIN f.body
    PROVE  f.body[o + 1].kind \in Inside /\ Counted(f, o + 1, NoArgs)
  <1>1. f.body[o + 1].kind \in Inside
    BY NextFacts DEF InCall
  <1>2. Len(ArgKinds(f, o + 1)) = 0 /\ ArgKinds(f, o + 1) \in Seq({"gp", "fp"})
    BY <1>1, ArgKindsNext, ArgKindsFacts
  <1>3. Signature(Callee(ArgKinds(f, o + 1))) /\ 0 \in 0 .. Len(Callee(ArgKinds(f, o + 1)).params)
    BY <1>2 DEF Signature, Callee
  <1>4. Passed(f, o + 1, "gp") = 0 /\ Passed(f, o + 1, "fp") = 0
    BY <1>2, <1>3, BeforeFacts DEF Passed
  <1>5. OnStackSize(f, o + 1) = 0
    <2>1. OnStackSize(f, o + 1) = Max2(0 - GpArgRegCnt, 0) + Max2(0 - FpArgRegCnt, 0)
      BY <1>1, <1>4, PassedFacts
    <2> QED
      BY <2>1, CountAssumption DEF Max2
  <1> QED
    BY <1>1, <1>4, <1>5 DEF Counted, NoArgs

(* One argument more.                                                      *)
LEMMA PassedOneMore ==
    ASSUME NEW f, IsFunction(f), NEW o \in DOMAIN f.body, f.body[o].kind \in Passes,
           o + 1 \in DOMAIN f.body, NEW class \in {"gp", "fp"}
    PROVE  Passed(f, o + 1, class) =
             Passed(f, o, class) + (IF class = ClassOf(f.body[o].kind) THEN 1 ELSE 0)
  <1> DEFINE kinds == ArgKinds(f, o)
             more == ArgKinds(f, o + 1)
             n == Len(kinds)
  <1>1. f.body[o].kind \in Inside /\ f.body[o].kind # "PREPARE" /\ f.body[o + 1].kind \in Inside
    BY NextFacts DEF Passes, Inside, InCall
  <1>2. /\ kinds \in Seq({"gp", "fp"}) /\ more \in Seq({"gp", "fp"})
        /\ n \in Nat
        /\ Len(more) = n + 1
        /\ more[n + 1] = ClassOf(f.body[o].kind)
        /\ \A k \in 1 .. n : more[k] = kinds[k]
    BY <1>1, ArgKindsFacts, ArgKindsNext
  <1> HIDE DEF kinds, more, n
  <1>3. /\ Signature(Callee(more)) /\ Callee(more).params = more /\ Callee(kinds).params = kinds
        /\ n \in 0 .. Len(Callee(more).params) /\ n < Len(Callee(more).params)
    BY <1>2 DEF Signature, Callee
  <1>4. Before(Callee(more), n + 1, class) =
          Before(Callee(more), n, class) + (IF more[n + 1] = class THEN 1 ELSE 0)
    <2>1. Before(Callee(more), n + 1, class) =
            Before(Callee(more), n, class) + (IF Callee(more).params[n + 1] = class THEN 1 ELSE 0)
      BY <1>3, BeforeFacts
    <2> QED
      BY <1>3, <2>1
  <1>5. Before(Callee(more), n, class) = Before(Callee(kinds), n, class)
    <2>1. {k \in 1 .. n : Callee(more).params[k] = class} =
            {k \in 1 .. n : Callee(kinds).params[k] = class}
      BY <1>2, <1>3
    <2> QED
      BY <2>1 DEF Before
  <1> QED
    BY <1>2, <1>4, <1>5 DEF Passed, kinds, more, n

Recount(args, class, x, y) == [args EXCEPT ![class] = x, !["stack_size"] = y]
Args(g, p, size) == [gp |-> g, fp |-> p, stack_size |-> size]

LEMMA Recounted ==
    ASSUME NEW g, NEW p, NEW size, NEW x, NEW y
    PROVE  /\ Recount(Args(g, p, size), "gp", x, y) = Args(x, p, y)
           /\ Recount(Args(g, p, size), "fp", x, y) = Args(g, x, y)
  <1>1. Recount(Args(g, p, size), "gp", x, y) = Args(x, p, y)
    BY DEF Recount, Args
  <1>2. Recount(Args(g, p, size), "fp", x, y) = Args(g, x, y)
    BY DEF Recount, Args
  <1> QED
    BY <1>1, <1>2

LEMMA CountsOneMore ==
    ASSUME NEW f, IsFunction(f), NEW o \in DOMAIN f.body, f.body[o].kind \in Passes,
           o + 1 \in DOMAIN f.body, NEW args, Counted(f, o, args)
    PROVE  LET class == ClassOf(f.body[o].kind)
               count == args[class] + 1
               regs  == IF class = "gp" THEN GpArgRegCnt ELSE FpArgRegCnt
           IN Counted(f, o + 1, [args EXCEPT
                ![class] = count, !.stack_size = IF count > regs THEN @ + 1 ELSE @])
  <1> DEFINE g == Passed(f, o, "gp")
             p == Passed(f, o, "fp")
             class == ClassOf(f.body[o].kind)
             count == args[class] + 1
             regs  == IF class = "gp" THEN GpArgRegCnt ELSE FpArgRegCnt
             new == [args EXCEPT ![class] = count, !.stack_size = IF count > regs THEN @ + 1 ELSE @]
             size == OnStackSize(f, o)
  <1>0. SUFFICES Counted(f, o + 1, new)
    OBVIOUS
  <1>1. f.body[o].kind \in Inside /\ f.body[o + 1].kind \in Inside
    BY NextFacts DEF Passes, Inside, InCall
  <1>2. g \in Nat /\ p \in Nat /\ size = Max2(g - GpArgRegCnt, 0) + Max2(p - FpArgRegCnt, 0)
    BY <1>1, PassedFacts
  <1>3. /\ OnStackSize(f, o + 1) = Max2(Passed(f, o + 1, "gp") - GpArgRegCnt, 0)
                                     + Max2(Passed(f, o + 1, "fp") - FpArgRegCnt, 0)
    BY <1>1, PassedFacts
  <1>4. /\ Passed(f, o + 1, "gp") = g + (IF class = "gp" THEN 1 ELSE 0)
        /\ Passed(f, o + 1, "fp") = p + (IF class = "fp" THEN 1 ELSE 0)
    <2>1. \A c \in {"gp", "fp"} : Passed(f, o + 1, c) = Passed(f, o, c) + (IF c = class THEN 1 ELSE 0)
      BY PassedOneMore
    <2> QED
      BY <2>1
  <1>5. args = [gp |-> g, fp |-> p, stack_size |-> size]
    BY DEF Counted
  <1>6. class \in {"gp", "fp"}
    BY DEF ClassOf
  <1> HIDE DEF g, p, class, size
  <1>7. CASE class = "gp"
    <2>1. new = [gp |-> g + 1, fp |-> p,
                 stack_size |-> IF g + 1 > GpArgRegCnt THEN size + 1 ELSE size]
      <3>1. count = g + 1 /\ regs = GpArgRegCnt /\ args.stack_size = size
        BY <1>5, <1>7
      <3> HIDE DEF count, regs
      <3>2. new = [args EXCEPT !["gp"] = g + 1,
                               !["stack_size"] = IF g + 1 > GpArgRegCnt THEN size + 1 ELSE size]
        BY <1>7, <3>1
      <3> DEFINE y == IF g + 1 > GpArgRegCnt THEN size + 1 ELSE size
      <3> HIDE DEF new, count, regs
      <3>3. new = Recount(args, "gp", g + 1, y)
        BY <3>2 DEF Recount
      <3> HIDE DEF y
      <3>4. args = Args(g, p, size)
        BY <1>5 DEF Args
      <3>5. new = Args(g + 1, p, y)
        BY <3>3, <3>4, Recounted
      <3> QED
        BY <3>5 DEF y, Args
    <2> HIDE DEF new
    <2>2. OnStackSize(f, o + 1) = IF g + 1 > GpArgRegCnt THEN size + 1 ELSE size
      <3>1. OnStackSize(f, o + 1) = Max2((g + 1) - GpArgRegCnt, 0) + Max2(p - FpArgRegCnt, 0)
        BY <1>2, <1>3, <1>4, <1>7
      <3> QED
        BY <1>2, <3>1, CountAssumption DEF Max2
    <2> QED
      BY <1>2, <1>4, <1>7, <2>1, <2>2 DEF Counted
  <1>8. CASE class = "fp"
    <2>1. new = [gp |-> g, fp |-> p + 1,
                 stack_size |-> IF p + 1 > FpArgRegCnt THEN size + 1 ELSE size]
      <3>1. count = p + 1 /\ regs = FpArgRegCnt /\ args.stack_size = size
        BY <1>5, <1>8
      <3> HIDE DEF count, regs
      <3>2. new = [args EXCEPT !["fp"] = p + 1,
                               !["stack_size"] = IF p + 1 > FpArgRegCnt THEN size + 1 ELSE size]
        BY <1>8, <3>1
      <3> DEFINE y == IF p + 1 > FpArgRegCnt THEN size + 1 ELSE size
      <3> HIDE DEF new, count, regs
      <3>3. new = Recount(args, "fp", p + 1, y)
        BY <3>2 DEF Recount
      <3> HIDE DEF y
      <3>4. args = Args(g, p, size)
        BY <1>5 DEF Args
      <3>5. new = Args(g, p + 1, y)
        BY <3>3, <3>4, Recounted
      <3> QED
        BY <3>5 DEF y, Args
    <2> HIDE DEF new
    <2>2. OnStackSize(f, o + 1) = IF p + 1 > FpArgRegCnt THEN size + 1 ELSE size
      <3>1. OnStackSize(f, o + 1) = Max2(g - GpArgRegCnt, 0) + Max2((p + 1) - FpArgRegCnt, 0)
        BY <1>2, <1>3, <1>4, <1>8
      <3> QED
        BY <1>2, <3>1, CountAssumption DEF Max2
    <2> QED
      BY <1>2, <1>4, <1>8, <2>1, <2>2 DEF Counted
  <1> QED
    BY <1>6, <1>7, <1>8

-----------------------------------------------------------------------------
(* What the passes have found out, and what the emitter made of it.        *)

Evened(f) == f.gp + ((f.gp + f.fp) % 2)

ArgCell(i) == [class |-> "arg", n |-> i]

SpillPosOf(u, k, i) ==
    IF PassedByReg(u[k], i)
    THEN RegPos(u[k], Evened(u[k]), AllocaMem(u[Len(u)]), ArgCell(i))
    ELSE -(2 + StackPos(u[k], i))

HasFrame(u, k) == \E j \in 1 .. k : UsesFrame(u[j])

Layout == {"count", "arguments", "frameptr"}

InfoOf(i) == [gp_reg_count |-> i.gp_reg_count, has_prolog |-> i.has_prolog,
              spill_pos |-> i.spill_pos]

Informed(u, p, k, i) ==
    /\ i = InfoOf(i)
    /\ p # "count" => i.gp_reg_count = Evened(u[k])
    /\ p \notin {"count", "arguments"} =>
         i.spill_pos = [n \in Params(u[k]) |-> SpillPosOf(u, k, n)]
    /\ p \notin Layout => i.has_prolog = HasFrame(u, k)

InfoInv ==
    /\ unit \in Units
    /\ phase \in Layout \cup {"emit", "run"}
    /\ DOMAIN info = DOMAIN unit
    /\ \A k \in DOMAIN unit : Informed(unit, phase, k, info[k])

(* Before operation o of f a FRET has been emitted.                        *)
FretBefore(f, o) == \E j \in 1 .. o - 1 : f.body[j].kind = "FRET"

(* The registers that are pushed for a call when control is at o.          *)
Waiting(f, o) == IF f.body[o].kind \in Inside THEN Live(f, o) ELSE 0

(* push_count is what is pushed, or differs by an even number from it.     *)
Exactly(f, o) == f.saved = 0 \/ ~FretBefore(f, o)
Evenly(f, o) == f.saved % 2 = 0 \/ ~FretBefore(f, o)

Pushes(f, o, count) ==
    /\ Exactly(f, o) => count = Align(f.saved) + Waiting(f, o)
    /\ Evenly(f, o) => (count - (Align(f.saved) + Waiting(f, o))) % 2 = 0

(* The words of the arguments, the registers and the padding of the call   *)
(* at o.                                                                   *)
CallAligned(f, o, correction, has_prolog) ==
    ((Align(f.saved) + Waiting(f, o)) + (OnStackSize(f, o) + correction)) % 2 =
      IF has_prolog THEN 0 ELSE 1

(* The code of operation o of f.                                           *)
Expected(f, i, o, c) ==
    LET op == f.body[o] IN
    /\ op.kind = "PROLOG" => c.sub = IF i.has_prolog THEN FrameSize(f, i) ELSE 0
    /\ op.kind \in {"UREG", "LREG", "ST", "LD"} =>
         /\ c.base = "bp"
         /\ c.pos = RegPos(f, i.gp_reg_count, AllocaMem(f), op.x)
    /\ op.kind = "GETARG" =>
         IF PassedByReg(f, op.x.n) \/ i.has_prolog
         THEN c.base = "bp" /\ c.pos = i.spill_pos[op.x.n]
         ELSE /\ c.base = "sp"
              /\ Exactly(f, o) => c.pos = -((1 + StackPos(f, op.x.n)) + Align(f.saved))
    /\ op.kind = "PREPARE" => c.sub = op.live
    /\ op.kind = "CALL" =>
         /\ c.sub \in {0, 1}
         /\ c.add = c.sub + OnStackSize(f, o)
         /\ Evenly(f, o) => CallAligned(f, o, c.sub, i.has_prolog)
    /\ op.kind \in {"RET", "FRET"} =>
         c.add = Align(f.saved) /\ c.pos = Align(f.saved) - f.saved

Written(k, o) ==
    \/ phase = "run"
    \/ phase = "emit" /\ (k < fn \/ (k = fn /\ o < cur))

EmitInv ==
    /\ InfoInv
    /\ phase \in Layout => fn = 1 /\ cur = 1
    /\ phase # "run" => /\ fn \in 1 .. Len(unit) + 1
                        /\ fn <= Len(unit) => cur \in DOMAIN unit[fn].body
    /\ phase = "run" => fn \in DOMAIN unit
    /\ DOMAIN code = DOMAIN unit
    /\ \A k \in DOMAIN unit :
         /\ DOMAIN code[k] = DOMAIN unit[k].body
         /\ \A o \in DOMAIN unit[k].body :
              Written(k, o) => Expected(unit[k], info[k], o, code[k][o])
    /\ push_count \in Int
    /\ phase = "emit" /\ fn <= Len(unit) /\ cur > 1 =>
         /\ Pushes(unit[fn], cur, push_count)
         /\ unit[fn].body[cur].kind \in Inside => Counted(unit[fn], cur, prepared)

LEMMA UnitFacts ==
    ASSUME InfoInv
    PROVE  /\ Len(unit) \in Nat \ {0} /\ DOMAIN unit = 1 .. Len(unit)
           /\ \A k \in DOMAIN unit : IsFunction(unit[k])
  <1>1. WellFormed(unit)
    BY UnitsAssumption DEF InfoInv
  <1>2. unit \in Seq(Function) /\ Len(unit) > 0 /\ \A k \in DOMAIN unit : WellFormedFunction(unit[k])
    BY <1>1 DEF WellFormed
  <1>3. \A k \in DOMAIN unit : unit[k] \in Function
    BY <1>2
  <1> QED
    BY <1>2, <1>3 DEF IsFunction

LEMMA WaitingFacts ==
    ASSUME NEW f, IsFunction(f), NEW o \in DOMAIN f.body
    PROVE  /\ Waiting(f, o) \in Nat
           /\ o + 1 \in DOMAIN f.body =>
                Waiting(f, o + 1) = CASE f.body[o].kind = "PREPARE" -> f.body[o].live
                                      [] f.body[o].kind \in Passes -> Waiting(f, o)
                                      [] OTHER -> 0
  <1>1. ASSUME f.body[o].kind \in Inside PROVE Live(f, o) \in Nat
    <2>1. PrepareOf(f, o) \in 1 .. o - 1
      BY <1>1, PrepareFacts DEF Prepares
    <2>2. DOMAIN f.body = 1 .. Len(f.body) /\ Len(f.body) \in Nat
          /\ \A p \in DOMAIN f.body : f.body[p].live \in Nat
      BY FunctionFacts
    <2>3. PrepareOf(f, o) \in DOMAIN f.body
      BY <2>1, <2>2
    <2> QED
      BY <2>2, <2>3 DEF Live
  <1>2. ASSUME o + 1 \in DOMAIN f.body
        PROVE  Waiting(f, o + 1) = CASE f.body[o].kind = "PREPARE" -> f.body[o].live
                                     [] f.body[o].kind \in Passes -> Waiting(f, o)
                                     [] OTHER -> 0
    <2>1. f.body[o + 1].kind \in Inside <=> f.body[o].kind \in {"PREPARE"} \cup Passes
      BY <1>2, NextFacts DEF InCall, Passes
    <2>2. CASE f.body[o].kind = "PREPARE"
      <3>1. PrepareOf(f, o + 1) = o
        BY <1>2, <2>1, <2>2, PrepareNext
      <3> QED
        BY <2>1, <2>2, <3>1 DEF Waiting, Live, Passes
    <2>3. CASE f.body[o].kind \in Passes
      <3>1. PrepareOf(f, o + 1) = PrepareOf(f, o) /\ f.body[o].kind # "PREPARE"
        BY <1>2, <2>1, <2>3, PrepareNext DEF Passes
      <3>2. f.body[o].kind \in Inside
        BY <2>3 DEF Passes, Inside
      <3> QED
        BY <2>1, <2>3, <3>1, <3>2 DEF Waiting, Live
    <2>4. CASE f.body[o].kind \notin {"PREPARE"} \cup Passes
      BY <2>1, <2>4 DEF Waiting
    <2> QED
      BY <2>2, <2>3, <2>4
  <1> QED
    BY <1>1, <1>2 DEF Waiting

(* The word that is skipped makes the number of words even, or odd where   *)
(* no frame pointer was pushed.                                            *)
LEMMA CorrectionFacts ==
    ASSUME NEW args, NEW size \in Nat, NEW pushes \in Int, NEW has_prolog \in BOOLEAN,
           size = Max2(args.gp - GpArgRegCnt, 0) + Max2(args.fp - FpArgRegCnt, 0),
           Max2(args.gp - GpArgRegCnt, 0) \in Nat, Max2(args.fp - FpArgRegCnt, 0) \in Nat
    PROVE  /\ Correction(args, pushes, has_prolog) \in {0, 1}
           /\ (pushes + (size + Correction(args, pushes, has_prolog))) % 2 =
                IF has_prolog THEN 0 ELSE 1
  <1> DEFINE pushed == (pushes + Max2(args.gp - GpArgRegCnt, 0)) + Max2(args.fp - FpArgRegCnt, 0)
  <1>1. pushed \in Int /\ pushed = pushes + size
    OBVIOUS
  <1>2. Correction(args, pushes, has_prolog) = IF has_prolog THEN pushed % 2 ELSE (pushed + 1) % 2
    BY DEF Correction
  <1> HIDE DEF pushed
  <1>3. CASE has_prolog
    BY <1>1, <1>2, <1>3
  <1>4. CASE ~has_prolog
    BY <1>1, <1>2, <1>4
  <1> QED
    BY <1>3, <1>4

LEMMA SameParity ==
    ASSUME NEW a \in Int, NEW b \in Int, NEW x \in Int, (a - b) % 2 = 0
    PROVE  (a + x) % 2 = (b + x) % 2
  OBVIOUS

(* What an emitted operation leaves behind.                                *)
LEMMA EmittedStep ==
    ASSUME EmitInv, phase = "emit", fn <= Len(unit), NEW instr, Emitted(instr),
           push_count' \in Int, Expected(Func, Info, cur, instr),
           cur + 1 \in DOMAIN Func.body =>
             /\ Pushes(Func, cur + 1, push_count')
             /\ Func.body[cur + 1].kind \in Inside => Counted(Func, cur + 1, prepared')
    PROVE  EmitInv'
  <1>1. /\ Len(unit) \in Nat \ {0} /\ DOMAIN unit = 1 .. Len(unit)
        /\ \A k \in DOMAIN unit : IsFunction(unit[k])
    BY UnitFacts DEF EmitInv
  <1>2. /\ fn \in 1 .. Len(unit) /\ fn \in DOMAIN unit /\ IsFunction(Func)
        /\ cur \in DOMAIN Func.body
    BY <1>1 DEF EmitInv, Func
  <1>3. Len(Func.body) \in Nat \ {0} /\ DOMAIN Func.body = 1 .. Len(Func.body)
    BY <1>2, FunctionFacts
  <1>4. UNCHANGED <<unit, phase, info>>
    BY DEF Emitted
  <1>5. /\ cur < Len(Func.body) => cur' = cur + 1 /\ fn' = fn
        /\ ~(cur < Len(Func.body)) => cur' = 1 /\ fn' = fn + 1 /\ cur = Len(Func.body)
    BY <1>2, <1>3 DEF Emitted
  <1>6. InfoInv'
    BY <1>4 DEF EmitInv, InfoInv
  <1>7. fn' \in 1 .. Len(unit) + 1 /\ (fn' <= Len(unit) => cur' \in DOMAIN unit[fn'].body)
    <2>1. CASE cur < Len(Func.body)
      BY <1>2, <1>3, <1>5, <2>1 DEF Func
    <2>2. CASE ~(cur < Len(Func.body))
      <3>1. fn' = fn + 1 /\ cur' = 1 /\ fn' \in 1 .. Len(unit) + 1
        BY <1>1, <1>2, <1>5, <2>2
      <3>2. ASSUME fn' <= Len(unit) PROVE 1 \in DOMAIN unit[fn'].body
        <4>1. fn' \in DOMAIN unit
          BY <1>1, <3>1, <3>2
        <4>2. IsFunction(unit[fn'])
          BY <1>1, <4>1
        <4> QED
          BY <4>2, FunctionFacts
      <3> QED
        BY <3>1, <3>2
    <2> QED
      BY <2>1, <2>2
  <1>8. /\ DOMAIN code' = DOMAIN unit
        /\ \A k \in DOMAIN unit : DOMAIN code'[k] = DOMAIN unit[k].body
        /\ code'[fn][cur] = instr
        /\ \A k \in DOMAIN unit : \A o \in DOMAIN unit[k].body :
             ~(k = fn /\ o = cur) => code'[k][o] = code[k][o]
    <2>1. code' = [code EXCEPT ![fn][cur] = instr]
      BY DEF Emitted
    <2>2. DOMAIN code = DOMAIN unit /\ \A k \in DOMAIN unit : DOMAIN code[k] = DOMAIN unit[k].body
      BY DEF EmitInv
    <2> QED
      BY <1>2, <2>1, <2>2 DEF Func
  <1>9. ASSUME NEW k \in DOMAIN unit, NEW o \in DOMAIN unit[k].body, Written(k, o)'
        PROVE  Expected(unit[k], info[k], o, code'[k][o])
    <2>1. k < fn' \/ (k = fn' /\ o < cur')
      BY <1>4, <1>9 DEF Written
    <2>2. k \in Int /\ o \in Int /\ (k = fn => o \in 1 .. Len(Func.body)) /\ o >= 1
      <3>1. IsFunction(unit[k])
        BY <1>1
      <3>2. DOMAIN unit[k].body = 1 .. Len(unit[k].body) /\ Len(unit[k].body) \in Nat
        BY <3>1, FunctionFacts
      <3> QED
        BY <1>1, <3>2 DEF Func
    <2>3. (k = fn /\ o = cur) \/ k < fn \/ (k = fn /\ o < cur)
      <3>1. CASE cur < Len(Func.body)
        BY <1>2, <1>3, <1>5, <2>1, <2>2, <3>1
      <3>2. CASE ~(cur < Len(Func.body))
        BY <1>2, <1>3, <1>5, <2>1, <2>2, <3>2
      <3> QED
        BY <3>1, <3>2
    <2>4. CASE k = fn /\ o = cur
      BY <1>8, <2>4 DEF Func, Info
    <2>5. CASE ~(k = fn /\ o = cur)
      <3>1. Written(k, o)
        BY <2>3, <2>5 DEF Written
      <3>2. Expected(unit[k], info[k], o, code[k][o])
        BY <3>1 DEF EmitInv
      <3>3. code'[k][o] = code[k][o]
        BY <1>8, <2>5
      <3> QED
        BY <3>2, <3>3
    <2> QED
      BY <2>4, <2>5
  <1>10. ASSUME fn' <= Len(unit), cur' > 1
         PROVE  /\ Pushes(unit[fn'], cur', push_count')
                /\ unit[fn'].body[cur'].kind \in Inside => Counted(unit[fn'], cur', prepared')
    <2>1. cur' = cur + 1 /\ fn' = fn /\ cur + 1 \in DOMAIN Func.body
      <3>1. cur < Len(Func.body)
        BY <1>5, <1>10
      <3> QED
        BY <1>2, <1>3, <1>5, <3>1
    <2> QED
      BY <2>1 DEF Func
  <1>11. \A k \in DOMAIN unit' :
           /\ DOMAIN code'[k] = DOMAIN unit'[k].body
           /\ \A o \in DOMAIN unit'[k].body :
                Written(k, o)' => Expected(unit'[k], info'[k], o, code'[k][o])
    BY <1>4, <1>8, <1>9
  <1>12. /\ phase' = "emit" /\ unit' = unit
    BY <1>4
  <1> QED
    BY <1>6, <1>7, <1>8, <1>10, <1>11, <1>12 DEF EmitInv, Layout

(* Where the emitter stands.                                               *)
LEMMA EmittingFacts ==
    ASSUME EmitInv, phase = "emit", fn <= Len(unit)
    PROVE  /\ fn \in DOMAIN unit /\ IsFunction(Func) /\ cur \in DOMAIN Func.body
           /\ cur \in Nat /\ cur >= 1
           /\ Informed(unit, "emit", fn, Info)
           /\ Info.has_prolog \in BOOLEAN
           /\ cur > 1 => /\ Pushes(Func, cur, push_count)
                         /\ Func.body[cur].kind \in Inside => Counted(Func, cur, prepared)
           /\ Func.body[cur].kind = "PROLOG" <=> cur = 1
  <1>1. /\ Len(unit) \in Nat \ {0} /\ DOMAIN unit = 1 .. Len(unit)
        /\ \A k \in DOMAIN unit : IsFunction(unit[k])
    BY UnitFacts DEF EmitInv
  <1>2. /\ fn \in DOMAIN unit /\ IsFunction(Func) /\ cur \in DOMAIN Func.body
    BY <1>1 DEF EmitInv, Func
  <1>3. cur \in Nat /\ cur >= 1
    <2>1. DOMAIN Func.body = 1 .. Len(Func.body) /\ Len(Func.body) \in Nat
      BY <1>2, FunctionFacts
    <2> QED
      BY <1>2, <2>1
  <1>4. Informed(unit, "emit", fn, Info)
    BY <1>2 DEF EmitInv, InfoInv, Info
  <1>5. Info.has_prolog \in BOOLEAN
    <2>1. Info.has_prolog = HasFrame(unit, fn)
      BY <1>4 DEF Informed, Layout
    <2>2. HasFrame(unit, fn) \in BOOLEAN
      BY DEF HasFrame
    <2> QED
      BY <2>1, <2>2
  <1>6. Func.body[cur].kind = "PROLOG" <=> cur = 1
    BY <1>2, NextFacts
  <1> QED
    BY <1>2, <1>3, <1>4, <1>5, <1>6 DEF EmitInv, Func

LEMMA FretNext ==
    ASSUME NEW f, NEW o \in Nat, o >= 1
    PROVE  FretBefore(f, o + 1) <=> FretBefore(f, o) \/ f.body[o].kind = "FRET"
  <1>1. 1 .. (o + 1) - 1 = (1 .. o - 1) \cup {o}
    OBVIOUS
  <1> QED
    BY <1>1 DEF FretBefore

(* push_count follows what is pushed, until a FRET.                        *)
LEMMA PushesNext ==
    ASSUME NEW f, IsFunction(f), NEW o \in DOMAIN f.body, o + 1 \in DOMAIN f.body,
           NEW count \in Int, Pushes(f, o, count), o > 1
    PROVE  /\ f.body[o].kind = "PREPARE" => Pushes(f, o + 1, count + f.body[o].live)
           /\ f.body[o].kind = "CALL" => Pushes(f, o + 1, count - Live(f, o))
           /\ f.body[o].kind = "FRET" => Pushes(f, o + 1, count - f.saved)
           /\ f.body[o].kind \notin {"PREPARE", "CALL", "FRET"} => Pushes(f, o + 1, count)
  <1> DEFINE kind == f.body[o].kind
             before == Waiting(f, o)
             after == Waiting(f, o + 1)
             A == Align(f.saved)
             live == f.body[o].live
  <1>1. /\ o \in Nat /\ f.saved \in Nat /\ live \in Nat
    BY FunctionFacts
  <1>2. A \in Nat
    BY <1>1, Evens
  <1>3. /\ before \in Nat
        /\ after = CASE kind = "PREPARE" -> live
                     [] kind \in Passes -> before
                     [] OTHER -> 0
    BY WaitingFacts
  <1>4. /\ Exactly(f, o + 1) => Exactly(f, o)
        /\ Evenly(f, o + 1) => Evenly(f, o)
        /\ kind = "FRET" /\ Exactly(f, o + 1) => f.saved = 0
        /\ kind = "FRET" /\ Evenly(f, o + 1) => f.saved % 2 = 0
    <2>1. FretBefore(f, o + 1) <=> FretBefore(f, o) \/ kind = "FRET"
      BY <1>1, FretNext
    <2> QED
      BY <2>1 DEF Exactly, Evenly
  <1>5. /\ Exactly(f, o) => count = A + before
        /\ Evenly(f, o) => (count - (A + before)) % 2 = 0
    BY DEF Pushes
  <1>6. before = IF kind \in Inside THEN Live(f, o) ELSE 0
    BY DEF Waiting
  <1>7. ASSUME NEW new \in Int,
               Exactly(f, o + 1) => new = A + after,
               Evenly(f, o + 1) => (new - (A + after)) % 2 = 0
        PROVE  Pushes(f, o + 1, new)
    BY <1>7 DEF Pushes
  <1> HIDE DEF before, after, A, live
  <1>8. ASSUME kind = "PREPARE" PROVE Pushes(f, o + 1, count + live)
    <2>1. before = 0 /\ after = live
      BY <1>3, <1>6, <1>8 DEF Inside, Passes
    <2>2. count + live \in Int
      BY <1>1
    <2>3. (count + live) - (A + after) = count - (A + before)
      BY <1>1, <1>2, <2>1
    <2> QED
      BY <1>1, <1>2, <1>4, <1>5, <1>7, <2>1, <2>2, <2>3
  <1>9. ASSUME kind = "CALL" PROVE Pushes(f, o + 1, count - Live(f, o))
    <2>1. before = Live(f, o) /\ after = 0
      BY <1>3, <1>6, <1>9 DEF Inside, Passes
    <2>2. count - before \in Int
      BY <1>3
    <2>3. (count - before) - (A + after) = count - (A + before)
      BY <1>2, <1>3, <2>1
    <2>4. Exactly(f, o + 1) => count - before = A + after
      BY <1>2, <1>3, <1>4, <1>5, <2>1
    <2> QED
      BY <1>4, <1>5, <1>7, <2>1, <2>2, <2>3, <2>4
  <1>10. ASSUME kind = "FRET" PROVE Pushes(f, o + 1, count - f.saved)
    <2>1. before = 0 /\ after = 0
      BY <1>3, <1>6, <1>10 DEF Inside, Passes
    <2>2. count - f.saved \in Int
      BY <1>1
    <2>3. Exactly(f, o + 1) => count - f.saved = A + after
      BY <1>1, <1>2, <1>4, <1>5, <1>10, <2>1
    <2>4. Evenly(f, o + 1) => ((count - f.saved) - (A + after)) % 2 = 0
      BY <1>1, <1>2, <1>4, <1>5, <1>10, <2>1
    <2> QED
      BY <1>7, <2>2, <2>3, <2>4
  <1>11. ASSUME kind \notin {"PREPARE", "CALL", "FRET"} PROVE Pushes(f, o + 1, count)
    <2>1. after = before
      BY <1>3, <1>6, <1>11 DEF Inside, Passes
    <2> QED
      BY <1>4, <1>5, <1>7, <2>1
  <1> QED
    BY <1>8, <1>9, <1>10, <1>11 DEF live

-----------------------------------------------------------------------------
(* One lemma for each operation the emitter comes to.                      *)

LEMMA PrologEmitted ==
    ASSUME EmitInv, EmitProlog
    PROVE  EmitInv'
  <1>1. phase = "emit" /\ fn <= Len(unit) /\ Func.body[cur].kind = "PROLOG"
    BY DEF EmitProlog, Emitting
  <1>2. IsFunction(Func) /\ cur \in DOMAIN Func.body /\ cur = 1
    BY <1>1, EmittingFacts
  <1> DEFINE instr == [NoCode EXCEPT !.sub = IF Info.has_prolog THEN FrameSize(Func, Info) ELSE 0]
  <1>3. Emitted(instr) /\ push_count' = Align(Func.saved)
    BY DEF EmitProlog
  <1>4. Expected(Func, Info, cur, instr)
    BY <1>1 DEF Expected, NoCode
  <1>5. push_count' \in Int
    BY <1>2, <1>3, FunctionFacts, Evens
  <1>6. ASSUME cur + 1 \in DOMAIN Func.body
        PROVE  /\ Pushes(Func, cur + 1, push_count')
               /\ Func.body[cur + 1].kind \notin Inside
    <2>1. Func.body[cur + 1].kind \notin Inside
      BY <1>1, <1>2, <1>6, NextFacts DEF InCall
    <2>2. Waiting(Func, cur + 1) = 0
      BY <2>1 DEF Waiting
    <2>3. push_count' = Align(Func.saved) + 0 /\ (push_count' - (Align(Func.saved) + 0)) % 2 = 0
      BY <1>3, <1>5
    <2> QED
      BY <2>1, <2>2, <2>3 DEF Pushes
  <1> HIDE DEF instr
  <1> QED
    BY <1>1, <1>3, <1>4, <1>5, <1>6, EmittedStep

(* An operation that is not part of a call and pushes nothing.             *)
LEMMA PlainEmitted ==
    ASSUME EmitInv, phase = "emit", fn <= Len(unit), NEW instr, Emitted(instr),
           Func.body[cur].kind \in {"UREG", "LREG", "ST", "LD", "GETARG", "BRANCH", "OTHER", "RET"},
           Expected(Func, Info, cur, instr), push_count' = push_count
    PROVE  EmitInv'
  <1>1. IsFunction(Func) /\ cur \in DOMAIN Func.body /\ cur > 1 /\ Pushes(Func, cur, push_count)
    BY EmittingFacts
  <1>2. push_count \in Int
    BY DEF EmitInv
  <1>3. ASSUME cur + 1 \in DOMAIN Func.body
        PROVE  Pushes(Func, cur + 1, push_count) /\ Func.body[cur + 1].kind \notin Inside
    BY <1>1, <1>2, <1>3, PushesNext, NextFacts DEF InCall
  <1> QED
    BY <1>1, <1>2, <1>3, EmittedStep

LEMMA AccessEmitted ==
    ASSUME EmitInv, EmitAccess
    PROVE  EmitInv'
  <1> DEFINE pos == RegPos(Func, Info.gp_reg_count, AllocaMem(Func), Func.body[cur].x)
             instr == [NoCode EXCEPT !.base = "bp", !.pos = pos]
  <1>1. /\ phase = "emit" /\ fn <= Len(unit)
        /\ Func.body[cur].kind \in {"UREG", "LREG", "ST", "LD"}
        /\ Emitted(instr) /\ push_count' = push_count
    BY DEF EmitAccess, Emitting
  <1> HIDE DEF pos
  <1>2. instr.base = "bp" /\ instr.pos = pos
    BY DEF NoCode
  <1> HIDE DEF instr
  <1>3. Expected(Func, Info, cur, instr)
    BY <1>1, <1>2 DEF Expected, pos
  <1> QED
    BY <1>1, <1>3, PlainEmitted

LEMMA GetArgEmitted ==
    ASSUME EmitInv, EmitGetArg
    PROVE  EmitInv'
  <1> DEFINE i == Func.body[cur].x.n
             above == -(1 + StackPos(Func, i) + push_count)
             framed == PassedByReg(Func, i) \/ Info.has_prolog
             atbp == [NoCode EXCEPT !.base = "bp", !.pos = Info.spill_pos[i]]
             atsp == [NoCode EXCEPT !.base = "sp", !.pos = above]
             instr == IF framed THEN atbp ELSE atsp
  <1>1. /\ phase = "emit" /\ fn <= Len(unit)
        /\ Func.body[cur].kind = "GETARG"
        /\ Emitted(instr) /\ push_count' = push_count
    BY DEF EmitGetArg, Emitting
  <1>2. IsFunction(Func) /\ cur \in DOMAIN Func.body /\ cur > 1 /\ Pushes(Func, cur, push_count)
    BY <1>1, EmittingFacts
  <1>3. Exactly(Func, cur) => push_count = Align(Func.saved)
    <2>1. Waiting(Func, cur) = 0
      BY <1>1 DEF Waiting, Inside
    <2>2. Align(Func.saved) \in Nat
      BY <1>2, FunctionFacts, Evens
    <2> QED
      BY <1>2, <2>1, <2>2 DEF Pushes
  <1>4. atbp.base = "bp" /\ atbp.pos = Info.spill_pos[i] /\ atsp.base = "sp" /\ atsp.pos = above
    <2> HIDE DEF above, i
    <2> QED
      BY DEF NoCode
  <1> HIDE DEF atbp, atsp
  <1>5. Expected(Func, Info, cur, instr)
    BY <1>1, <1>3, <1>4 DEF Expected
  <1> HIDE DEF instr
  <1> QED
    BY <1>1, <1>5, PlainEmitted

LEMMA OtherEmitted ==
    ASSUME EmitInv, EmitOther
    PROVE  EmitInv'
  <1>1. /\ phase = "emit" /\ fn <= Len(unit)
        /\ Func.body[cur].kind \in {"BRANCH", "OTHER"}
        /\ Emitted(NoCode) /\ push_count' = push_count
    BY DEF EmitOther, Emitting
  <1>2. Expected(Func, Info, cur, NoCode)
    BY <1>1 DEF Expected
  <1> QED
    BY <1>1, <1>2, PlainEmitted

LEMMA RetEmitted ==
    ASSUME EmitInv, EmitRet
    PROVE  EmitInv'
  <1> DEFINE A == Align(Func.saved)
             padding == A - Func.saved
             instr == [NoCode EXCEPT !.add = A, !.pos = padding]
  <1>1. /\ phase = "emit" /\ fn <= Len(unit)
        /\ Func.body[cur].kind \in {"RET", "FRET"}
        /\ Emitted(instr)
        /\ push_count' = IF Func.body[cur].kind = "FRET" THEN push_count - Func.saved
                                                         ELSE push_count
    BY DEF EmitRet, Emitting
  <1>2. instr.add = A /\ instr.pos = padding
    <2> HIDE DEF A, padding
    <2> QED
      BY DEF NoCode
  <1> HIDE DEF instr
  <1>3. Expected(Func, Info, cur, instr)
    BY <1>1, <1>2 DEF Expected
  <1>4. CASE Func.body[cur].kind = "RET"
    BY <1>1, <1>3, <1>4, PlainEmitted
  <1>5. CASE Func.body[cur].kind = "FRET"
    <2>1. IsFunction(Func) /\ cur \in DOMAIN Func.body /\ cur > 1 /\ Pushes(Func, cur, push_count)
      BY <1>1, <1>5, EmittingFacts
    <2>2. push_count \in Int /\ push_count' = push_count - Func.saved
      BY <1>1, <1>5 DEF EmitInv
    <2>3. push_count' \in Int
      BY <2>1, <2>2, FunctionFacts
    <2>4. ASSUME cur + 1 \in DOMAIN Func.body
          PROVE  Pushes(Func, cur + 1, push_count') /\ Func.body[cur + 1].kind \notin Inside
      <3>1. Pushes(Func, cur + 1, push_count - Func.saved)
        BY <1>5, <2>1, <2>2, <2>4, PushesNext
      <3> QED
        BY <1>5, <2>1, <2>2, <2>4, <3>1, NextFacts DEF InCall
    <2> QED
      BY <1>1, <1>3, <2>3, <2>4, EmittedStep
  <1> QED
    BY <1>1, <1>4, <1>5

LEMMA PrepareEmitted ==
    ASSUME EmitInv, EmitPrepare
    PROVE  EmitInv'
  <1> DEFINE live == Func.body[cur].live
             instr == [NoCode EXCEPT !.sub = live]
  <1>1. /\ phase = "emit" /\ fn <= Len(unit)
        /\ Func.body[cur].kind = "PREPARE"
        /\ Emitted(instr) /\ push_count' = push_count + live /\ prepared' = NoArgs
    BY DEF EmitPrepare, Emitting
  <1>2. IsFunction(Func) /\ cur \in DOMAIN Func.body /\ cur > 1 /\ Pushes(Func, cur, push_count)
    BY <1>1, EmittingFacts
  <1>3. Expected(Func, Info, cur, instr)
    BY <1>1 DEF Expected, NoCode
  <1>4. push_count \in Int /\ live \in Nat
    BY <1>2, FunctionFacts DEF EmitInv
  <1> HIDE DEF instr
  <1>5. ASSUME cur + 1 \in DOMAIN Func.body
        PROVE  /\ Pushes(Func, cur + 1, push_count')
               /\ Counted(Func, cur + 1, prepared')
    <2>1. Pushes(Func, cur + 1, push_count + live)
      BY <1>1, <1>2, <1>4, <1>5, PushesNext
    <2>2. Counted(Func, cur + 1, NoArgs)
      BY <1>1, <1>2, <1>5, PassedAtFirst
    <2> QED
      BY <1>1, <2>1, <2>2
  <1>6. push_count' \in Int
    BY <1>1, <1>4
  <1> QED
    BY <1>1, <1>3, <1>5, <1>6, EmittedStep

LEMMA PutArgEmitted ==
    ASSUME EmitInv, EmitPutArg
    PROVE  EmitInv'
  <1> DEFINE class == ClassOf(Func.body[cur].kind)
             count == prepared[class] + 1
             regs  == IF class = "gp" THEN GpArgRegCnt ELSE FpArgRegCnt
             new == [prepared EXCEPT ![class] = count,
                                     !.stack_size = IF count > regs THEN @ + 1 ELSE @]
  <1>1. /\ phase = "emit" /\ fn <= Len(unit)
        /\ Func.body[cur].kind \in Passes
        /\ Emitted(NoCode) /\ push_count' = push_count /\ prepared' = new
    BY DEF EmitPutArg, Emitting, Passes, ClassOf
  <1>2. /\ IsFunction(Func) /\ cur \in DOMAIN Func.body /\ cur > 1 /\ Pushes(Func, cur, push_count)
        /\ Counted(Func, cur, prepared)
    <2>1. Func.body[cur].kind # "PROLOG" /\ Func.body[cur].kind \in Inside
      BY <1>1 DEF Passes, Inside
    <2>2. cur >= 1 /\ cur # 1 /\ cur \in Nat
      BY <1>1, <2>1, EmittingFacts
    <2>3. cur > 1
      BY <2>2
    <2> QED
      BY <1>1, <2>1, <2>3, EmittingFacts
  <1>3. Expected(Func, Info, cur, NoCode)
    BY <1>1 DEF Expected, Passes
  <1>4. push_count \in Int
    BY DEF EmitInv
  <1>5. ASSUME cur + 1 \in DOMAIN Func.body
        PROVE  /\ Pushes(Func, cur + 1, push_count)
               /\ Counted(Func, cur + 1, new)
    <2>1. Pushes(Func, cur + 1, push_count)
      BY <1>1, <1>2, <1>4, <1>5, PushesNext DEF Passes
    <2>2. Counted(Func, cur + 1, new)
      BY <1>1, <1>2, <1>5, CountsOneMore
    <2> QED
      BY <2>1, <2>2
  <1> HIDE DEF new
  <1> QED
    BY <1>1, <1>3, <1>4, <1>5, EmittedStep

LEMMA CallEmitted ==
    ASSUME EmitInv, EmitCall
    PROVE  EmitInv'
  <1> DEFINE correction == Correction(prepared, push_count, Info.has_prolog)
             size == OnStackSize(Func, cur)
             instr == [NoCode EXCEPT !.sub = correction, !.add = correction + prepared.stack_size]
  <1>1. /\ phase = "emit" /\ fn <= Len(unit)
        /\ Func.body[cur].kind = "CALL"
        /\ Emitted(instr) /\ push_count' = push_count - Live(Func, cur)
    BY DEF EmitCall, Emitting
  <1>2. /\ IsFunction(Func) /\ cur \in DOMAIN Func.body /\ cur > 1 /\ Pushes(Func, cur, push_count)
        /\ Func.body[cur].kind \in Inside
        /\ Counted(Func, cur, prepared) /\ Info.has_prolog \in BOOLEAN
    BY <1>1, EmittingFacts DEF Inside
  <1>3. push_count \in Int /\ Live(Func, cur) \in Nat /\ Live(Func, cur) = Waiting(Func, cur)
    BY <1>2, WaitingFacts DEF EmitInv, Waiting
  <1>4. /\ prepared.stack_size = size
        /\ size \in Nat
        /\ size = Max2(prepared.gp - GpArgRegCnt, 0) + Max2(prepared.fp - FpArgRegCnt, 0)
        /\ Max2(prepared.gp - GpArgRegCnt, 0) \in Nat /\ Max2(prepared.fp - FpArgRegCnt, 0) \in Nat
    <2>1. /\ Passed(Func, cur, "gp") \in Nat /\ Passed(Func, cur, "fp") \in Nat
          /\ size = Max2(Passed(Func, cur, "gp") - GpArgRegCnt, 0)
                     + Max2(Passed(Func, cur, "fp") - FpArgRegCnt, 0)
          /\ size \in Nat
      BY <1>2, PassedFacts
    <2>2. /\ prepared.gp = Passed(Func, cur, "gp") /\ prepared.fp = Passed(Func, cur, "fp")
          /\ prepared.stack_size = size
      BY <1>2 DEF Counted
    <2> QED
      BY <2>1, <2>2, CountAssumption DEF Max2
  <1>5. /\ correction \in {0, 1}
        /\ (push_count + (size + correction)) % 2 = IF Info.has_prolog THEN 0 ELSE 1
    <2> HIDE DEF size
    <2> QED
      BY <1>2, <1>3, <1>4, CorrectionFacts
  <1> HIDE DEF correction, size
  <1>6. instr.sub = correction /\ instr.add = correction + size
    BY <1>4 DEF NoCode
  <1>7. ASSUME Evenly(Func, cur) PROVE CallAligned(Func, cur, correction, Info.has_prolog)
    <2> DEFINE real == Align(Func.saved) + Waiting(Func, cur)
    <2>1. real \in Int
      BY <1>2, WaitingFacts, FunctionFacts, Evens
    <2>2. (push_count - real) % 2 = 0
      BY <1>2, <1>7 DEF Pushes
    <2>3. size + correction \in Int
      BY <1>4, <1>5
    <2> HIDE DEF real
    <2>4. (push_count + (size + correction)) % 2 = (real + (size + correction)) % 2
      BY <1>3, <2>1, <2>2, <2>3, SameParity
    <2>5. (real + (size + correction)) % 2 = IF Info.has_prolog THEN 0 ELSE 1
      BY <1>5, <2>4
    <2> QED
      BY <2>5 DEF CallAligned, real, size
  <1> HIDE DEF instr
  <1>8. Expected(Func, Info, cur, instr)
    BY <1>1, <1>5, <1>6, <1>7 DEF Expected, size
  <1>9. push_count' \in Int
    BY <1>1, <1>3
  <1>10. ASSUME cur + 1 \in DOMAIN Func.body
         PROVE  Pushes(Func, cur + 1, push_count') /\ Func.body[cur + 1].kind \notin Inside
    <2>1. Pushes(Func, cur + 1, push_count - Live(Func, cur))
      BY <1>1, <1>2, <1>3, <1>10, PushesNext
    <2> QED
      BY <1>1, <1>2, <1>10, <2>1, NextFacts DEF InCall
  <1> QED
    BY <1>1, <1>8, <1>9, <1>10, EmittedStep

-----------------------------------------------------------------------------
(* The passes before the emitter, and after it.                            *)

Infos(g, h, s) == [gp_reg_count |-> g, has_prolog |-> h, spill_pos |-> s]

LEMMA InfoChanges ==
    ASSUME NEW i, i = InfoOf(i), NEW x
    PROVE  /\ [i EXCEPT !.gp_reg_count = x] = Infos(x, i.has_prolog, i.spill_pos)
           /\ [i EXCEPT !.has_prolog = x] = Infos(i.gp_reg_count, x, i.spill_pos)
           /\ [i EXCEPT !.spill_pos = x] = Infos(i.gp_reg_count, i.has_prolog, x)
  <1> DEFINE g == i.gp_reg_count
             h == i.has_prolog
             s == i.spill_pos
  <1>1. i = [gp_reg_count |-> g, has_prolog |-> h, spill_pos |-> s]
    BY DEF InfoOf
  <1> HIDE DEF g, h, s
  <1>2. [i EXCEPT !.gp_reg_count = x] = Infos(x, h, s)
    BY <1>1 DEF Infos
  <1>3. [i EXCEPT !.has_prolog = x] = Infos(g, x, s)
    BY <1>1 DEF Infos
  <1>4. [i EXCEPT !.spill_pos = x] = Infos(g, h, x)
    BY <1>1 DEF Infos
  <1> QED
    BY <1>2, <1>3, <1>4 DEF g, h, s

LEMMA InfosFields ==
    ASSUME NEW g, NEW h, NEW s
    PROVE  /\ Infos(g, h, s) = InfoOf(Infos(g, h, s))
           /\ Infos(g, h, s).gp_reg_count = g
           /\ Infos(g, h, s).has_prolog = h
           /\ Infos(g, h, s).spill_pos = s
  BY DEF Infos, InfoOf

(* A pass over the functions: nothing is emitted before and after it.      *)
LEMMA LayoutStep ==
    ASSUME EmitInv, phase \in Layout, phase' \in Layout \cup {"emit"}, DOMAIN info' = DOMAIN unit,
           \A k \in DOMAIN unit : Informed(unit, phase', k, info'[k]),
           UNCHANGED <<unit, fn, cur, push_count, prepared, code, runVars>>
    PROVE  EmitInv'
  <1>0. UNCHANGED <<unit, fn, cur, push_count, prepared, code>>
    OBVIOUS
  <1>1. InfoInv'
    BY <1>0 DEF EmitInv, InfoInv
  <1>2. /\ fn = 1 /\ cur = 1 /\ push_count \in Int
        /\ fn \in 1 .. Len(unit) + 1 /\ (fn <= Len(unit) => cur \in DOMAIN unit[fn].body)
        /\ DOMAIN code = DOMAIN unit
        /\ \A k \in DOMAIN unit : DOMAIN code[k] = DOMAIN unit[k].body
    BY DEF EmitInv, Layout
  <1>3. ASSUME NEW k \in DOMAIN unit, NEW o \in DOMAIN unit[k].body
        PROVE  ~Written(k, o)'
    <2>1. k \in Nat \ {0} /\ o \in Nat \ {0}
      <3>1. DOMAIN unit = 1 .. Len(unit) /\ IsFunction(unit[k]) /\ Len(unit) \in Nat
        BY UnitFacts DEF EmitInv
      <3>2. DOMAIN unit[k].body = 1 .. Len(unit[k].body)
        BY <3>1, FunctionFacts
      <3> QED
        BY <3>1, <3>2
    <2> QED
      BY <1>0, <1>2, <2>1 DEF Written, Layout
  <1>4. phase' # "run"
    BY DEF Layout
  <1> QED
    BY <1>0, <1>1, <1>2, <1>3, <1>4 DEF EmitInv

LEMMA CountKept ==
    ASSUME EmitInv, CountRegisters
    PROVE  EmitInv'
  <1>1. phase = "count" /\ phase' = "arguments"
        /\ UNCHANGED <<unit, fn, cur, push_count, prepared, code, runVars>>
    BY DEF CountRegisters
  <1>2. info' = [k \in DOMAIN unit |-> [info[k] EXCEPT !.gp_reg_count = Evened(unit[k])]]
    BY DEF CountRegisters, Evened
  <1>3. ASSUME NEW k \in DOMAIN unit PROVE Informed(unit, "arguments", k, info'[k])
    <2>1. info[k] = InfoOf(info[k])
      BY DEF EmitInv, InfoInv, Informed
    <2>2. info'[k] = Infos(Evened(unit[k]), info[k].has_prolog, info[k].spill_pos)
      BY <1>2, <2>1, InfoChanges
    <2> QED
      BY <2>2, InfosFields DEF Informed, Layout
  <1> QED
    BY <1>1, <1>2, <1>3, LayoutStep DEF Layout

LEMMA ArgumentsKept ==
    ASSUME EmitInv, PrepareArguments
    PROVE  EmitInv'
  <1> DEFINE Spills(k) ==
        [i \in Params(unit[k]) |->
           IF PassedByReg(unit[k], i)
           THEN RegPos(unit[k], info[k].gp_reg_count, AllocaMem(unit[Len(unit)]), [class |-> "arg", n |-> i])
           ELSE -(2 + StackPos(unit[k], i))]
  <1>1. phase = "arguments" /\ phase' = "frameptr"
        /\ UNCHANGED <<unit, fn, cur, push_count, prepared, code, runVars>>
    BY DEF PrepareArguments
  <1>2. info' = [k \in DOMAIN unit |-> [info[k] EXCEPT !.spill_pos = Spills(k)]]
    BY DEF PrepareArguments
  <1>3. ASSUME NEW k \in DOMAIN unit PROVE Informed(unit, "frameptr", k, info'[k])
    <2>1. info[k] = InfoOf(info[k]) /\ info[k].gp_reg_count = Evened(unit[k])
      BY <1>1 DEF EmitInv, InfoInv, Informed
    <2>2. Spills(k) = [i \in Params(unit[k]) |-> SpillPosOf(unit, k, i)]
      BY <2>1 DEF SpillPosOf, ArgCell
    <2> HIDE DEF Spills
    <2>3. info'[k] = Infos(info[k].gp_reg_count, info[k].has_prolog, Spills(k))
      BY <1>2, <2>1, InfoChanges
    <2> QED
      BY <2>1, <2>2, <2>3, InfosFields DEF Informed, Layout
  <1> HIDE DEF Spills
  <1> QED
    BY <1>1, <1>2, <1>3, LayoutStep DEF Layout

LEMMA FramesKept ==
    ASSUME EmitInv, OmitFramePointers
    PROVE  EmitInv'
  <1>1. phase = "frameptr" /\ phase' = "emit"
        /\ UNCHANGED <<unit, fn, cur, push_count, prepared, code, runVars>>
    BY DEF OmitFramePointers
  <1>2. info' = [k \in DOMAIN unit |-> [info[k] EXCEPT !.has_prolog = HasFrame(unit, k)]]
    BY DEF OmitFramePointers, HasFrame
  <1>3. ASSUME NEW k \in DOMAIN unit PROVE Informed(unit, "emit", k, info'[k])
    <2>1. /\ info[k] = InfoOf(info[k]) /\ info[k].gp_reg_count = Evened(unit[k])
          /\ info[k].spill_pos = [n \in Params(unit[k]) |-> SpillPosOf(unit, k, n)]
      BY <1>1 DEF EmitInv, InfoInv, Informed
    <2>2. info'[k] = Infos(info[k].gp_reg_count, HasFrame(unit, k), info[k].spill_pos)
      BY <1>2, <2>1, InfoChanges
    <2> QED
      BY <2>1, <2>2, InfosFields DEF Informed, Layout
  <1> QED
    BY <1>1, <1>2, <1>3, LayoutStep DEF Layout

LEMMA CallKept ==
    ASSUME EmitInv, Call
    PROVE  EmitInv'
  <1>1. /\ phase = "emit" /\ fn > Len(unit) /\ phase' = "run" /\ fn' \in DOMAIN unit
        /\ UNCHANGED <<unit, info, cur, push_count, prepared, code>>
    BY DEF Call
  <1>2. DOMAIN unit = 1 .. Len(unit) /\ Len(unit) \in Nat
    BY UnitFacts DEF EmitInv
  <1>3. InfoInv'
    BY <1>1 DEF EmitInv, InfoInv, Informed, Layout
  <1>4. ASSUME NEW k \in DOMAIN unit, NEW o \in DOMAIN unit[k].body PROVE Written(k, o)
    <2>1. k < fn
      BY <1>1, <1>2 DEF EmitInv
    <2> QED
      BY <1>1, <2>1 DEF Written
  <1> QED
    BY <1>1, <1>3, <1>4 DEF EmitInv, Layout

(* Running code changes none of it.                                        *)
LEMMA EmittedKept ==
    ASSUME EmitInv, UNCHANGED <<unit, phase, emitVars>>
    PROVE  EmitInv'
  <1>1. UNCHANGED <<unit, phase, info, fn, cur, push_count, prepared, code>>
    BY DEF emitVars
  <1>2. InfoInv'
    BY <1>1 DEF EmitInv, InfoInv
  <1>3. \A k \in DOMAIN unit : \A o \in DOMAIN unit[k].body : Written(k, o)' <=> Written(k, o)
    BY <1>1 DEF Written
  <1> QED
    BY <1>1, <1>2, <1>3 DEF EmitInv

LEMMA RunsOnly ==
    ASSUME RunProlog \/ RunStore \/ RunLoad \/ RunPrepare \/ RunArguments \/ RunReturned
             \/ RunBranch \/ RunRet
    PROVE  UNCHANGED <<unit, phase, emitVars>>
  BY DEF RunProlog, RunStore, RunLoad, RunPrepare, RunArguments, RunReturned, RunBranch, RunRet, Ran

LEMMA EmitInitially == Init => EmitInv
  <1> SUFFICES ASSUME Init PROVE EmitInv
    OBVIOUS
  <1>1. InfoInv
    <2>1. ASSUME NEW k \in DOMAIN unit PROVE Informed(unit, phase, k, info[k])
      BY DEF Init, Informed, InfoOf, Layout
    <2>2. DOMAIN info = DOMAIN unit
      BY DEF Init
    <2> QED
      BY <2>1, <2>2 DEF Init, InfoInv, Layout
  <1>2. /\ Len(unit) \in Nat \ {0} /\ DOMAIN unit = 1 .. Len(unit)
        /\ \A k \in DOMAIN unit : IsFunction(unit[k])
    BY <1>1, UnitFacts
  <1>3. 1 \in 1 .. Len(unit) + 1 /\ 1 \in DOMAIN unit[1].body
    <2>1. IsFunction(unit[1])
      BY <1>2
    <2> QED
      BY <1>2, <2>1, FunctionFacts
  <1>4. DOMAIN code = DOMAIN unit /\ \A k \in DOMAIN unit : DOMAIN code[k] = DOMAIN unit[k].body
    BY DEF Init
  <1>5. \A k \in DOMAIN unit : \A o \in DOMAIN unit[k].body : ~Written(k, o)
    BY DEF Init, Written
  <1> QED
    BY <1>1, <1>3, <1>4, <1>5 DEF Init, EmitInv, Layout

LEMMA EmitInductive == EmitInv /\ [Next]_vars => EmitInv'
  <1> SUFFICES ASSUME EmitInv, [Next]_vars PROVE EmitInv'
    OBVIOUS
  <1>1. CASE UNCHANGED vars
    <2>1. UNCHANGED <<unit, phase, emitVars>>
      BY <1>1 DEF vars
    <2> QED
      BY <2>1, EmittedKept
  <1>2. CASE RunProlog \/ RunStore \/ RunLoad \/ RunPrepare \/ RunArguments \/ RunReturned
               \/ RunBranch \/ RunRet
    BY <1>2, RunsOnly, EmittedKept
  <1> QED
    BY <1>1, <1>2, CountKept, ArgumentsKept, FramesKept, PrologEmitted, AccessEmitted,
       GetArgEmitted, PrepareEmitted, PutArgEmitted, CallEmitted, RetEmitted, OtherEmitted,
       CallKept DEF Next

-----------------------------------------------------------------------------
(* The frame: where the cells of a function are.                           *)

FrameOf(f) == Align(((AllocaMem(f) + Evened(f)) + f.fp) + Len(f.params))

(* The words of cell x when BP is at word 1.                               *)
Place(f, x) == 1 + RegPos(f, Evened(f), AllocaMem(f), x)
WordsOf(f, x) == Words(f, x, Place(f, x))

HasPlace(f, x) ==
    \/ x.class = "gp" /\ x.n < f.gp
    \/ x.class = "fp" /\ x.n < f.fp
    \/ x.class = "arg" /\ x.n \in Params(f) /\ f.gp + f.fp > 0
    \/ x.class = "mem" /\ x.n \in DOMAIN f.allocas

(* The register the word of argument 0 is taken for as well.               *)
LastRegister(f, x) ==
    \/ x.class = "fp" /\ x.n = f.fp - 1
    \/ x.class = "gp" /\ x.n = f.gp - 1 /\ f.fp = 0 /\ f.gp % 2 = 0

Clash(f, x, y) == x.class = "arg" /\ x.n = 0 /\ LastRegister(f, y)

LEMMA FrameFacts ==
    ASSUME NEW f, IsFunction(f)
    PROVE  /\ AllocaMem(f) \in Nat /\ Evened(f) \in Nat /\ f.fp \in Nat /\ f.gp \in Nat
           /\ Len(f.params) \in Nat
           /\ Evened(f) = f.gp \/ Evened(f) = f.gp + 1
           /\ f.fp = 0 => Evened(f) = f.gp + (f.gp % 2)
           /\ FrameOf(f) \in Nat /\ FrameOf(f) % 2 = 0
           /\ FrameOf(f) >= ((AllocaMem(f) + Evened(f)) + f.fp) + Len(f.params)
  <1>1. f.gp \in Nat /\ f.fp \in Nat /\ f.allocas \in Seq(Nat) /\ Signature(f)
    BY FunctionFacts
  <1>2. Len(f.params) \in Nat /\ Len(f.allocas) \in 0 .. Len(f.allocas)
    BY <1>1 DEF Signature
  <1>3. AllocaMem(f) \in Nat
    BY <1>1, <1>2, BlockEnds DEF AllocaMem
  <1>4. /\ Evened(f) \in Nat /\ (Evened(f) = f.gp \/ Evened(f) = f.gp + 1)
        /\ f.fp = 0 => Evened(f) = f.gp + (f.gp % 2)
    BY <1>1 DEF Evened
  <1> DEFINE n == ((AllocaMem(f) + Evened(f)) + f.fp) + Len(f.params)
  <1>5. n \in Nat
    BY <1>1, <1>2, <1>3, <1>4
  <1>6. Align(n) \in Nat /\ Align(n) % 2 = 0 /\ Align(n) >= n
    <2> HIDE DEF n
    <2>1. Align(n) \in Nat /\ Align(n) % 2 = 0 /\ (Align(n) = n \/ Align(n) = n + 1)
      BY <1>5, Evens
    <2> QED
      BY <1>5, <2>1
  <1> QED
    BY <1>1, <1>2, <1>3, <1>4, <1>6 DEF FrameOf

(* Where a block of memory is.                                             *)
LEMMA BlockPlace ==
    ASSUME NEW f, IsFunction(f), NEW k \in DOMAIN f.allocas
    PROVE  /\ k \in Nat \ {0} /\ k <= Len(f.allocas) /\ Len(f.allocas) \in Nat
           /\ AllocaEnd(f)[k] \in Nat /\ AllocaEnd(f)[k - 1] \in Nat
           /\ AllocaEnd(f)[k] - BlockSize(f.allocas[k]) = AllocaEnd(f)[k - 1]
           /\ AllocaEnd(f)[k] <= AllocaMem(f)
  <1>1. f.allocas \in Seq(Nat)
    BY FunctionFacts
  <1>2. Len(f.allocas) \in Nat /\ k \in 1 .. Len(f.allocas) /\ f.allocas[k] \in Nat
    BY <1>1
  <1>3. k \in 0 .. Len(f.allocas) /\ k - 1 \in 0 .. Len(f.allocas)
        /\ Len(f.allocas) \in 0 .. Len(f.allocas) /\ k <= Len(f.allocas)
    BY <1>2
  <1>4. AllocaEnd(f)[k] \in Nat /\ AllocaEnd(f)[k - 1] \in Nat
        /\ AllocaEnd(f)[k] = AllocaEnd(f)[k - 1] + BlockSize(f.allocas[k])
    BY <1>1, <1>2, <1>3, BlockEnds
  <1>5. BlockSize(f.allocas[k]) \in Nat
    BY <1>2, BlockSizes
  <1>6. AllocaEnd(f)[k] <= AllocaMem(f)
    BY <1>1, <1>3, BlocksGrow DEF AllocaMem
  <1> QED
    BY <1>2, <1>4, <1>5, <1>6

(* The words of a cell, class by class.                                    *)
LEMMA PlaceFacts ==
    ASSUME NEW f, IsFunction(f), NEW x \in Cell, HasPlace(f, x)
    PROVE  /\ x.n \in Nat
           /\ \/ /\ x.class = "gp" /\ x.n < f.gp
                 /\ WordsOf(f, x) = {(x.n + 2) + AllocaMem(f)}
              \/ /\ x.class = "fp" /\ x.n < f.fp
                 /\ WordsOf(f, x) = {((Evened(f) + x.n) + 2) + AllocaMem(f)}
              \/ /\ x.class = "arg" /\ x.n < Len(f.params) /\ f.gp + f.fp > 0
                 /\ WordsOf(f, x) = {((x.n + 1) + Evened(f)) + (f.fp + AllocaMem(f))}
              \/ /\ x.class = "mem" /\ x.n \in DOMAIN f.allocas
                 /\ WordsOf(f, x) = AllocaEnd(f)[x.n - 1] + 2 .. AllocaEnd(f)[x.n] + 1
  <1>1. x.n \in Nat
    BY DEF Cell
  <1>2. AllocaMem(f) \in Nat /\ Evened(f) \in Nat /\ f.fp \in Nat /\ Len(f.params) \in Nat
    BY FrameFacts
  <1>3. ASSUME x.class = "gp" PROVE WordsOf(f, x) = {(x.n + 2) + AllocaMem(f)}
    <2>1. Place(f, x) = (x.n + 2) + AllocaMem(f)
      BY <1>1, <1>2, <1>3 DEF Place, RegPos
    <2> QED
      BY <1>3, <2>1 DEF WordsOf, Words
  <1>4. ASSUME x.class = "fp" PROVE WordsOf(f, x) = {((Evened(f) + x.n) + 2) + AllocaMem(f)}
    <2>1. Place(f, x) = ((Evened(f) + x.n) + 2) + AllocaMem(f)
      BY <1>1, <1>2, <1>4 DEF Place, RegPos
    <2> QED
      BY <1>4, <2>1 DEF WordsOf, Words
  <1>5. ASSUME x.class = "arg"
        PROVE  WordsOf(f, x) = {((x.n + 1) + Evened(f)) + (f.fp + AllocaMem(f))}
    <2>1. Place(f, x) = ((x.n + 1) + Evened(f)) + (f.fp + AllocaMem(f))
      BY <1>1, <1>2, <1>5 DEF Place, RegPos
    <2> QED
      BY <1>5, <2>1 DEF WordsOf, Words
  <1>6. ASSUME x.class = "mem", x.n \in DOMAIN f.allocas
        PROVE  WordsOf(f, x) = AllocaEnd(f)[x.n - 1] + 2 .. AllocaEnd(f)[x.n] + 1
    <2>1. Place(f, x) = 1 + AllocaEnd(f)[x.n]
      BY <1>6 DEF Place, RegPos
    <2>2. /\ AllocaEnd(f)[x.n] \in Nat /\ AllocaEnd(f)[x.n - 1] \in Nat
          /\ AllocaEnd(f)[x.n] - BlockSize(f.allocas[x.n]) = AllocaEnd(f)[x.n - 1]
      BY <1>6, BlockPlace
    <2>3. BlockSize(f.allocas[x.n]) \in Nat
      <3>1. f.allocas[x.n] \in Nat
        BY <1>6, FunctionFacts
      <3> QED
        BY <3>1, BlockSizes
    <2>4. (1 + AllocaEnd(f)[x.n]) - BlockSize(f.allocas[x.n]) + 1 = AllocaEnd(f)[x.n - 1] + 2
          /\ 1 + AllocaEnd(f)[x.n] = AllocaEnd(f)[x.n] + 1
      BY <2>2, <2>3
    <2>5. WordsOf(f, x) = (Place(f, x) - BlockSize(f.allocas[x.n]) + 1) .. Place(f, x)
      BY <1>6 DEF WordsOf, Words
    <2> QED
      BY <2>1, <2>4, <2>5
  <1>7. x.class = "arg" => (x.n < Len(f.params) /\ f.gp + f.fp > 0) 
    BY <1>1, <1>2 DEF HasPlace, Params
  <1> QED
    BY <1>1, <1>3, <1>4, <1>5, <1>6, <1>7 DEF HasPlace

LEMMA WordInFrame ==
    ASSUME NEW a \in Nat, NEW e \in Nat, NEW g \in Nat, NEW p \in Nat, NEW l \in Nat,
           NEW s \in Nat, NEW n \in Nat, NEW w, s >= ((a + e) + p) + l, e = g \/ e = g + 1,
           \/ n < g /\ w = (n + 2) + a
           \/ n < p /\ w = ((e + n) + 2) + a
           \/ n < l /\ g + p > 0 /\ w = ((n + 1) + e) + (p + a)
    PROVE  w \in 2 .. 1 + s /\ w > a + 1
  <1>1. CASE n < g /\ w = (n + 2) + a
    BY <1>1
  <1>2. CASE n < p /\ w = ((e + n) + 2) + a
    BY <1>2
  <1>3. CASE n < l /\ g + p > 0 /\ w = ((n + 1) + e) + (p + a)
    BY <1>3
  <1> QED
    BY <1>1, <1>2, <1>3

(* All of them are in the frame, below the word of BP.                     *)
LEMMA PlacesInFrame ==
    ASSUME NEW f, IsFunction(f), NEW x \in Cell, HasPlace(f, x), NEW w \in WordsOf(f, x)
    PROVE  w \in 2 .. 1 + FrameOf(f)
  <1>1. /\ AllocaMem(f) \in Nat /\ Evened(f) \in Nat /\ f.fp \in Nat /\ f.gp \in Nat
        /\ Len(f.params) \in Nat /\ FrameOf(f) \in Nat
        /\ Evened(f) = f.gp \/ Evened(f) = f.gp + 1
        /\ FrameOf(f) >= ((AllocaMem(f) + Evened(f)) + f.fp) + Len(f.params)
    BY FrameFacts
  <1>2. CASE x.class = "mem"
    <2>1. x.n \in DOMAIN f.allocas /\ w \in AllocaEnd(f)[x.n - 1] + 2 .. AllocaEnd(f)[x.n] + 1
      BY <1>2, PlaceFacts
    <2>2. /\ AllocaEnd(f)[x.n] \in Nat /\ AllocaEnd(f)[x.n - 1] \in Nat
          /\ AllocaEnd(f)[x.n] <= AllocaMem(f)
      BY <2>1, BlockPlace
    <2>3. w \in Nat /\ w >= 2 /\ w <= AllocaMem(f) + 1
      BY <1>1, <2>1, <2>2
    <2> QED
      BY <1>1, <2>3
  <1>3. CASE x.class # "mem"
    <2>1. /\ x.n \in Nat
          /\ \/ x.n < f.gp /\ w = (x.n + 2) + AllocaMem(f)
             \/ x.n < f.fp /\ w = ((Evened(f) + x.n) + 2) + AllocaMem(f)
             \/ /\ x.n < Len(f.params) /\ f.gp + f.fp > 0
                /\ w = ((x.n + 1) + Evened(f)) + (f.fp + AllocaMem(f))
      BY <1>3, PlaceFacts
    <2> DEFINE a == AllocaMem(f)
               e == Evened(f)
               l == Len(f.params)
               s == FrameOf(f)
               g == f.gp
               p == f.fp
               n == x.n
    <2>2. /\ a \in Nat /\ e \in Nat /\ l \in Nat /\ s \in Nat /\ g \in Nat /\ p \in Nat /\ n \in Nat
          /\ s >= ((a + e) + p) + l /\ (e = g \/ e = g + 1)
          /\ \/ n < g /\ w = (n + 2) + a
             \/ n < p /\ w = ((e + n) + 2) + a
             \/ n < l /\ g + p > 0 /\ w = ((n + 1) + e) + (p + a)
      BY <1>1, <2>1
    <2> HIDE DEF a, e, l, s, g, p, n
    <2>3. w \in 2 .. 1 + s
      BY <2>2, WordInFrame
    <2> QED
      BY <2>3 DEF s
  <1> QED
    BY <1>2, <1>3

LEMMA RangesApart ==
    ASSUME NEW a \in Nat, NEW b \in Nat, NEW c \in Nat, NEW d \in Nat, b <= c \/ d <= a,
           NEW w \in a + 2 .. b + 1
    PROVE  w \notin c + 2 .. d + 1
  OBVIOUS

LEMMA RegistersApart ==
    ASSUME NEW a \in Nat, NEW e \in Nat, NEW g \in Nat, NEW p \in Nat,
           NEW m \in Nat, NEW n \in Nat, NEW class, NEW other, NEW w,
           e = g \/ e = g + 1, p = 0 => e = g + (g % 2), m # n \/ class # other,
           \/ class = "gp" /\ m < g /\ w = (m + 2) + a
           \/ class = "fp" /\ m < p /\ w = ((e + m) + 2) + a
           \/ class = "arg" /\ g + p > 0 /\ w = ((m + 1) + e) + (p + a),
           \/ other = "gp" /\ n < g /\ w = (n + 2) + a
           \/ other = "fp" /\ n < p /\ w = ((e + n) + 2) + a
           \/ other = "arg" /\ g + p > 0 /\ w = ((n + 1) + e) + (p + a)
    PROVE  \/ /\ class = "arg" /\ m = 0
              /\ \/ other = "fp" /\ n = p - 1
                 \/ other = "gp" /\ n = g - 1 /\ p = 0 /\ g % 2 = 0
           \/ /\ other = "arg" /\ n = 0
              /\ \/ class = "fp" /\ m = p - 1
                 \/ class = "gp" /\ m = g - 1 /\ p = 0 /\ g % 2 = 0
  <1>1. g % 2 \in {0, 1}
    OBVIOUS
  <1>2. CASE class = "gp"
    BY <1>1, <1>2
  <1>3. CASE class = "fp"
    BY <1>1, <1>3
  <1>4. CASE class = "arg"
    BY <1>1, <1>4
  <1> QED
    BY <1>2, <1>3, <1>4

(* No word belongs to two cells, but for the one of argument 0.            *)
LEMMA PlacesApart ==
    ASSUME NEW f, IsFunction(f), NEW x \in Cell, HasPlace(f, x), NEW y \in Cell, HasPlace(f, y),
           x # y, ~Clash(f, x, y), ~Clash(f, y, x)
    PROVE  WordsOf(f, x) \cap WordsOf(f, y) = {}
  <1>1. /\ AllocaMem(f) \in Nat /\ Evened(f) \in Nat /\ f.fp \in Nat /\ f.gp \in Nat
        /\ Len(f.params) \in Nat
        /\ Evened(f) = f.gp \/ Evened(f) = f.gp + 1
        /\ f.fp = 0 => Evened(f) = f.gp + (f.gp % 2)
    BY FrameFacts
  <1>2. x.n # y.n \/ x.class # y.class
    BY DEF Cell
  <1>3. ASSUME NEW a \in Cell, HasPlace(f, a), NEW b \in Cell, HasPlace(f, b), a # b,
               a.class = "mem"
        PROVE  WordsOf(f, a) \cap WordsOf(f, b) = {}
    <2>1. /\ a.n \in DOMAIN f.allocas
          /\ WordsOf(f, a) = AllocaEnd(f)[a.n - 1] + 2 .. AllocaEnd(f)[a.n] + 1
      BY <1>3, PlaceFacts
    <2>2. /\ AllocaEnd(f)[a.n] \in Nat /\ AllocaEnd(f)[a.n - 1] \in Nat
          /\ AllocaEnd(f)[a.n] <= AllocaMem(f)
          /\ a.n \in Nat \ {0} /\ a.n <= Len(f.allocas) /\ Len(f.allocas) \in Nat
      BY <2>1, BlockPlace
    <2>3. CASE b.class = "mem"
      <3>1. /\ b.n \in DOMAIN f.allocas
            /\ WordsOf(f, b) = AllocaEnd(f)[b.n - 1] + 2 .. AllocaEnd(f)[b.n] + 1
        BY <1>3, <2>3, PlaceFacts
      <3>2. /\ AllocaEnd(f)[b.n] \in Nat /\ AllocaEnd(f)[b.n - 1] \in Nat
            /\ b.n \in Nat \ {0} /\ b.n <= Len(f.allocas)
        BY <3>1, BlockPlace
      <3>3. a.n # b.n
        BY <1>3, <2>3 DEF Cell
      <3>4. \A j, k \in 0 .. Len(f.allocas) : j <= k => AllocaEnd(f)[j] <= AllocaEnd(f)[k]
        BY FunctionFacts, BlocksGrow
      <3>5. a.n < b.n => AllocaEnd(f)[a.n] <= AllocaEnd(f)[b.n - 1]
        BY <2>2, <3>2, <3>4
      <3>6. b.n < a.n => AllocaEnd(f)[b.n] <= AllocaEnd(f)[a.n - 1]
        BY <2>2, <3>2, <3>4
      <3>7. SUFFICES ASSUME NEW w \in WordsOf(f, a), w \in WordsOf(f, b) PROVE FALSE
        OBVIOUS
      <3>8. /\ w \in AllocaEnd(f)[a.n - 1] + 2 .. AllocaEnd(f)[a.n] + 1
            /\ w \in AllocaEnd(f)[b.n - 1] + 2 .. AllocaEnd(f)[b.n] + 1
        BY <2>1, <3>1, <3>7
      <3>9. AllocaEnd(f)[a.n] <= AllocaEnd(f)[b.n - 1] \/ AllocaEnd(f)[b.n] <= AllocaEnd(f)[a.n - 1]
        BY <2>2, <3>2, <3>3, <3>5, <3>6
      <3> QED
        BY <2>2, <3>2, <3>8, <3>9, RangesApart
    <2>4. CASE b.class # "mem"
      <3>1. \A w \in WordsOf(f, b) : w \in Int /\ w > AllocaMem(f) + 1
        <4>1. SUFFICES ASSUME NEW w \in WordsOf(f, b) PROVE w \in Int /\ w > AllocaMem(f) + 1
          OBVIOUS
        <4>2. /\ b.n \in Nat
              /\ \/ b.n < f.gp /\ w = (b.n + 2) + AllocaMem(f)
                 \/ b.n < f.fp /\ w = ((Evened(f) + b.n) + 2) + AllocaMem(f)
                 \/ /\ b.n < Len(f.params) /\ f.gp + f.fp > 0
                    /\ w = ((b.n + 1) + Evened(f)) + (f.fp + AllocaMem(f))
          BY <1>3, <2>4, <4>1, PlaceFacts
        <4> DEFINE m == AllocaMem(f)
                   e == Evened(f)
                   l == Len(f.params)
                   s == FrameOf(f)
                   g == f.gp
                   p == f.fp
                   n == b.n
        <4>3. /\ m \in Nat /\ e \in Nat /\ l \in Nat /\ s \in Nat /\ g \in Nat /\ p \in Nat /\ n \in Nat
              /\ s >= ((m + e) + p) + l /\ (e = g \/ e = g + 1)
              /\ \/ n < g /\ w = (n + 2) + m
                 \/ n < p /\ w = ((e + n) + 2) + m
                 \/ n < l /\ g + p > 0 /\ w = ((n + 1) + e) + (p + m)
          BY <4>2, FrameFacts
        <4> HIDE DEF m, e, l, s, g, p, n
        <4>4. w \in 2 .. 1 + s /\ w > m + 1
          BY <4>3, WordInFrame
        <4>5. w \in Int
          BY <4>3, <4>4
        <4> QED
          BY <4>4, <4>5 DEF m
      <3>2. \A w \in WordsOf(f, a) : w \in Int /\ w <= AllocaMem(f) + 1
        BY <1>1, <2>1, <2>2
      <3> QED
        BY <1>1, <3>1, <3>2
    <2> QED
      BY <2>3, <2>4
  <1>4. CASE x.class = "mem"
    BY <1>3, <1>4
  <1>5. CASE y.class = "mem"
    <2>1. WordsOf(f, y) \cap WordsOf(f, x) = {}
      BY <1>3, <1>5
    <2> QED
      BY <2>1
  <1>6. CASE x.class # "mem" /\ y.class # "mem"
    <2>0. SUFFICES ASSUME NEW w \in WordsOf(f, x), w \in WordsOf(f, y) PROVE FALSE
      OBVIOUS
    <2>1. /\ x.n \in Nat
          /\ \/ x.class = "gp" /\ x.n < f.gp /\ w = (x.n + 2) + AllocaMem(f)
             \/ x.class = "fp" /\ x.n < f.fp /\ w = ((Evened(f) + x.n) + 2) + AllocaMem(f)
             \/ /\ x.class = "arg" /\ f.gp + f.fp > 0
                /\ w = ((x.n + 1) + Evened(f)) + (f.fp + AllocaMem(f))
      BY <1>6, <2>0, PlaceFacts
    <2>2. /\ y.n \in Nat
          /\ \/ y.class = "gp" /\ y.n < f.gp /\ w = (y.n + 2) + AllocaMem(f)
             \/ y.class = "fp" /\ y.n < f.fp /\ w = ((Evened(f) + y.n) + 2) + AllocaMem(f)
             \/ /\ y.class = "arg" /\ f.gp + f.fp > 0
                /\ w = ((y.n + 1) + Evened(f)) + (f.fp + AllocaMem(f))
      BY <1>6, <2>0, PlaceFacts
    <2>3. /\ ~(x.class = "arg" /\ x.n = 0 /\ y.class = "fp" /\ y.n = f.fp - 1)
          /\ ~(x.class = "arg" /\ x.n = 0 /\ y.class = "gp" /\ y.n = f.gp - 1 /\ f.fp = 0 /\ f.gp % 2 = 0)
          /\ ~(y.class = "arg" /\ y.n = 0 /\ x.class = "fp" /\ x.n = f.fp - 1)
          /\ ~(y.class = "arg" /\ y.n = 0 /\ x.class = "gp" /\ x.n = f.gp - 1 /\ f.fp = 0 /\ f.gp % 2 = 0)
      BY DEF Clash, LastRegister
    <2> DEFINE a == AllocaMem(f)
               e == Evened(f)
               g == f.gp
               p == f.fp
               m == x.n
               n == y.n
               class == x.class
               other == y.class
    <2>4. /\ a \in Nat /\ e \in Nat /\ g \in Nat /\ p \in Nat /\ m \in Nat /\ n \in Nat
          /\ (e = g \/ e = g + 1) /\ (p = 0 => e = g + (g % 2))
          /\ m # n \/ class # other
      BY <1>1, <1>2, <2>1, <2>2
    <2>5. /\ \/ class = "gp" /\ m < g /\ w = (m + 2) + a
             \/ class = "fp" /\ m < p /\ w = ((e + m) + 2) + a
             \/ class = "arg" /\ g + p > 0 /\ w = ((m + 1) + e) + (p + a)
          /\ \/ other = "gp" /\ n < g /\ w = (n + 2) + a
             \/ other = "fp" /\ n < p /\ w = ((e + n) + 2) + a
             \/ other = "arg" /\ g + p > 0 /\ w = ((n + 1) + e) + (p + a)
      BY <2>1, <2>2
    <2>6. /\ ~(class = "arg" /\ m = 0 /\ other = "fp" /\ n = p - 1)
          /\ ~(class = "arg" /\ m = 0 /\ other = "gp" /\ n = g - 1 /\ p = 0 /\ g % 2 = 0)
          /\ ~(other = "arg" /\ n = 0 /\ class = "fp" /\ m = p - 1)
          /\ ~(other = "arg" /\ n = 0 /\ class = "gp" /\ m = g - 1 /\ p = 0 /\ g % 2 = 0)
      BY <2>3
    <2> HIDE DEF a, e, g, p, m, n, class, other
    <2> QED
      BY <2>4, <2>5, <2>6, RegistersApart
  <1> QED
    BY <1>4, <1>5, <1>6

(* An operation on a cell names one that has a place.                      *)
LEMMA AccessHasPlace ==
    ASSUME NEW f, IsFunction(f), NEW o \in DOMAIN f.body,
           f.body[o].kind \in {"UREG", "LREG", "ST", "LD", "GETARG"}
    PROVE  f.body[o].x \in Cell /\ HasPlace(f, f.body[o].x)
  <1>1. f.body[o].x \in Cell
    BY FunctionFacts
  <1>2. LET op == f.body[o] IN
        /\ op.kind \in {"UREG", "LREG"} =>
             \/ op.x.class = "gp" /\ op.x.n < f.gp
             \/ op.x.class = "fp" /\ op.x.n < f.fp
             \/ /\ op.x.class = "arg" /\ op.x.n \in Params(f) /\ f.gp + f.fp > 0
                /\ PassedByReg(f, op.x.n)
        /\ op.kind \in {"ST", "LD"} =>
             op.x.class = "mem" /\ op.x.n \in DOMAIN f.allocas
        /\ op.kind = "GETARG" =>
             op.x.class = "arg" /\ op.x.n \in Params(f) /\ f.gp + f.fp > 0
    BY DEF IsFunction, WellFormedFunction
  <1> QED
    BY <1>1, <1>2 DEF HasPlace

-----------------------------------------------------------------------------
(* The stack of a running function.                                        *)

StackWords == {"nothing", "bp", "saved", "live", "out", "gp", "fp", "arg", "mem"} \X Int

(* The last word above the saved registers, and the last one of the prolog *)
Bottom(i) == IF i.has_prolog THEN 1 ELSE 0
Below(f, i) == Bottom(i) + (IF i.has_prolog THEN FrameOf(f) ELSE 0)
Base(f, i) == Below(f, i) + Align(f.saved)

(* SP when control is at o; passed is what a CALL has pushed.              *)
Depth(f, i, o, passed) == (Base(f, i) + Waiting(f, o)) + passed

SavedIn(f, i, s) ==
    /\ i.has_prolog => s[1] = <<"bp", 0>>
    /\ \A n \in 1 .. f.saved : s[Below(f, i) + n] = <<"saved", n>>

LiveIn(f, i, o, s) == \A n \in 1 .. Waiting(f, o) : s[Base(f, i) + n] = <<"live", n>>

(* The CALL at o, whose code is c, has pushed its arguments.               *)
Pushed(f, o, c) == c.sub + OnStackSize(f, o)

ArgumentsIn(f, i, o, c, s) ==
    \A n \in 1 .. OnStackSize(f, o) :
      s[((Base(f, i) + Waiting(f, o)) + c.sub) + n] = OnStack(ArgKinds(f, o))[n]

StoredBy(f, x) == \E o \in DOMAIN f.body : f.body[o].kind \in {"UREG", "ST"} /\ f.body[o].x = x

OnStackNow(f, i, o, c) ==
    /\ bp = Bottom(i)
    /\ stack \in Seq(StackWords)
    /\ Len(stack) = sp
    /\ sp = Depth(f, i, o, IF calling THEN Pushed(f, o, c) ELSE 0)
    /\ SavedIn(f, i, stack)
    /\ LiveIn(f, i, o, stack)
    /\ calling => ArgumentsIn(f, i, o, c, stack)
    /\ \A x \in stored : StoredBy(f, x)

RunInv ==
    /\ EmitInv
    /\ calling \in BOOLEAN
    /\ phase # "run" => at = 0
    /\ at \in {0, 1} => ~calling /\ sp = 0 /\ bp = 0 /\ stack = <<>> /\ stored = {}
    /\ phase = "run" => at \in {-1} \cup DOMAIN Func.body
    /\ calling => at \in DOMAIN Func.body /\ Func.body[at].kind = "CALL"
    /\ phase = "run" /\ at > 1 => OnStackNow(Func, Info, at, Instr)

Joined(r, s, t) == r = s \o t

(* After the first k words of r come those of t.                           *)
Follows(r, k, t) == \A n \in 1 .. Len(t) : r[k + n] = t[n]

LEMMA ConcatFacts ==
    ASSUME NEW s \in Seq(StackWords), NEW t \in Seq(StackWords), NEW r, Joined(r, s, t)
    PROVE  /\ r \in Seq(StackWords) /\ Len(r) = Len(s) + Len(t)
           /\ \A n \in 1 .. Len(s) : r[n] = s[n]
           /\ Follows(r, Len(s), t)
  BY DEF Joined, Follows

LEMMA SeveralFacts ==
    ASSUME NEW n \in Nat, NEW class \in {"saved", "live"}
    PROVE  /\ Several(class, n) \in Seq(StackWords) /\ Len(Several(class, n)) = n
           /\ \A i \in 1 .. n : Several(class, n)[i] = <<class, i>>
           /\ Blank(n) \in Seq(StackWords) /\ Len(Blank(n)) = n
  <1>1. \A i \in 1 .. n : <<class, i>> \in StackWords
    BY DEF StackWords
  <1>2. Nothing \in StackWords
    BY DEF Nothing, StackWords
  <1>3. Several(class, n) \in [1 .. n -> StackWords]
    BY <1>1 DEF Several
  <1>4. Blank(n) \in [1 .. n -> StackWords]
    BY <1>2 DEF Blank
  <1>5. \A i \in 1 .. n : Several(class, n)[i] = <<class, i>>
    BY DEF Several
  <1> HIDE DEF Several, Blank, StackWords
  <1>6. \A T : \A s \in [1 .. n -> T] : s \in Seq(T) /\ Len(s) = n
    OBVIOUS
  <1> QED
    BY <1>3, <1>4, <1>5, <1>6

(* What is known of the function that runs.                                *)
LEMMA RunningFacts ==
    ASSUME RunInv, phase = "run"
    PROVE  /\ IsFunction(Func) /\ fn \in DOMAIN unit
           /\ Info.gp_reg_count = Evened(Func)
           /\ Info.has_prolog = HasFrame(unit, fn) /\ Info.has_prolog \in BOOLEAN
           /\ Info.spill_pos = [n \in Params(Func) |-> SpillPosOf(unit, fn, n)]
           /\ UsesFrame(Func) => Info.has_prolog
           /\ FrameSize(Func, Info) = FrameOf(Func)
           /\ \A o \in DOMAIN Func.body : Expected(Func, Info, o, code[fn][o])
           /\ DOMAIN Func.body = 1 .. Len(Func.body) /\ Len(Func.body) \in Nat \ {0}
  <1>1. /\ DOMAIN unit = 1 .. Len(unit) /\ fn \in DOMAIN unit
        /\ IsFunction(unit[fn])
    BY UnitFacts DEF RunInv, EmitInv
  <1>2. Informed(unit, phase, fn, info[fn])
    BY <1>1 DEF RunInv, EmitInv, InfoInv
  <1>3. /\ Info.gp_reg_count = Evened(Func)
        /\ Info.has_prolog = HasFrame(unit, fn)
        /\ Info.spill_pos = [n \in Params(Func) |-> SpillPosOf(unit, fn, n)]
    BY <1>2 DEF Informed, Info, Func, Layout
  <1>4. HasFrame(unit, fn) \in BOOLEAN /\ (UsesFrame(Func) => HasFrame(unit, fn))
    BY <1>1 DEF HasFrame, Func
  <1>5. FrameSize(Func, Info) = FrameOf(Func)
    BY <1>3 DEF FrameSize, FrameOf
  <1>6. \A o \in DOMAIN Func.body : Expected(Func, Info, o, code[fn][o])
    BY <1>1 DEF RunInv, EmitInv, Written, Func, Info
  <1>7. DOMAIN Func.body = 1 .. Len(Func.body) /\ Len(Func.body) \in Nat \ {0}
    BY <1>1, FunctionFacts DEF Func
  <1> QED
    BY <1>1, <1>3, <1>4, <1>5, <1>6, <1>7 DEF Func

LEMMA DepthFacts ==
    ASSUME RunInv, phase = "run", NEW o \in DOMAIN Func.body
    PROVE  /\ Bottom(Info) \in {0, 1}
           /\ Info.has_prolog => Bottom(Info) = 1
           /\ Func.saved \in Nat /\ Align(Func.saved) \in Nat /\ Func.saved <= Align(Func.saved)
           /\ FrameOf(Func) \in Nat
           /\ Below(Func, Info) \in Nat /\ Base(Func, Info) \in Nat
           /\ Bottom(Info) <= Below(Func, Info)
           /\ Base(Func, Info) = Below(Func, Info) + Align(Func.saved)
           /\ Info.has_prolog => Below(Func, Info) = 1 + FrameOf(Func)
           /\ ~Info.has_prolog => Below(Func, Info) = 0
           /\ Waiting(Func, o) \in Nat
  <1>1. IsFunction(Func) /\ Info.has_prolog \in BOOLEAN
    BY RunningFacts
  <1>2. Func.saved \in Nat
    BY <1>1, FunctionFacts
  <1>3. Align(Func.saved) \in Nat /\ (Align(Func.saved) = Func.saved \/ Align(Func.saved) = Func.saved + 1)
    BY <1>2, Evens
  <1>4. FrameOf(Func) \in Nat
    BY <1>1, FrameFacts
  <1>5. Waiting(Func, o) \in Nat
    BY <1>1, WaitingFacts
  <1>6. /\ Bottom(Info) \in {0, 1} /\ (Info.has_prolog => Bottom(Info) = 1)
        /\ (Info.has_prolog => Below(Func, Info) = 1 + FrameOf(Func))
        /\ (~Info.has_prolog => Below(Func, Info) = 0 /\ Bottom(Info) = 0)
    BY <1>1, <1>4 DEF Bottom, Below
  <1>7. Below(Func, Info) \in Nat /\ Bottom(Info) <= Below(Func, Info)
    BY <1>1, <1>4, <1>6
  <1> QED
    BY <1>2, <1>3, <1>4, <1>5, <1>6, <1>7 DEF Base

(* From one operation to the next.                                         *)
LEMMA RunStep ==
    ASSUME RunInv, phase = "run", at > 1, UNCHANGED <<unit, phase, emitVars>>,
           at' \in DOMAIN Func.body, at' > 1, calling' \in BOOLEAN, bp' = bp,
           calling' => Func.body[at'].kind = "CALL",
           stack' \in Seq(StackWords), Len(stack') = sp',
           sp' = Depth(Func, Info, at', IF calling' THEN Pushed(Func, at', code[fn][at']) ELSE 0),
           \A w \in 1 .. Base(Func, Info) :
             w <= Bottom(Info) \/ w > Below(Func, Info) => stack'[w] = stack[w],
           LiveIn(Func, Info, at', stack'),
           calling' => ArgumentsIn(Func, Info, at', code[fn][at'], stack'),
           \A x \in stored' : StoredBy(Func, x)
    PROVE  RunInv'
  <1>1. UNCHANGED <<unit, phase, info, fn, cur, push_count, prepared, code>>
    BY DEF emitVars
  <1>2. EmitInv'
    BY EmittedKept DEF RunInv
  <1>3. Func' = Func /\ Info' = Info /\ Instr' = code[fn][at']
    BY <1>1 DEF Func, Info, Instr
  <1>4. OnStackNow(Func, Info, at, Instr)
    BY DEF RunInv
  <1>5. /\ Bottom(Info) \in {0, 1} /\ (Info.has_prolog => Bottom(Info) = 1)
        /\ Func.saved \in Nat /\ Align(Func.saved) \in Nat /\ Func.saved <= Align(Func.saved)
        /\ Below(Func, Info) \in Nat /\ Base(Func, Info) \in Nat
        /\ Bottom(Info) <= Below(Func, Info)
        /\ Base(Func, Info) = Below(Func, Info) + Align(Func.saved)
    BY DepthFacts
  <1>6. SavedIn(Func, Info, stack')
    <2>1. Info.has_prolog => stack'[1] = <<"bp", 0>>
      <3>1. Info.has_prolog => 1 \in 1 .. Base(Func, Info) /\ 1 <= Bottom(Info)
        BY <1>5
      <3> QED
        BY <1>4, <3>1 DEF OnStackNow, SavedIn
    <2>2. ASSUME NEW n \in 1 .. Func.saved PROVE stack'[Below(Func, Info) + n] = <<"saved", n>>
      <3>1. /\ Below(Func, Info) + n \in 1 .. Base(Func, Info)
            /\ Below(Func, Info) + n > Below(Func, Info)
        BY <1>5
      <3>2. stack[Below(Func, Info) + n] = <<"saved", n>>
        BY <1>4 DEF OnStackNow, SavedIn
      <3> QED
        BY <3>1, <3>2
    <2> QED
      BY <2>1, <2>2 DEF SavedIn
  <1>7. bp = Bottom(Info)
    BY <1>4 DEF OnStackNow
  <1>8. OnStackNow(Func, Info, at, Instr)'
    BY <1>3, <1>6, <1>7 DEF OnStackNow
  <1>9. at' \notin {0, 1} /\ at' \in {-1} \cup DOMAIN Func.body /\ phase' = "run"
    BY <1>1
  <1> QED
    BY <1>2, <1>3, <1>8, <1>9 DEF RunInv

-----------------------------------------------------------------------------
(* One lemma for each operation that runs.                                 *)

(* The operation after one that is not a jump.                             *)
LEMMA Onward ==
    ASSUME RunInv, phase = "run", at \in DOMAIN Func.body, at > 0,
           Func.body[at].kind \notin {"RET", "FRET"}
    PROVE  /\ at + 1 \in DOMAIN Func.body /\ at + 1 > 1
           /\ at > 1 <=> Func.body[at].kind # "PROLOG"
           /\ Waiting(Func, at + 1) = CASE Func.body[at].kind = "PREPARE" -> Func.body[at].live
                                        [] Func.body[at].kind \in Passes -> Waiting(Func, at)
                                        [] OTHER -> 0
           /\ Waiting(Func, at) \in Nat
           /\ Func.body[at].kind \notin Inside => Waiting(Func, at) = 0
  <1>1. IsFunction(Func) /\ DOMAIN Func.body = 1 .. Len(Func.body) /\ Len(Func.body) \in Nat
    BY RunningFacts
  <1>2. at + 1 \in DOMAIN Func.body
    BY <1>1, NextFacts
  <1>3. Func.body[at].kind = "PROLOG" <=> at = 1
    BY <1>1, NextFacts
  <1> QED
    BY <1>1, <1>2, <1>3, WaitingFacts DEF Waiting

LEMMA PrologRuns ==
    ASSUME RunInv, RunProlog
    PROVE  RunInv'
  <1> DEFINE saved == Func.saved
             pad == Align(saved) - saved
             link == IF Info.has_prolog THEN <<<<"bp", 0>>>> ELSE <<>>
             below == link \o Blank(Instr.sub)
             held == below \o Several("saved", saved)
  <1>1. /\ phase = "run" /\ at \in DOMAIN Func.body /\ Func.body[at].kind = "PROLOG"
        /\ at' = at + 1 /\ UNCHANGED <<unit, phase, emitVars>> /\ UNCHANGED <<calling, stored>>
        /\ bp' = IF Info.has_prolog THEN 1 ELSE 0
        /\ sp' = Len(stack') /\ stack' = held \o Blank(pad)
    BY DEF RunProlog, Running, Ran, RunInv
  <1>2. IsFunction(Func) /\ Info.has_prolog \in BOOLEAN /\ DOMAIN Func.body = 1 .. Len(Func.body)
    BY <1>1, RunningFacts
  <1>3. at = 1
    BY <1>1, <1>2, NextFacts
  <1>4. ~calling /\ stored = {}
    BY <1>3 DEF RunInv
  <1>5. Instr.sub = IF Info.has_prolog THEN FrameOf(Func) ELSE 0
    BY <1>1, <1>3, RunningFacts DEF Expected, Instr
  <1>6. /\ saved \in Nat /\ Align(saved) \in Nat /\ saved <= Align(saved) /\ FrameOf(Func) \in Nat
        /\ Bottom(Info) \in {0, 1}
        /\ Below(Func, Info) \in Nat /\ Base(Func, Info) \in Nat
        /\ Base(Func, Info) = Below(Func, Info) + Align(saved)
    BY <1>1, <1>2, DepthFacts
  <1>7. /\ link \in Seq(StackWords) /\ Len(link) = Bottom(Info)
        /\ Info.has_prolog => link[1] = <<"bp", 0>>
    <2>1. <<"bp", 0>> \in StackWords
      BY DEF StackWords
    <2>2. <<<<"bp", 0>>>> \in Seq(StackWords) /\ Len(<<<<"bp", 0>>>>) = 1
      BY <2>1
    <2>3. <<>> \in Seq(StackWords) /\ Len(<<>>) = 0
      OBVIOUS
    <2> QED
      BY <1>2, <2>2, <2>3 DEF Bottom
  <1>8. /\ Blank(Instr.sub) \in Seq(StackWords) /\ Len(Blank(Instr.sub)) = Instr.sub
        /\ Instr.sub \in Nat
    <2>1. Instr.sub \in Nat
      BY <1>2, <1>5, <1>6
    <2> QED
      BY <2>1, SeveralFacts
  <1>9. /\ Several("saved", saved) \in Seq(StackWords) /\ Len(Several("saved", saved)) = saved
        /\ \A i \in 1 .. saved : Several("saved", saved)[i] = <<"saved", i>>
    BY <1>6, SeveralFacts
  <1>10. Blank(pad) \in Seq(StackWords) /\ Len(Blank(pad)) = pad /\ pad \in Nat
    <2>1. pad \in Nat
      BY <1>6
    <2> QED
      BY <2>1, SeveralFacts
  <1> HIDE DEF link, saved, pad
  <1>11. /\ below \in Seq(StackWords) /\ Len(below) = Len(link) + Instr.sub
         /\ \A n \in 1 .. Len(link) : below[n] = link[n]
    <2> DEFINE t == Blank(Instr.sub)
    <2>1. t \in Seq(StackWords) /\ Len(t) = Instr.sub
      BY <1>8
    <2>2. Joined(below, link, t)
      BY DEF Joined
    <2> HIDE DEF t, below
    <2> QED
      BY <1>7, <2>1, <2>2, ConcatFacts
  <1>12. Len(below) = Below(Func, Info)
    BY <1>2, <1>5, <1>7, <1>11 DEF Below
  <1> HIDE DEF below
  <1>13. /\ held \in Seq(StackWords) /\ Len(held) = Len(below) + saved
         /\ \A n \in 1 .. Len(below) : held[n] = below[n]
         /\ \A n \in 1 .. saved : held[Len(below) + n] = <<"saved", n>>
    <2> DEFINE t == Several("saved", saved)
    <2>1. /\ t \in Seq(StackWords) /\ Len(t) = saved
          /\ \A i \in 1 .. saved : t[i] = <<"saved", i>>
      BY <1>9
    <2>2. Joined(held, below, t)
      BY DEF Joined
    <2> HIDE DEF t, held
    <2>3. /\ held \in Seq(StackWords) /\ Len(held) = Len(below) + Len(t)
          /\ \A n \in 1 .. Len(below) : held[n] = below[n]
          /\ Follows(held, Len(below), t)
      BY <1>11, <2>1, <2>2, ConcatFacts
    <2> QED
      BY <2>1, <2>3 DEF Follows
  <1> HIDE DEF held
  <1>a. Joined(stack', held, Blank(pad))
    BY <1>1 DEF Joined
  <1>14. /\ stack' \in Seq(StackWords) /\ Len(stack') = Len(held) + pad
         /\ \A n \in 1 .. Len(held) : stack'[n] = held[n]
    BY <1>10, <1>13, <1>a, ConcatFacts
  <1>15. Len(stack') = Base(Func, Info)
    BY <1>6, <1>12, <1>13, <1>14 DEF pad
  <1>16. SavedIn(Func, Info, stack')
    <2>1. ASSUME Info.has_prolog PROVE stack'[1] = <<"bp", 0>>
      <3>1. Bottom(Info) = 1 /\ 1 \in 1 .. Len(link) /\ 1 \in 1 .. Len(below) /\ 1 \in 1 .. Len(held)
        <4>1. Bottom(Info) = 1 /\ Len(link) = 1
          BY <1>7, <2>1 DEF Bottom
        <4>2. Len(below) = 1 + Instr.sub /\ Len(held) = (1 + Instr.sub) + saved
          BY <1>11, <1>13, <4>1
        <4>3. saved \in Nat /\ Instr.sub \in Nat
          BY <1>6, <1>8
        <4> QED
          BY <4>1, <4>2, <4>3
      <3> QED
        BY <1>7, <1>11, <1>13, <1>14, <2>1, <3>1
    <2>2. ASSUME NEW n \in 1 .. saved PROVE stack'[Below(Func, Info) + n] = <<"saved", n>>
      <3>1. held[Len(below) + n] = <<"saved", n>>
        BY <1>13
      <3>2. Len(below) + n \in 1 .. Len(held)
        BY <1>6, <1>12, <1>13
      <3> QED
        BY <1>12, <1>14, <3>1, <3>2
    <2> QED
      BY <2>1, <2>2 DEF SavedIn, saved
  <1>17. /\ at' \in DOMAIN Func.body /\ at' > 1 /\ Waiting(Func, at') = 0
    BY <1>1, <1>3, Onward DEF Passes
  <1>18. LiveIn(Func, Info, at', stack')
    BY <1>17 DEF LiveIn
  <1>19. sp' = Depth(Func, Info, at', 0)
    BY <1>1, <1>6, <1>15, <1>17 DEF Depth
  <1>20. UNCHANGED <<unit, phase, info, fn, cur, push_count, prepared, code>>
    BY <1>1 DEF emitVars
  <1>21. EmitInv'
    BY <1>1, EmittedKept DEF RunInv
  <1>22. Func' = Func /\ Info' = Info /\ calling' = FALSE /\ stored' = {} /\ bp' = Bottom(Info)
    BY <1>1, <1>4, <1>20 DEF Func, Info, Bottom, RunInv
  <1>23. OnStackNow(Func, Info, at, Instr)'
    BY <1>1, <1>14, <1>16, <1>18, <1>19, <1>22 DEF OnStackNow
  <1>24. at' \notin {0, 1}
    BY <1>17, <1>2
  <1> QED
    BY <1>1, <1>17, <1>20, <1>21, <1>22, <1>23, <1>24 DEF RunInv

(* The words a store changes.                                              *)
LEMMA StoreFacts ==
    ASSUME RunInv, RunStore
    PROVE  /\ phase = "run" /\ at > 1 /\ at \in DOMAIN Func.body /\ at' = at + 1
           /\ at' \in DOMAIN Func.body /\ at' > 1 /\ Waiting(Func, at') = 0 /\ Waiting(Func, at) = 0
           /\ ~calling /\ UNCHANGED <<unit, phase, emitVars>> /\ UNCHANGED <<calling, sp, bp>>
           /\ Info.has_prolog /\ X \in Cell /\ HasPlace(Func, X) /\ StoredBy(Func, X)
           /\ stored' = stored \cup {X}
           /\ stack' = [w \in DOMAIN stack |->
                          IF w \in WordsOf(Func, X) THEN <<X.class, X.n>> ELSE stack[w]]
           /\ \A w \in WordsOf(Func, X) : w \in 2 .. Below(Func, Info)
           /\ OnStackNow(Func, Info, at, Instr)
  <1>1. /\ phase = "run" /\ at \in DOMAIN Func.body /\ at > 0 /\ Func.body[at].kind \in {"UREG", "ST"}
        /\ at' = at + 1 /\ UNCHANGED <<unit, phase, emitVars>> /\ UNCHANGED <<calling, sp, bp>>
        /\ stored' = stored \cup {X}
        /\ stack' = [w \in DOMAIN stack |->
                       IF w \in Words(Func, X, Accessed) THEN <<X.class, X.n>> ELSE stack[w]]
    BY DEF RunStore, Running, Ran, RunInv
  <1>2. IsFunction(Func)
    BY <1>1, RunningFacts
  <1>3. /\ at' \in DOMAIN Func.body /\ at' > 1 /\ at > 1
        /\ Waiting(Func, at') = 0 /\ Waiting(Func, at) = 0
    BY <1>1, Onward DEF Passes, Inside
  <1>4. ~calling
    BY <1>1 DEF RunInv
  <1>5. X \in Cell /\ HasPlace(Func, X) /\ StoredBy(Func, X)
    BY <1>1, <1>2, AccessHasPlace DEF X, StoredBy
  <1>6. UsesFrame(Func)
    <2>1. CASE Func.body[at].kind = "UREG"
      BY <1>1, <2>1 DEF UsesFrame
    <2>2. CASE Func.body[at].kind = "ST"
      <3>1. X.n \in DOMAIN Func.allocas
        BY <1>1, <1>2, <2>2 DEF IsFunction, WellFormedFunction, X
      <3>2. Func.allocas # <<>>
        BY <3>1
      <3> QED
        BY <3>2 DEF UsesFrame
    <2> QED
      BY <1>1, <2>1, <2>2
  <1>7. Info.has_prolog /\ Info.gp_reg_count = Evened(Func)
    BY <1>1, <1>6, RunningFacts
  <1>8. OnStackNow(Func, Info, at, Instr)
    BY <1>1, <1>3 DEF RunInv
  <1>9. Accessed = Place(Func, X)
    <2>1. bp = 1
      BY <1>7, <1>8 DEF OnStackNow, Bottom
    <2>2. Expected(Func, Info, at, code[fn][at])
      BY <1>1, RunningFacts
    <2>3. Instr.base = "bp" /\ Instr.pos = RegPos(Func, Evened(Func), AllocaMem(Func), X)
      BY <1>1, <1>7, <2>2 DEF Expected, Instr, X
    <2> QED
      BY <2>1, <2>3 DEF Accessed, Place
  <1>10. \A w \in WordsOf(Func, X) : w \in 2 .. Below(Func, Info)
    <2>1. \A w \in WordsOf(Func, X) : w \in 2 .. 1 + FrameOf(Func)
      BY <1>2, <1>5, PlacesInFrame
    <2> QED
      BY <1>1, <1>7, <2>1, DepthFacts
  <1> QED
    BY <1>1, <1>3, <1>4, <1>5, <1>7, <1>8, <1>9, <1>10 DEF WordsOf

LEMMA StoreRuns ==
    ASSUME RunInv, RunStore
    PROVE  RunInv'
  <1>1. /\ phase = "run" /\ at > 1 /\ at \in DOMAIN Func.body
        /\ at' \in DOMAIN Func.body /\ at' > 1 /\ Waiting(Func, at') = 0 /\ Waiting(Func, at) = 0
        /\ ~calling /\ UNCHANGED <<unit, phase, emitVars>> /\ UNCHANGED <<calling, sp, bp>>
        /\ X \in Cell /\ StoredBy(Func, X) /\ stored' = stored \cup {X}
        /\ stack' = [w \in DOMAIN stack |->
                       IF w \in WordsOf(Func, X) THEN <<X.class, X.n>> ELSE stack[w]]
        /\ \A w \in WordsOf(Func, X) : w \in 2 .. Below(Func, Info)
        /\ OnStackNow(Func, Info, at, Instr)
    BY StoreFacts
  <1>2. /\ Bottom(Info) \in {0, 1} /\ Below(Func, Info) \in Nat /\ Base(Func, Info) \in Nat
        /\ Align(Func.saved) \in Nat /\ Base(Func, Info) = Below(Func, Info) + Align(Func.saved)
    BY <1>1, DepthFacts
  <1>3. /\ stack \in Seq(StackWords) /\ Len(stack) = sp /\ sp = Base(Func, Info)
        /\ \A x \in stored : StoredBy(Func, x)
    BY <1>1, <1>2 DEF OnStackNow, Depth
  <1>4. <<X.class, X.n>> \in StackWords
    <2>1. X.class \in {"gp", "fp", "arg", "mem"} /\ X.n \in Int
      BY <1>1 DEF Cell
    <2> QED
      BY <2>1 DEF StackWords
  <1>5. stack' \in Seq(StackWords) /\ Len(stack') = sp
    <2>1. DOMAIN stack = 1 .. sp /\ sp \in Nat /\ \A w \in 1 .. sp : stack[w] \in StackWords
      BY <1>2, <1>3
    <2>2. stack' \in [1 .. sp -> StackWords]
      BY <1>1, <1>4, <2>1
    <2> QED
      BY <2>1, <2>2
  <1>6. \A w \in 1 .. Base(Func, Info) :
          w <= Bottom(Info) \/ w > Below(Func, Info) => stack'[w] = stack[w]
    <2>1. SUFFICES ASSUME NEW w \in 1 .. Base(Func, Info), w <= Bottom(Info) \/ w > Below(Func, Info)
                   PROVE  stack'[w] = stack[w]
      OBVIOUS
    <2>2. w \notin WordsOf(Func, X)
      BY <1>1, <1>2, <2>1
    <2>3. w \in DOMAIN stack
      BY <1>2, <1>3
    <2> QED
      BY <1>1, <2>2, <2>3
  <1>7. sp' = Depth(Func, Info, at', 0)
    BY <1>1, <1>2, <1>3 DEF Depth
  <1>8. LiveIn(Func, Info, at', stack')
    BY <1>1 DEF LiveIn
  <1>9. ~calling' /\ calling' \in BOOLEAN /\ bp' = bp /\ \A x \in stored' : StoredBy(Func, x)
    BY <1>1, <1>3 DEF RunInv
  <1> QED
    BY <1>1, <1>5, <1>6, <1>7, <1>8, <1>9, RunStep

(* What RunInv says where control is, outside of the prolog.               *)
LEMMA Here ==
    ASSUME RunInv, phase = "run", at \in DOMAIN Func.body, at > 1
    PROVE  /\ OnStackNow(Func, Info, at, Instr)
           /\ stack \in Seq(StackWords) /\ Len(stack) = sp /\ sp \in Nat
           /\ ~calling => sp = Base(Func, Info) + Waiting(Func, at)
           /\ calling => sp = (Base(Func, Info) + Waiting(Func, at)) + Pushed(Func, at, Instr)
           /\ Base(Func, Info) \in Nat /\ Waiting(Func, at) \in Nat
  <1>1. OnStackNow(Func, Info, at, Instr)
    BY DEF RunInv
  <1>2. Base(Func, Info) \in Nat /\ Waiting(Func, at) \in Nat
    BY DepthFacts
  <1>3. stack \in Seq(StackWords) /\ Len(stack) = sp
        /\ sp = Depth(Func, Info, at, IF calling THEN Pushed(Func, at, Instr) ELSE 0)
    BY <1>1 DEF OnStackNow
  <1>4. sp \in Nat
    BY <1>3
  <1>5. ~calling => sp = Base(Func, Info) + Waiting(Func, at)
    BY <1>2, <1>3 DEF Depth
  <1>6. calling => sp = (Base(Func, Info) + Waiting(Func, at)) + Pushed(Func, at, Instr)
    BY <1>3 DEF Depth
  <1> QED
    BY <1>1, <1>2, <1>3, <1>4, <1>5, <1>6

(* Operations that leave the stack alone.                                  *)
LEMMA QuietStep ==
    ASSUME RunInv, phase = "run", at \in DOMAIN Func.body, at > 1, ~calling,
           UNCHANGED <<unit, phase, emitVars>>, UNCHANGED <<calling, sp, bp, stack, stored>>,
           at' \in DOMAIN Func.body, at' > 1, Waiting(Func, at') = Waiting(Func, at)
    PROVE  RunInv'
  <1>1. /\ OnStackNow(Func, Info, at, Instr)
        /\ sp = Base(Func, Info) + Waiting(Func, at)
        /\ Base(Func, Info) \in Nat /\ Waiting(Func, at) \in Nat
    BY Here
  <1>2. LiveIn(Func, Info, at', stack')
    BY <1>1 DEF OnStackNow, LiveIn
  <1>3. sp' = Depth(Func, Info, at', 0)
    BY <1>1 DEF Depth
  <1>4. stack' \in Seq(StackWords) /\ Len(stack') = sp'
    BY <1>1 DEF OnStackNow
  <1>5. \A x \in stored' : StoredBy(Func, x)
    BY <1>1 DEF OnStackNow
  <1>6. /\ ~calling' /\ calling' \in BOOLEAN /\ bp' = bp
        /\ \A w \in 1 .. Base(Func, Info) : stack'[w] = stack[w]
    BY DEF RunInv
  <1> QED
    BY <1>2, <1>3, <1>4, <1>5, <1>6, RunStep

LEMMA LoadRuns ==
    ASSUME RunInv, RunLoad
    PROVE  RunInv'
  <1>1. /\ phase = "run" /\ at \in DOMAIN Func.body /\ at > 0
        /\ Func.body[at].kind \in {"LREG", "LD", "GETARG", "PUTARG", "FPUTARG", "OTHER"}
        /\ at' = at + 1 /\ UNCHANGED <<unit, phase, emitVars>>
        /\ UNCHANGED <<calling, sp, bp, stack, stored>>
    BY DEF RunLoad, Running, Ran, RunInv
  <1>2. /\ at' \in DOMAIN Func.body /\ at' > 1 /\ at > 1
        /\ Waiting(Func, at') = CASE Func.body[at].kind = "PREPARE" -> Func.body[at].live
                                  [] Func.body[at].kind \in Passes -> Waiting(Func, at)
                                  [] OTHER -> 0
        /\ Func.body[at].kind \notin Inside => Waiting(Func, at) = 0
    BY <1>1, Onward
  <1>3. Waiting(Func, at') = Waiting(Func, at)
    BY <1>1, <1>2 DEF Inside, Passes
  <1>4. ~calling
    BY <1>1 DEF RunInv
  <1> QED
    BY <1>1, <1>2, <1>3, <1>4, QuietStep

LEMMA BranchRuns ==
    ASSUME RunInv, RunBranch
    PROVE  RunInv'
  <1>1. /\ phase = "run" /\ at \in DOMAIN Func.body /\ at > 0 /\ Func.body[at].kind = "BRANCH"
        /\ at' \in {at + 1, Func.body[at].jmp} /\ UNCHANGED <<unit, phase, emitVars>>
        /\ UNCHANGED <<calling, sp, bp, stack, stored>>
    BY DEF RunBranch, Running, Ran, RunInv
  <1>2. IsFunction(Func) /\ DOMAIN Func.body = 1 .. Len(Func.body) /\ Len(Func.body) \in Nat
    BY <1>1, RunningFacts
  <1>3. /\ at + 1 \in DOMAIN Func.body /\ at + 1 > 1 /\ at > 1
        /\ Waiting(Func, at + 1) = 0 /\ Waiting(Func, at) = 0
    BY <1>1, Onward DEF Passes, Inside
  <1>4. /\ Func.body[at].jmp \in 2 .. Len(Func.body)
        /\ Func.body[Func.body[at].jmp].kind \notin Inside
    BY <1>1, <1>2 DEF IsFunction, WellFormedFunction, Inside
  <1>5. at' \in DOMAIN Func.body /\ at' > 1 /\ Waiting(Func, at') = 0
    BY <1>1, <1>2, <1>3, <1>4 DEF Waiting
  <1>6. ~calling
    BY <1>1 DEF RunInv
  <1> QED
    BY <1>1, <1>3, <1>5, <1>6, QuietStep

(* A call does not touch what is above it.                                 *)
Untouched == \A w \in 1 .. Base(Func, Info) : stack'[w] = stack[w]

LEMMA PrepareRuns ==
    ASSUME RunInv, RunPrepare
    PROVE  RunInv' /\ Untouched
  <1> DEFINE live == Several("live", Instr.sub)
  <1>1. /\ phase = "run" /\ at \in DOMAIN Func.body /\ at > 0 /\ Func.body[at].kind = "PREPARE"
        /\ at' = at + 1 /\ UNCHANGED <<unit, phase, emitVars>>
        /\ UNCHANGED <<calling, bp, stored>> /\ sp' = sp + Instr.sub
        /\ Joined(stack', stack, live)
    BY DEF RunPrepare, Running, Ran, RunInv, Joined
  <1>2. /\ at' \in DOMAIN Func.body /\ at' > 1 /\ at > 1
        /\ Waiting(Func, at') = Func.body[at].live /\ Waiting(Func, at) = 0
    BY <1>1, Onward DEF Inside, Passes
  <1>3. ~calling
    BY <1>1 DEF RunInv
  <1>4. /\ OnStackNow(Func, Info, at, Instr)
        /\ stack \in Seq(StackWords) /\ Len(stack) = sp
        /\ sp = Base(Func, Info) + Waiting(Func, at) /\ Base(Func, Info) \in Nat
    BY <1>1, <1>2, <1>3, Here
  <1>5. Instr.sub = Func.body[at].live
    BY <1>1, RunningFacts DEF Expected, Instr
  <1>6. Instr.sub \in Nat /\ sp = Base(Func, Info)
    <2>1. Func.body[at].live \in Nat
      BY <1>1, RunningFacts, FunctionFacts
    <2> QED
      BY <1>2, <1>4, <1>5, <2>1
  <1>7. /\ live \in Seq(StackWords) /\ Len(live) = Instr.sub
        /\ \A i \in 1 .. Instr.sub : live[i] = <<"live", i>>
    BY <1>6, SeveralFacts
  <1> HIDE DEF live
  <1>8. /\ stack' \in Seq(StackWords) /\ Len(stack') = Len(stack) + Len(live)
        /\ \A n \in 1 .. Len(stack) : stack'[n] = stack[n]
        /\ Follows(stack', Len(stack), live)
    BY <1>1, <1>4, <1>7, ConcatFacts
  <1>9. LiveIn(Func, Info, at', stack')
    BY <1>2, <1>4, <1>5, <1>6, <1>7, <1>8 DEF Follows, LiveIn
  <1>10. sp' = Depth(Func, Info, at', 0) /\ Len(stack') = sp'
    BY <1>1, <1>2, <1>4, <1>5, <1>6, <1>7, <1>8 DEF Depth
  <1>11. ~calling' /\ calling' \in BOOLEAN /\ bp' = bp
    BY <1>1, <1>3 DEF RunInv
  <1>12. \A x \in stored' : StoredBy(Func, x)
    BY <1>1, <1>4 DEF OnStackNow
  <1>13. \A w \in 1 .. Base(Func, Info) : stack'[w] = stack[w]
    BY <1>4, <1>6, <1>8
  <1> QED
    BY <1>1, <1>2, <1>8, <1>9, <1>10, <1>11, <1>12, <1>13, RunStep DEF Untouched

(* The code of a CALL.                                                     *)
LEMMA CallFacts ==
    ASSUME RunInv, phase = "run", at \in DOMAIN Func.body, at > 0, Func.body[at].kind = "CALL"
    PROVE  /\ at > 1 /\ Waiting(Func, at) = Live(Func, at) /\ Waiting(Func, at) \in Nat
           /\ Instr.sub \in {0, 1} /\ Instr.add = Instr.sub + OnStackSize(Func, at)
           /\ Instr.add = Pushed(Func, at, Instr) /\ Instr.add \in Nat
           /\ Evenly(Func, at) => CallAligned(Func, at, Instr.sub, Info.has_prolog)
           /\ OnStackSize(Func, at) \in Nat
           /\ ArgKinds(Func, at) \in Seq({"gp", "fp"})
           /\ OnStack(ArgKinds(Func, at)) \in Seq(StackWords)
           /\ Len(OnStack(ArgKinds(Func, at))) = OnStackSize(Func, at)
           /\ at + 1 \in DOMAIN Func.body /\ at + 1 > 1 /\ Waiting(Func, at + 1) = 0
  <1>1. IsFunction(Func) /\ Func.body[at].kind \in Inside
    BY RunningFacts DEF Inside
  <1>2. Expected(Func, Info, at, Instr)
    BY RunningFacts DEF Instr
  <1>3. /\ Instr.sub \in {0, 1} /\ Instr.add = Instr.sub + OnStackSize(Func, at)
        /\ Evenly(Func, at) => CallAligned(Func, at, Instr.sub, Info.has_prolog)
    BY <1>2 DEF Expected
  <1>4. OnStackSize(Func, at) \in Nat
    BY <1>1, PassedFacts
  <1>5. ArgKinds(Func, at) \in Seq({"gp", "fp"})
    BY <1>1, ArgKindsFacts
  <1>6. /\ OnStack(ArgKinds(Func, at)) \in Seq({<<"out", i>> : i \in Int})
        /\ Len(OnStack(ArgKinds(Func, at))) = OnStackSize(Func, at)
    BY <1>5, OnStackFacts DEF OnStackSize
  <1>7. OnStack(ArgKinds(Func, at)) \in Seq(StackWords)
    <2>1. {<<"out", i>> : i \in Int} \subseteq StackWords
      BY DEF StackWords
    <2> QED
      BY <1>6, <2>1
  <1>8. /\ at > 1 /\ Waiting(Func, at) \in Nat
        /\ at + 1 \in DOMAIN Func.body /\ at + 1 > 1 /\ Waiting(Func, at + 1) = 0
    BY Onward DEF Passes
  <1>9. Waiting(Func, at) = Live(Func, at)
    BY <1>1 DEF Waiting
  <1> QED
    BY <1>3, <1>4, <1>5, <1>6, <1>7, <1>8, <1>9 DEF Pushed

LEMMA ArgumentsRun ==
    ASSUME RunInv, RunArguments
    PROVE  RunInv' /\ Untouched
  <1> DEFINE passed == OnStack(ArgKinds(Func, at))
             below == stack \o Blank(Instr.sub)
  <1>1. /\ phase = "run" /\ at \in DOMAIN Func.body /\ at > 0 /\ Func.body[at].kind = "CALL"
        /\ at' = at /\ UNCHANGED <<unit, phase, emitVars>>
        /\ UNCHANGED <<bp, stored>> /\ sp' = Len(stack') /\ calling' = TRUE /\ ~calling
        /\ Joined(stack', below, passed)
    BY DEF RunArguments, Running, Ran, RunInv, Joined
  <1>2. /\ at > 1 /\ Waiting(Func, at) \in Nat /\ Instr.sub \in Nat
        /\ OnStackSize(Func, at) \in Nat
        /\ passed \in Seq(StackWords) /\ Len(passed) = OnStackSize(Func, at)
    BY <1>1, CallFacts
  <1>3. /\ OnStackNow(Func, Info, at, Instr)
        /\ stack \in Seq(StackWords) /\ Len(stack) = sp
        /\ sp = Base(Func, Info) + Waiting(Func, at) /\ Base(Func, Info) \in Nat
    BY <1>1, <1>2, Here
  <1>4. Joined(below, stack, Blank(Instr.sub))
    BY DEF Joined
  <1> HIDE DEF below, passed
  <1>5. /\ below \in Seq(StackWords) /\ Len(below) = Len(stack) + Instr.sub
        /\ \A n \in 1 .. Len(stack) : below[n] = stack[n]
    <2>1. Blank(Instr.sub) \in Seq(StackWords) /\ Len(Blank(Instr.sub)) = Instr.sub
      BY <1>2, SeveralFacts
    <2> QED
      BY <1>3, <1>4, <2>1, ConcatFacts
  <1>6. /\ stack' \in Seq(StackWords) /\ Len(stack') = Len(below) + Len(passed)
        /\ \A n \in 1 .. Len(below) : stack'[n] = below[n]
        /\ Follows(stack', Len(below), passed)
    BY <1>1, <1>2, <1>5, ConcatFacts
  <1>7. /\ Len(stack) = Base(Func, Info) + Waiting(Func, at)
        /\ Len(below) = (Base(Func, Info) + Waiting(Func, at)) + Instr.sub
        /\ Len(stack') = ((Base(Func, Info) + Waiting(Func, at)) + Instr.sub) + OnStackSize(Func, at)
    BY <1>2, <1>3, <1>5, <1>6
  <1>8. \A n \in 1 .. Base(Func, Info) + Waiting(Func, at) : stack'[n] = stack[n]
    <2>1. \A n \in 1 .. Len(stack) : n \in 1 .. Len(below)
      BY <1>2, <1>3, <1>5
    <2> QED
      BY <1>5, <1>6, <1>7, <2>1
  <1>9. LiveIn(Func, Info, at, stack')
    <2>1. LiveIn(Func, Info, at, stack)
      BY <1>3 DEF OnStackNow
    <2>2. SUFFICES ASSUME NEW n \in 1 .. Waiting(Func, at)
                   PROVE  stack'[Base(Func, Info) + n] = <<"live", n>>
      BY DEF LiveIn
    <2>3. Base(Func, Info) + n \in 1 .. Base(Func, Info) + Waiting(Func, at)
      BY <1>2, <1>3
    <2> QED
      BY <1>8, <2>1, <2>3 DEF LiveIn
  <1>10. ArgumentsIn(Func, Info, at, Instr, stack')
    BY <1>2, <1>6, <1>7 DEF ArgumentsIn, Follows, passed
  <1>11. sp' = Depth(Func, Info, at, Pushed(Func, at, Instr))
    BY <1>1, <1>2, <1>3, <1>7 DEF Depth, Pushed
  <1>12. /\ calling' \in BOOLEAN /\ bp' = bp /\ \A x \in stored' : StoredBy(Func, x)
         /\ \A w \in 1 .. Base(Func, Info) : stack'[w] = stack[w]
    BY <1>1, <1>2, <1>3, <1>8 DEF OnStackNow
  <1>13. LiveIn(Func, Info, at', stack') /\ ArgumentsIn(Func, Info, at', code[fn][at'], stack')
         /\ sp' = Depth(Func, Info, at', IF calling' THEN Pushed(Func, at', code[fn][at']) ELSE 0)
    BY <1>1, <1>9, <1>10, <1>11 DEF Instr
  <1> QED
    BY <1>1, <1>2, <1>6, <1>12, <1>13, RunStep DEF Untouched

LEMMA ReturnRuns ==
    ASSUME RunInv, RunReturned
    PROVE  RunInv' /\ Untouched
  <1>1. /\ phase = "run" /\ at \in DOMAIN Func.body /\ at > 0 /\ Func.body[at].kind = "CALL"
        /\ at' = at + 1 /\ UNCHANGED <<unit, phase, emitVars>>
        /\ UNCHANGED <<bp, stored>> /\ calling /\ calling' = FALSE
        /\ sp' = sp - Instr.add - Live(Func, at) /\ stack' = SubSeq(stack, 1, sp')
    BY DEF RunReturned, Running, Ran, RunInv
  <1>2. /\ at > 1 /\ Waiting(Func, at) \in Nat /\ Waiting(Func, at) = Live(Func, at)
        /\ Instr.add \in Nat /\ Instr.add = Pushed(Func, at, Instr)
        /\ at' \in DOMAIN Func.body /\ at' > 1 /\ Waiting(Func, at') = 0
    BY <1>1, CallFacts
  <1>3. /\ OnStackNow(Func, Info, at, Instr)
        /\ stack \in Seq(StackWords) /\ Len(stack) = sp
        /\ sp = (Base(Func, Info) + Waiting(Func, at)) + Instr.add /\ Base(Func, Info) \in Nat
    BY <1>1, <1>2, Here
  <1>4. sp' = Base(Func, Info) /\ sp' \in 0 .. Len(stack)
    BY <1>1, <1>2, <1>3
  <1>5. /\ stack' \in Seq(StackWords) /\ Len(stack') = sp'
        /\ \A w \in 1 .. sp' : stack'[w] = stack[w]
    BY <1>1, <1>3, <1>4
  <1>6. sp' = Depth(Func, Info, at', 0)
    BY <1>2, <1>3, <1>4 DEF Depth
  <1>7. LiveIn(Func, Info, at', stack')
    BY <1>2 DEF LiveIn
  <1>8. /\ ~calling' /\ calling' \in BOOLEAN /\ bp' = bp /\ \A x \in stored' : StoredBy(Func, x)
        /\ \A w \in 1 .. Base(Func, Info) : stack'[w] = stack[w]
    BY <1>1, <1>3, <1>4, <1>5 DEF OnStackNow
  <1> QED
    BY <1>1, <1>2, <1>5, <1>6, <1>7, <1>8, RunStep DEF Untouched

LEMMA RetRuns ==
    ASSUME RunInv, RunRet
    PROVE  RunInv'
  <1>1. /\ phase = "run" /\ at' = -1 /\ UNCHANGED <<unit, phase, emitVars>>
        /\ UNCHANGED <<calling, bp, stack, stored>> /\ at \in DOMAIN Func.body
        /\ Func.body[at].kind \in {"RET", "FRET"}
    BY DEF RunRet, Running, Ran, RunInv
  <1>2. UNCHANGED <<unit, phase, info, fn, cur, push_count, prepared, code>>
    BY <1>1 DEF emitVars
  <1>3. EmitInv'
    BY <1>1, EmittedKept DEF RunInv
  <1>4. ~calling /\ calling \in BOOLEAN
    BY <1>1 DEF RunInv
  <1> QED
    BY <1>1, <1>2, <1>3, <1>4 DEF RunInv, Func

-----------------------------------------------------------------------------
(* RunInv holds of every reachable state.                                  *)

LEMMA NotYetRunning ==
    ASSUME RunInv, phase # "run", UNCHANGED runVars, phase' # "run", EmitInv'
    PROVE  RunInv'
  <1>1. UNCHANGED <<at, calling, sp, bp, stack, stored>>
    BY DEF runVars
  <1>2. at = 0
    BY DEF RunInv
  <1> QED
    BY <1>1, <1>2 DEF RunInv

LEMMA StartsRunning ==
    ASSUME RunInv, Call
    PROVE  RunInv'
  <1>1. /\ phase = "emit" /\ phase' = "run" /\ fn' \in DOMAIN unit /\ at' = 1
        /\ UNCHANGED <<unit, calling, sp, bp, stack, stored>>
    BY DEF Call
  <1>2. EmitInv'
    BY CallKept DEF RunInv
  <1>3. at = 0
    BY <1>1 DEF RunInv
  <1>4. IsFunction(unit[fn'])
    BY <1>1, UnitFacts DEF RunInv, EmitInv
  <1>5. 1 \in DOMAIN Func'.body
    BY <1>1, <1>4, FunctionFacts DEF Func
  <1>6. ~calling /\ sp = 0 /\ bp = 0 /\ stack = <<>> /\ stored = {} /\ calling \in BOOLEAN
    BY <1>3 DEF RunInv
  <1> QED
    BY <1>1, <1>2, <1>5, <1>6 DEF RunInv

LEMMA RunInitially == Init => RunInv
  <1> SUFFICES ASSUME Init PROVE RunInv
    OBVIOUS
  <1> QED
    BY EmitInitially DEF Init, RunInv

LEMMA RunInductive == RunInv /\ [Next]_vars => RunInv'
  <1> SUFFICES ASSUME RunInv, [Next]_vars PROVE RunInv'
    OBVIOUS
  <1>1. EmitInv'
    BY EmitInductive DEF RunInv
  <1>2. CASE UNCHANGED vars
    BY <1>1, <1>2 DEF vars, emitVars, runVars, RunInv, OnStackNow, Func, Info, Instr
  <1>3. CASE CountRegisters \/ PrepareArguments \/ OmitFramePointers
    <2>1. UNCHANGED runVars /\ phase # "run" /\ phase' # "run"
      BY <1>3 DEF CountRegisters, PrepareArguments, OmitFramePointers
    <2> QED
      BY <1>1, <2>1, NotYetRunning
  <1>4. CASE EmitProlog \/ EmitAccess \/ EmitGetArg \/ EmitPrepare \/ EmitPutArg \/ EmitCall
               \/ EmitRet \/ EmitOther
    <2>1. UNCHANGED runVars /\ phase = "emit" /\ phase' = phase
      BY <1>4 DEF EmitProlog, EmitAccess, EmitGetArg, EmitPrepare, EmitPutArg, EmitCall, EmitRet,
                  EmitOther, Emitting, Emitted
    <2> QED
      BY <1>1, <2>1, NotYetRunning
  <1> QED
    BY <1>2, <1>3, <1>4, StartsRunning, PrologRuns, StoreRuns, LoadRuns, PrepareRuns, ArgumentsRun,
       ReturnRuns, BranchRuns, RetRuns DEF Next

(***************************************************************************)
(* While the emitter goes down the list its counters agree with what the   *)
(* code it emits will have pushed, and while that code runs along its      *)
(* branches the words of the stack are laid out as RunInv says: BP, the    *)
(* frame, the saved registers, the live ones and the arguments of the call *)
(* control is inside of.                                                   *)
(***************************************************************************)
THEOREM StackIsLaidOut == Spec => []RunInv
  BY RunInitially, RunInductive, PTL DEF Spec

-----------------------------------------------------------------------------
(* Where a function returns.                                               *)
LEMMA RetFacts ==
    ASSUME RunInv, Running({"RET", "FRET"})
    PROVE  /\ phase = "run" /\ at \in DOMAIN Func.body /\ at > 1 /\ ~calling
           /\ Instr.add = Align(Func.saved) /\ Instr.pos = Align(Func.saved) - Func.saved
           /\ sp = Base(Func, Info) /\ Info.has_prolog \in BOOLEAN
           /\ bp = Bottom(Info) /\ SavedIn(Func, Info, stack)
  <1>1. /\ phase = "run" /\ at \in DOMAIN Func.body /\ Func.body[at].kind \in {"RET", "FRET"}
        /\ at > 0 /\ ~calling
    BY DEF Running, RunInv
  <1>2. IsFunction(Func) /\ Info.has_prolog \in BOOLEAN /\ DOMAIN Func.body = 1 .. Len(Func.body)
    BY <1>1, RunningFacts
  <1>3. at > 1
    <2>1. at # 1
      BY <1>1, <1>2, NextFacts
    <2> QED
      BY <1>1, <1>2, <2>1
  <1>4. Instr.add = Align(Func.saved) /\ Instr.pos = Align(Func.saved) - Func.saved
    BY <1>1, RunningFacts DEF Expected, Instr
  <1>5. OnStackNow(Func, Info, at, Instr) /\ sp = Base(Func, Info)
    <2>1. Waiting(Func, at) = 0
      BY <1>1 DEF Waiting, Inside
    <2> QED
      BY <1>1, <1>3, <2>1, Here
  <1> QED
    BY <1>1, <1>2, <1>3, <1>4, <1>5 DEF OnStackNow

(***************************************************************************)
(* RegistersRestored: after a call the registers pushed for it are taken   *)
(* from the words they were pushed to, and RET and FRET find the saved     *)
(* registers above the padding, the caller's BP and the return address,    *)
(* whatever was stored or called before (emit_pop_caller_saved_regs,       *)
(* emit_pop_callee_saved_regs).                                            *)
(***************************************************************************)
THEOREM RegistersAreRestored == Spec => []RegistersRestored
  <1>1. RunInv => RegistersRestored
    <2> SUFFICES ASSUME RunInv PROVE RegistersRestored
      OBVIOUS
    <2>1. ASSUME calling
          PROVE  LET n   == Live(Func, at)
                     top == sp - Instr.add
                 IN top >= n /\ \A i \in 1 .. n : stack[top - n + i] = <<"live", i>>
      <3>1. phase = "run" /\ at \in DOMAIN Func.body /\ Func.body[at].kind = "CALL" /\ at > 0
        <4>1. at \in DOMAIN Func.body /\ Func.body[at].kind = "CALL"
          BY <2>1 DEF RunInv
        <4>2. at \notin {0, 1}
          BY <2>1 DEF RunInv
        <4>3. phase = "run"
          BY <4>2 DEF RunInv
        <4> QED
          BY <4>1, <4>2, <4>3, RunningFacts
      <3>2. /\ at > 1 /\ Waiting(Func, at) = Live(Func, at) /\ Instr.add = Pushed(Func, at, Instr)
            /\ Instr.add \in Nat
        BY <3>1, CallFacts
      <3>3. /\ OnStackNow(Func, Info, at, Instr)
            /\ sp = (Base(Func, Info) + Waiting(Func, at)) + Pushed(Func, at, Instr)
            /\ Base(Func, Info) \in Nat /\ Waiting(Func, at) \in Nat
        BY <2>1, <3>1, <3>2, Here
      <3>4. sp - Instr.add = Base(Func, Info) + Live(Func, at) /\ Live(Func, at) \in Nat
        BY <3>2, <3>3
      <3>5. \A i \in 1 .. Live(Func, at) :
              sp - Instr.add - Live(Func, at) + i = Base(Func, Info) + i
        BY <3>3, <3>4
      <3>6. \A i \in 1 .. Live(Func, at) : stack[Base(Func, Info) + i] = <<"live", i>>
        BY <3>2, <3>3 DEF OnStackNow, LiveIn
      <3> QED
        BY <3>3, <3>4, <3>5, <3>6
    <2>2. ASSUME Running({"RET", "FRET"})
          PROVE  LET n   == Func.saved
                     top == sp - Instr.pos
                 IN /\ top >= n
                    /\ \A i \in 1 .. n : stack[top - n + i] = <<"saved", i>>
                    /\ IF Info.has_prolog THEN stack[bp] = <<"bp", 0>> ELSE sp = Instr.add
      <3>1. /\ phase = "run" /\ at \in DOMAIN Func.body
            /\ Instr.add = Align(Func.saved) /\ Instr.pos = Align(Func.saved) - Func.saved
            /\ sp = Base(Func, Info) /\ bp = Bottom(Info) /\ SavedIn(Func, Info, stack)
        BY <2>2, RetFacts
      <3>2. /\ Func.saved \in Nat /\ Align(Func.saved) \in Nat
            /\ Below(Func, Info) \in Nat /\ Base(Func, Info) = Below(Func, Info) + Align(Func.saved)
            /\ Info.has_prolog => Bottom(Info) = 1
            /\ ~Info.has_prolog => Below(Func, Info) = 0
        BY <3>1, DepthFacts
      <3>3. sp - Instr.pos = Below(Func, Info) + Func.saved
        BY <3>1, <3>2
      <3>4. \A i \in 1 .. Func.saved :
              sp - Instr.pos - Func.saved + i = Below(Func, Info) + i
        BY <3>2, <3>3
      <3>5. \A i \in 1 .. Func.saved : stack[Below(Func, Info) + i] = <<"saved", i>>
        BY <3>1 DEF SavedIn
      <3>6. Info.has_prolog => stack[bp] = <<"bp", 0>>
        BY <3>1, <3>2 DEF SavedIn
      <3>7. ~Info.has_prolog => sp = Instr.add
        BY <3>1, <3>2
      <3> QED
        BY <3>2, <3>3, <3>4, <3>5, <3>6, <3>7
    <2> QED
      BY <2>1, <2>2 DEF RegistersRestored
  <1> QED
    BY <1>1, StackIsLaidOut, PTL

(* A CALL that has passed its arguments.                                   *)
LEMMA CallingFacts ==
    ASSUME RunInv, calling
    PROVE  /\ phase = "run" /\ at \in DOMAIN Func.body /\ Func.body[at].kind = "CALL" /\ at > 1
           /\ OnStackNow(Func, Info, at, Instr)
           /\ sp = ((Base(Func, Info) + Waiting(Func, at)) + Instr.sub) + OnStackSize(Func, at)
           /\ Base(Func, Info) \in Nat /\ Waiting(Func, at) \in Nat /\ Instr.sub \in Nat
           /\ OnStackSize(Func, at) \in Nat /\ Len(stack) = sp /\ stack \in Seq(StackWords)
  <1>1. at \in DOMAIN Func.body /\ Func.body[at].kind = "CALL" /\ at \notin {0, 1}
    BY DEF RunInv
  <1>2. phase = "run"
    BY <1>1 DEF RunInv
  <1>3. at > 0
    BY <1>1, <1>2, RunningFacts
  <1>4. /\ at > 1 /\ Instr.sub \in Nat /\ OnStackSize(Func, at) \in Nat
    BY <1>1, <1>2, <1>3, CallFacts
  <1>5. /\ OnStackNow(Func, Info, at, Instr)
        /\ sp = (Base(Func, Info) + Waiting(Func, at)) + Pushed(Func, at, Instr)
        /\ Base(Func, Info) \in Nat /\ Waiting(Func, at) \in Nat
        /\ Len(stack) = sp /\ stack \in Seq(StackWords)
    BY <1>1, <1>2, <1>4, Here
  <1>6. sp = ((Base(Func, Info) + Waiting(Func, at)) + Instr.sub) + OnStackSize(Func, at)
    BY <1>4, <1>5 DEF Pushed
  <1> QED
    BY <1>1, <1>2, <1>4, <1>5, <1>6

(***************************************************************************)
(* ArgumentsArrive: each argument emit_arguments pushes is at the word     *)
(* above its return address where the callee looks for it, whatever the    *)
(* classes of the arguments and the number of registers that pass them.    *)
(***************************************************************************)
THEOREM ArgumentsDoArrive == Spec => []ArgumentsArrive
  <1>1. RunInv => ArgumentsArrive
    <2> DEFINE kinds == ArgKinds(Func, at)
               size == OnStackSize(Func, at)
               top == (Base(Func, Info) + Waiting(Func, at)) + Instr.sub
    <2>1. SUFFICES ASSUME RunInv, calling, NEW i \in Params(Callee(kinds)),
                          ~PassedByReg(Callee(kinds), i)
                   PROVE  LET w == sp - StackPos(Callee(kinds), i)
                          IN w \in DOMAIN stack /\ stack[w] = <<"out", i>>
      BY DEF ArgumentsArrive, Callee
    <2>2. /\ phase = "run" /\ at \in DOMAIN Func.body /\ Func.body[at].kind = "CALL" /\ at > 1
          /\ OnStackNow(Func, Info, at, Instr)
          /\ sp = top + size /\ Len(stack) = sp /\ stack \in Seq(StackWords)
          /\ Base(Func, Info) \in Nat /\ Waiting(Func, at) \in Nat /\ Instr.sub \in Nat
          /\ size \in Nat
      BY <2>1, CallingFacts
    <2>3. kinds \in Seq({"gp", "fp"}) /\ Len(OnStack(kinds)) = size
      <3>1. at > 0
        BY <2>1, <2>2, RunningFacts
      <3>2. /\ ArgKinds(Func, at) \in Seq({"gp", "fp"})
            /\ Len(OnStack(ArgKinds(Func, at))) = OnStackSize(Func, at)
        BY <2>1, <2>2, <3>1, CallFacts
      <3> QED
        BY <3>2
    <2>4. top \in Nat
      BY <2>2
    <2>5. ArgumentsIn(Func, Info, at, Instr, stack)
      BY <2>1, <2>2 DEF OnStackNow
    <2> DEFINE Same(m) == stack[top + m] = OnStack(kinds)[m]
    <2>6. \A m \in 1 .. size : Same(m)
      BY <2>5 DEF ArgumentsIn
    <2> HIDE DEF top, size, kinds
    <2> DEFINE m == size - StackPos(Callee(kinds), i)
    <2>7. m \in 1 .. size /\ OnStack(kinds)[m] = <<"out", i>>
      BY <2>1, <2>3, OnStackFacts
    <2>8. StackPos(Callee(kinds), i) \in Int
      <3>1. Signature(Callee(kinds))
        BY <2>3 DEF Signature, Callee
      <3> QED
        BY <2>1, <3>1, StackPosFacts
    <2>9. sp - StackPos(Callee(kinds), i) = top + m
      BY <2>2, <2>4, <2>8
    <2> HIDE DEF m
    <2>10. stack[top + m] = <<"out", i>>
      BY <2>6, <2>7
    <2>11. top + m \in 1 .. sp
      BY <2>2, <2>4, <2>7
    <2> QED
      BY <2>2, <2>9, <2>10, <2>11
  <1> QED
    BY <1>1, StackIsLaidOut, PTL

(* No FRET of a function that saves an odd number of registers is emitted  *)
(* before one of its calls: emit_fret_op takes the registers off           *)
(* push_count, though the calls run with them pushed.                      *)
CallsBeforeFrets ==
    \A u \in Units : \A k \in DOMAIN u : \A o \in DOMAIN u[k].body :
      u[k].body[o].kind = "CALL" => Evenly(u[k], o)

LEMMA OddDepth ==
    ASSUME NEW below \in Nat, NEW a \in Nat, NEW w \in Nat, NEW s \in Nat, NEW c \in Nat,
           NEW r \in {0, 1}, ((a + w) + (s + c)) % 2 = r, (below + r) % 2 = 1
    PROVE  ((((below + a) + w) + c) + s) % 2 = 1
  <1> DEFINE n == (a + w) + (s + c)
  <1>1. (((below + a) + w) + c) + s = below + n /\ n \in Nat /\ n % 2 = r
    OBVIOUS
  <1> HIDE DEF n
  <1>2. (below + n) % 2 = 1
    BY <1>1
  <1> QED
    BY <1>1, <1>2

(***************************************************************************)
(* CallsAligned: at every call, on every path to it, SP is a multiple of   *)
(* 16, in functions with and without a frame pointer.  The hypothesis      *)
(* excludes only what emit_fret_op miscounts.                              *)
(***************************************************************************)
THEOREM CallsAreAligned ==
    ASSUME CallsBeforeFrets
    PROVE  Spec => []CallsAligned
  <1>1. RunInv => CallsAligned
    <2> SUFFICES ASSUME RunInv, calling PROVE sp % 2 = 1
      BY DEF CallsAligned
    <2>1. /\ phase = "run" /\ at \in DOMAIN Func.body /\ Func.body[at].kind = "CALL" /\ at > 1
          /\ sp = ((Base(Func, Info) + Waiting(Func, at)) + Instr.sub) + OnStackSize(Func, at)
          /\ Waiting(Func, at) \in Nat /\ Instr.sub \in Nat /\ OnStackSize(Func, at) \in Nat
      BY CallingFacts
    <2>2. Evenly(Func, at)
      <3>1. unit \in Units /\ fn \in DOMAIN unit
        BY <2>1, RunningFacts DEF RunInv, EmitInv, InfoInv
      <3> QED
        BY <2>1, <3>1 DEF CallsBeforeFrets, Func
    <2>3. CallAligned(Func, at, Instr.sub, Info.has_prolog)
      BY <2>1, <2>2, RunningFacts, CallFacts
    <2>4. /\ Align(Func.saved) \in Nat /\ Below(Func, Info) \in Nat /\ FrameOf(Func) \in Nat
          /\ Base(Func, Info) = Below(Func, Info) + Align(Func.saved)
          /\ Info.has_prolog => Below(Func, Info) = 1 + FrameOf(Func)
          /\ ~Info.has_prolog => Below(Func, Info) = 0
      BY <2>1, DepthFacts
    <2> DEFINE r == IF Info.has_prolog THEN 0 ELSE 1
    <2>5. ((Align(Func.saved) + Waiting(Func, at)) + (OnStackSize(Func, at) + Instr.sub)) % 2 = r
      BY <2>3 DEF CallAligned
    <2>6. FrameOf(Func) % 2 = 0 /\ Info.has_prolog \in BOOLEAN
      BY <2>1, RunningFacts, FrameFacts
    <2>7. r \in {0, 1} /\ (Below(Func, Info) + r) % 2 = 1
      <3>1. CASE Info.has_prolog
        BY <2>4, <2>6, <3>1
      <3>2. CASE ~Info.has_prolog
        BY <2>4, <2>6, <3>2
      <3> QED
        BY <2>6, <3>1, <3>2
    <2> HIDE DEF r
    <2> QED
      BY <2>1, <2>4, <2>5, <2>7, OddDepth
  <1> QED
    BY <1>1, StackIsLaidOut, PTL

-----------------------------------------------------------------------------
(* What a program must not do for its values to be found again: store both *)
(* argument 0 and the register that has the same word; ...                 *)
StoresApart(f) ==
    \A o, p \in DOMAIN f.body :
      f.body[o].kind \in {"UREG", "ST"} /\ f.body[p].kind \in {"UREG", "ST"} =>
        ~Clash(f, f.body[o].x, f.body[p].x)

(* ... store an argument when jit->current_func has other memory; ...      *)
ArgumentsFound(u, k) ==
    (\E o \in DOMAIN u[k].body : u[k].body[o].kind = "UREG" /\ u[k].body[o].x.class = "arg")
       => AllocaMem(u[k]) = AllocaMem(u[Len(u)])

(* ... or read an argument by way of SP after a FRET that has miscounted.  *)
GetargsBeforeFrets(u, k) ==
    \A o \in DOMAIN u[k].body :
      u[k].body[o].kind = "GETARG" /\ ~PassedByReg(u[k], u[k].body[o].x.n) =>
        Exactly(u[k], o) \/ HasFrame(u, k)

ValuesFound ==
    \A u \in Units : \A k \in DOMAIN u :
      StoresApart(u[k]) /\ ArgumentsFound(u, k) /\ GetargsBeforeFrets(u, k)

(* Every stored cell has its value in its words.                           *)
Held ==
    phase = "run" /\ at > 1 =>
      \A x \in stored : \A w \in WordsOf(Func, x) :
        w \in 2 .. Below(Func, Info) /\ stack[w] = <<x.class, x.n>>

LEMMA StoredFacts ==
    ASSUME RunInv, phase = "run", NEW x, StoredBy(Func, x)
    PROVE  x \in Cell /\ HasPlace(Func, x) /\ Info.has_prolog
  <1>1. PICK o \in DOMAIN Func.body : Func.body[o].kind \in {"UREG", "ST"} /\ Func.body[o].x = x
    BY DEF StoredBy
  <1>2. IsFunction(Func) /\ (UsesFrame(Func) => Info.has_prolog)
    BY RunningFacts
  <1>3. x \in Cell /\ HasPlace(Func, x)
    BY <1>1, <1>2, AccessHasPlace
  <1>4. CASE Func.body[o].kind = "UREG"
    BY <1>2, <1>3, <1>4 DEF UsesFrame
  <1>5. CASE Func.body[o].kind = "ST"
    <2>1. x.n \in DOMAIN Func.allocas
      BY <1>1, <1>2, <1>5 DEF IsFunction, WellFormedFunction
    <2>2. Func.allocas # <<>>
      BY <2>1
    <2> QED
      BY <1>2, <1>3, <2>2 DEF UsesFrame
  <1> QED
    BY <1>1, <1>4, <1>5

LEMMA UntouchedHeld ==
    ASSUME RunInv, Held, phase = "run", at > 1, UNCHANGED <<unit, phase, emitVars>>,
           stored' = stored, Untouched
    PROVE  Held'
  <1>1. Func' = Func /\ Info' = Info
    BY DEF emitVars, Func, Info
  <1>2. SUFFICES ASSUME NEW x \in stored, NEW w \in WordsOf(Func, x)
                 PROVE  w \in 2 .. Below(Func, Info) /\ stack'[w] = <<x.class, x.n>>
    BY <1>1 DEF Held
  <1>3. w \in 2 .. Below(Func, Info) /\ stack[w] = <<x.class, x.n>>
    BY <1>2 DEF Held
  <1>4. /\ Below(Func, Info) \in Nat /\ Align(Func.saved) \in Nat
        /\ Base(Func, Info) = Below(Func, Info) + Align(Func.saved)
    <2>1. 1 \in DOMAIN Func.body
      BY RunningFacts
    <2> QED
      BY <2>1, DepthFacts
  <1>5. w \in 1 .. Base(Func, Info)
    BY <1>3, <1>4
  <1> QED
    BY <1>3, <1>5 DEF Untouched

LEMMA StoreHeld ==
    ASSUME ValuesFound, RunInv, Held, RunStore
    PROVE  Held'
  <1>1. /\ phase = "run" /\ at > 1 /\ at \in DOMAIN Func.body
        /\ UNCHANGED <<unit, phase, emitVars>>
        /\ Waiting(Func, at) = 0 /\ ~calling
        /\ X \in Cell /\ HasPlace(Func, X) /\ StoredBy(Func, X)
        /\ stored' = stored \cup {X}
        /\ stack' = [w \in DOMAIN stack |->
                       IF w \in WordsOf(Func, X) THEN <<X.class, X.n>> ELSE stack[w]]
        /\ \A w \in WordsOf(Func, X) : w \in 2 .. Below(Func, Info)
        /\ OnStackNow(Func, Info, at, Instr)
    BY StoreFacts
  <1>2. IsFunction(Func) /\ unit \in Units /\ fn \in DOMAIN unit
    BY <1>1, RunningFacts DEF RunInv, EmitInv, InfoInv
  <1>3. StoresApart(Func)
    BY <1>2 DEF ValuesFound, Func
  <1>4. \A w \in 2 .. Below(Func, Info) : w \in DOMAIN stack
    <2>1. /\ stack \in Seq(StackWords) /\ Len(stack) = sp /\ sp = Base(Func, Info) + 0
          /\ Base(Func, Info) \in Nat
      BY <1>1, Here
    <2>2. /\ Below(Func, Info) \in Nat /\ Align(Func.saved) \in Nat
          /\ Base(Func, Info) = Below(Func, Info) + Align(Func.saved)
      BY <1>1, DepthFacts
    <2>3. DOMAIN stack = 1 .. Base(Func, Info)
      BY <2>1
    <2> QED
      BY <2>2, <2>3
  <1>5. Func' = Func /\ Info' = Info
    BY <1>1 DEF emitVars, Func, Info
  <1>6. SUFFICES ASSUME NEW x \in stored', NEW w \in WordsOf(Func, x)
                 PROVE  w \in 2 .. Below(Func, Info) /\ stack'[w] = <<x.class, x.n>>
    BY <1>5 DEF Held
  <1>7. CASE x = X
    BY <1>1, <1>4, <1>6, <1>7
  <1>8. CASE x # X
    <2>1. x \in stored
      BY <1>1, <1>6, <1>8
    <2>2. StoredBy(Func, x)
      BY <1>1, <2>1 DEF OnStackNow
    <2>3. x \in Cell /\ HasPlace(Func, x)
      BY <1>1, <2>2, StoredFacts
    <2>4. ~Clash(Func, x, X) /\ ~Clash(Func, X, x)
      BY <1>1, <1>3, <2>2 DEF StoresApart, StoredBy
    <2>5. WordsOf(Func, x) \cap WordsOf(Func, X) = {}
      BY <1>1, <1>2, <1>8, <2>3, <2>4, PlacesApart
    <2>6. w \in 2 .. Below(Func, Info) /\ stack[w] = <<x.class, x.n>>
      BY <1>1, <1>6, <2>1 DEF Held
    <2> QED
      BY <1>1, <1>4, <1>6, <2>5, <2>6
  <1> QED
    BY <1>7, <1>8

LEMMA HeldInductive ==
    ASSUME ValuesFound
    PROVE  RunInv /\ Held /\ [Next]_vars => Held'
  <1> SUFFICES ASSUME RunInv, Held, [Next]_vars PROVE Held'
    OBVIOUS
  <1>1. CASE UNCHANGED vars
    BY <1>1 DEF vars, emitVars, runVars, Held, Func, Info
  <1>2. CASE CountRegisters \/ PrepareArguments \/ OmitFramePointers \/ Call
    <2>1. phase' # "run" \/ at' = 1
      BY <1>2 DEF CountRegisters, PrepareArguments, OmitFramePointers, Call
    <2> QED
      BY <2>1 DEF Held
  <1>3. CASE EmitProlog \/ EmitAccess \/ EmitGetArg \/ EmitPrepare \/ EmitPutArg \/ EmitCall
               \/ EmitRet \/ EmitOther
    <2>1. phase' # "run"
      BY <1>3 DEF EmitProlog, EmitAccess, EmitGetArg, EmitPrepare, EmitPutArg, EmitCall, EmitRet,
                  EmitOther, Emitting, Emitted
    <2> QED
      BY <2>1 DEF Held
  <1>4. CASE RunProlog
    <2>1. phase = "run" /\ at \in DOMAIN Func.body /\ Func.body[at].kind = "PROLOG" /\ stored' = stored
      BY <1>4 DEF RunProlog, Running, RunInv
    <2>2. at = 1
      BY <2>1, RunningFacts, NextFacts
    <2> QED
      BY <2>1, <2>2 DEF Held, RunInv
  <1>5. CASE RunRet
    <2>1. at' = -1
      BY <1>5 DEF RunRet, Ran
    <2> QED
      BY <2>1 DEF Held
  <1>6. ASSUME RunLoad \/ RunBranch \/ RunPrepare \/ RunArguments \/ RunReturned
        PROVE  Held'
    <2>1. /\ phase = "run" /\ at \in DOMAIN Func.body /\ at > 0 /\ stored' = stored
          /\ UNCHANGED <<unit, phase, emitVars>>
          /\ Func.body[at].kind \notin {"PROLOG", "RET", "FRET"}
      BY <1>6 DEF RunLoad, RunBranch, RunPrepare, RunArguments, RunReturned, Running, Ran, RunInv
    <2>2. at > 1
      BY <2>1, Onward
    <2>3. Untouched
      BY <1>6, PrepareRuns, ArgumentsRun, ReturnRuns DEF RunLoad, RunBranch, Untouched
    <2> QED
      BY <2>1, <2>2, <2>3, UntouchedHeld
  <1> QED
    BY <1>1, <1>2, <1>3, <1>4, <1>5, <1>6, StoreHeld DEF Next

(* Where a read of an argument on the stack ends up.                       *)
LEMMA StackedArgument ==
    ASSUME ValuesFound, RunInv, Running({"LREG", "LD", "GETARG"}),
           X.class = "arg", ~PassedByReg(Func, X.n)
    PROVE  Accessed = -(1 + StackPos(Func, X.n))
  <1>1. /\ phase = "run" /\ at \in DOMAIN Func.body /\ at > 0
        /\ Func.body[at].kind \in {"LREG", "LD", "GETARG"} /\ X = Func.body[at].x
    BY DEF Running, RunInv, X
  <1>2. IsFunction(Func) /\ unit \in Units /\ fn \in DOMAIN unit /\ Info.has_prolog \in BOOLEAN
        /\ Info.has_prolog = HasFrame(unit, fn)
        /\ Info.spill_pos = [n \in Params(Func) |-> SpillPosOf(unit, fn, n)]
    BY <1>1, RunningFacts DEF RunInv, EmitInv, InfoInv
  <1>3. Func.body[at].kind = "GETARG" /\ X.n \in Params(Func)
    BY <1>1, <1>2 DEF IsFunction, WellFormedFunction
  <1>4. /\ at > 1 /\ Waiting(Func, at) = 0 /\ ~calling
    BY <1>1, <1>3, Onward DEF Inside, RunInv
  <1>5. /\ OnStackNow(Func, Info, at, Instr) /\ sp = Base(Func, Info) + 0
        /\ bp = Bottom(Info)
    BY <1>1, <1>4, Here DEF OnStackNow
  <1>6. /\ Align(Func.saved) \in Nat /\ Base(Func, Info) \in Nat
        /\ Base(Func, Info) = Below(Func, Info) + Align(Func.saved)
        /\ Info.has_prolog => Bottom(Info) = 1
        /\ ~Info.has_prolog => Below(Func, Info) = 0
    BY <1>1, DepthFacts
  <1>7. StackPos(Func, X.n) \in Int
    BY <1>2, <1>3, FunctionFacts, StackPosFacts
  <1>8. /\ Info.has_prolog => Instr.base = "bp" /\ Instr.pos = Info.spill_pos[X.n]
        /\ ~Info.has_prolog => /\ Instr.base = "sp"
                               /\ Exactly(Func, at) =>
                                    Instr.pos = -((1 + StackPos(Func, X.n)) + Align(Func.saved))
    <2>1. Expected(Func, Info, at, Instr)
      BY <1>1, RunningFacts DEF Instr
    <2> QED
      BY <1>1, <1>3, <2>1 DEF Expected
  <1>9. CASE Info.has_prolog
    <2>1. Info.spill_pos[X.n] = -(2 + StackPos(Func, X.n))
      BY <1>2, <1>3 DEF SpillPosOf, Func
    <2> QED
      BY <1>5, <1>6, <1>7, <1>8, <1>9, <2>1 DEF Accessed
  <1>10. CASE ~Info.has_prolog
    <2>1. GetargsBeforeFrets(unit, fn)
      BY <1>2 DEF ValuesFound
    <2>2. Exactly(Func, at)
      BY <1>1, <1>2, <1>3, <1>10, <2>1 DEF GetargsBeforeFrets, Func
    <2> QED
      BY <1>5, <1>6, <1>7, <1>8, <1>10, <2>2 DEF Accessed
  <1> QED
    BY <1>2, <1>9, <1>10

(* A read of something stored is at its place.                             *)
LEMMA ReadAtPlace ==
    ASSUME ValuesFound, RunInv, Running({"LREG", "LD", "GETARG"}), X \in stored,
           ~(X.class = "arg" /\ ~PassedByReg(Func, X.n))
    PROVE  Accessed = Place(Func, X)
  <1>1. /\ phase = "run" /\ at \in DOMAIN Func.body /\ at > 0
        /\ Func.body[at].kind \in {"LREG", "LD", "GETARG"} /\ X = Func.body[at].x
    BY DEF Running, RunInv, X
  <1>2. IsFunction(Func) /\ unit \in Units /\ fn \in DOMAIN unit
        /\ Info.gp_reg_count = Evened(Func)
        /\ Info.spill_pos = [n \in Params(Func) |-> SpillPosOf(unit, fn, n)]
    BY <1>1, RunningFacts DEF RunInv, EmitInv, InfoInv
  <1>3. at > 1
    BY <1>1, Onward
  <1>4. OnStackNow(Func, Info, at, Instr)
    BY <1>1, <1>3 DEF RunInv
  <1>5. StoredBy(Func, X) /\ X \in Cell /\ Info.has_prolog
    BY <1>1, <1>4, StoredFacts DEF OnStackNow
  <1>6. bp = 1
    BY <1>4, <1>5 DEF OnStackNow, Bottom
  <1>7. Expected(Func, Info, at, Instr)
    BY <1>1, RunningFacts DEF Instr
  <1>8. CASE Func.body[at].kind \in {"LREG", "LD"}
    <2>1. Instr.base = "bp" /\ Instr.pos = RegPos(Func, Evened(Func), AllocaMem(Func), X)
      BY <1>1, <1>2, <1>7, <1>8 DEF Expected
    <2> QED
      BY <1>6, <2>1 DEF Accessed, Place
  <1>9. CASE Func.body[at].kind = "GETARG"
    <2>1. X.class = "arg" /\ X.n \in Params(Func)
      BY <1>1, <1>2, <1>9 DEF IsFunction, WellFormedFunction
    <2>2. Instr.base = "bp" /\ Instr.pos = Info.spill_pos[X.n]
      BY <1>1, <1>5, <1>7, <1>9 DEF Expected
    <2>3. Info.spill_pos[X.n] = RegPos(Func, Evened(Func), AllocaMem(unit[Len(unit)]), ArgCell(X.n))
      BY <1>2, <2>1 DEF SpillPosOf, Func
    <2>4. AllocaMem(Func) = AllocaMem(unit[Len(unit)])
      <3>1. PICK o \in DOMAIN Func.body :
              Func.body[o].kind \in {"UREG", "ST"} /\ Func.body[o].x = X
        BY <1>5 DEF StoredBy
      <3>2. Func.body[o].kind = "UREG"
        BY <1>2, <2>1, <3>1 DEF IsFunction, WellFormedFunction
      <3>3. ArgumentsFound(unit, fn)
        BY <1>2 DEF ValuesFound
      <3> QED
        BY <2>1, <3>1, <3>2, <3>3 DEF ArgumentsFound, Func
    <2>5. RegPos(Func, Evened(Func), AllocaMem(Func), ArgCell(X.n))
            = RegPos(Func, Evened(Func), AllocaMem(Func), X)
      BY <2>1 DEF RegPos, ArgCell
    <2> QED
      BY <1>6, <2>2, <2>3, <2>4, <2>5 DEF Accessed, Place
  <1> QED
    BY <1>1, <1>8, <1>9

(***************************************************************************)
(* ReadsBack: what LREG, LD and GETARG read is what was last stored for    *)
(* that register, block or argument, or the word the caller passed.  The   *)
(* hypothesis excludes only the three cases ValuesFound names.  In all     *)
(* others the words of two cells that are stored are disjoint              *)
(* (PlacesApart), and no call or register saved reaches into the frame.    *)
(***************************************************************************)
THEOREM ValuesReadBack ==
    ASSUME ValuesFound
    PROVE  Spec => []ReadsBack
  <1>1. Init => Held
    BY DEF Init, Held
  <1>2. RunInv /\ Held => ReadsBack
    <2> SUFFICES ASSUME RunInv, Held, Running({"LREG", "LD", "GETARG"})
                 PROVE  IF X.class = "arg" /\ ~PassedByReg(Func, X.n)
                        THEN Accessed = -(1 + StackPos(Func, X.n))
                        ELSE X \in stored =>
                               \A w \in Words(Func, X, Accessed) :
                                 w \in DOMAIN stack /\ stack[w] = <<X.class, X.n>>
      BY DEF ReadsBack
    <2>1. CASE X.class = "arg" /\ ~PassedByReg(Func, X.n)
      BY <2>1, StackedArgument
    <2>2. ASSUME ~(X.class = "arg" /\ ~PassedByReg(Func, X.n)), X \in stored,
                 NEW w \in Words(Func, X, Accessed)
          PROVE  w \in DOMAIN stack /\ stack[w] = <<X.class, X.n>>
      <3>1. w \in WordsOf(Func, X)
        BY <2>2, ReadAtPlace DEF WordsOf
      <3>2. /\ phase = "run" /\ at \in DOMAIN Func.body /\ at > 0
            /\ Func.body[at].kind \in {"LREG", "LD", "GETARG"}
        BY DEF Running, RunInv
      <3>3. at > 1 /\ ~calling /\ Waiting(Func, at) = 0
        BY <3>2, Onward DEF Inside, RunInv
      <3>4. w \in 2 .. Below(Func, Info) /\ stack[w] = <<X.class, X.n>>
        BY <2>2, <3>1, <3>2, <3>3 DEF Held
      <3>5. /\ stack \in Seq(StackWords) /\ Len(stack) = sp /\ sp = Base(Func, Info) + 0
        BY <3>2, <3>3, Here
      <3>6. /\ Below(Func, Info) \in Nat /\ Align(Func.saved) \in Nat
            /\ Base(Func, Info) = Below(Func, Info) + Align(Func.saved)
        BY <3>2, DepthFacts
      <3>7. DOMAIN stack = 1 .. Len(stack)
        BY <3>5
      <3> QED
        BY <3>4, <3>5, <3>6, <3>7
    <2> QED
      BY <2>1, <2>2
  <1> QED
    BY <1>1, <1>2, HeldInductive, StackIsLaidOut, PTL DEF Spec

=============================================================================
