------------------------------ MODULE Iteration ------------------------------
(***************************************************************************)
(* Induction over sets of numbers, and what it says of the definitions     *)
(* that walk a finite list or graph step by step (the liveness and dead    *)
(* code analyses, the walk along the list of operations): a function       *)
(* R[k \in 0 .. N] that applies one step to R[k - 1] exists, and when each *)
(* step only adds to a set of at most N elements, the last one has come to *)
(* rest.                                                                   *)
(***************************************************************************)
EXTENDS Integers, FiniteSets, FiniteSetTheorems, WellFoundedInduction, TLAPS

LEMMA LeastElement ==
    ASSUME NEW T, T \subseteq Nat, T # {}
    PROVE  \E m \in T : \A k \in T : m <= k
  <1> DEFINE Less == {ss \in Nat \X Nat : ss[1] < ss[2]}
  <1>1. IsWellFoundedOn(Less, Nat)
    BY NatLessThanWellFounded, Zenon DEF OpToRel
  <1>2. PICK m \in T : \A k \in T : <<k, m>> \notin Less
    <2> HIDE DEF Less
    <2> QED
      BY <1>1, WFMin
  <1>3. \A k \in T : ~(k < m)
    BY <1>2
  <1> QED
    BY <1>3

LEMMA InductionTo ==
    ASSUME NEW N \in Nat, NEW S, 0 \in S, \A k \in 0 .. N - 1 : k \in S => k + 1 \in S
    PROVE  0 .. N \subseteq S
  <1> DEFINE Missing == (0 .. N) \ S
  <1>1. SUFFICES ASSUME Missing # {} PROVE FALSE
    OBVIOUS
  <1>2. Missing \subseteq Nat
    OBVIOUS
  <1>3. PICK m \in Missing : \A k \in Missing : m <= k
    BY <1>1, <1>2, LeastElement
  <1>4. m # 0 /\ m - 1 \in 0 .. N - 1
    BY <1>3
  <1>5. m - 1 \in S
    BY <1>3, <1>4
  <1> QED
    BY <1>3, <1>4, <1>5

(* The function that starts with a and applies step again and again.       *)
Iterates(h, N, T, a, step) ==
    h \in [0 .. N -> T] /\ h[0] = a /\ \A k \in 1 .. N : h[k] = step[h[k - 1]]

LEMMA IterationExists ==
    ASSUME NEW N \in Nat, NEW T, NEW a \in T, NEW step \in [T -> T]
    PROVE  \E h : Iterates(h, N, T, a, step)
  <1> DEFINE S == {n \in 0 .. N : \E h : Iterates(h, n, T, a, step)}
  <1>1. 0 \in S
    <2> DEFINE h == [k \in 0 .. 0 |-> a]
    <2>1. Iterates(h, 0, T, a, step)
      BY DEF Iterates
    <2> QED
      BY <2>1
  <1>2. ASSUME NEW n \in 0 .. N - 1, n \in S PROVE n + 1 \in S
    <2>1. PICK h : Iterates(h, n, T, a, step)
      BY <1>2
    <2> DEFINE g == [k \in 0 .. n + 1 |-> IF k = n + 1 THEN step[h[n]] ELSE h[k]]
    <2>2. g \in [0 .. n + 1 -> T]
      BY <2>1 DEF Iterates
    <2>3. g[0] = a
      BY <2>1 DEF Iterates
    <2>4. ASSUME NEW k \in 1 .. n + 1 PROVE g[k] = step[g[k - 1]]
      <3>1. CASE k = n + 1
        BY <3>1
      <3>2. CASE k # n + 1
        BY <3>2, <2>1 DEF Iterates
      <3> QED
        BY <3>1, <3>2
    <2>5. Iterates(g, n + 1, T, a, step)
      BY <2>2, <2>3, <2>4 DEF Iterates
    <2> QED
      BY <2>5
  <1>3. N \in S
    <2> HIDE DEF S
    <2> QED
      BY <1>1, <1>2, InductionTo
  <1> QED
    BY <1>3

(* The same where the step depends on its number.                          *)
IsIndexedWalk(h, N, a, step) == h = [k \in 0 .. N |-> IF k = 0 THEN a ELSE step[k][h[k - 1]]]

LEMMA IndexedWalkExists ==
    ASSUME NEW N \in Nat, NEW T, NEW a \in T, NEW step \in [1 .. N -> [T -> T]]
    PROVE  \E h \in [0 .. N -> T] : IsIndexedWalk(h, N, a, step)
  <1> DEFINE P == (0 .. N) \X T
             pair == [p \in P |-> IF p[1] < N THEN <<p[1] + 1, step[p[1] + 1][p[2]]>> ELSE p]
  <1>1. pair \in [P -> P]
    <2>1. ASSUME NEW k \in 0 .. N, NEW t \in T, k < N
          PROVE  k + 1 \in 0 .. N /\ step[k + 1][t] \in T
      <3>1. k + 1 \in 1 .. N
        BY <2>1
      <3> QED
        BY <3>1
    <2> QED
      BY <2>1
  <1>2. <<0, a>> \in P
    OBVIOUS
  <1>3. PICK g : Iterates(g, N, P, <<0, a>>, pair)
    <2> HIDE DEF P, pair
    <2> QED
      BY <1>1, <1>2, IterationExists
  <1> DEFINE S == {k \in 0 .. N : g[k][1] = k}
             h == [k \in 0 .. N |-> g[k][2]]
  <1>4. \A k \in 0 .. N : g[k] \in P
    BY <1>3 DEF Iterates
  <1>5. ASSUME NEW k \in 0 .. N - 1, g[k][1] = k
        PROVE  g[k + 1] = <<k + 1, step[k + 1][g[k][2]]>>
    <2>1. k + 1 \in 1 .. N /\ (k + 1) - 1 = k /\ k \in 0 .. N /\ k < N
      OBVIOUS
    <2>2. g[k + 1] = pair[g[k]] /\ g[k] \in P
      BY <1>3, <1>4, <2>1 DEF Iterates
    <2> QED
      BY <1>5, <2>1, <2>2
  <1>6. \A k \in 0 .. N : g[k][1] = k
    <2>1. 0 \in S
      BY <1>3 DEF Iterates
    <2>2. ASSUME NEW k \in 0 .. N - 1, k \in S PROVE k + 1 \in S
      BY <1>5, <2>2
    <2>3. 0 .. N \subseteq S
      <3> HIDE DEF S
      <3> QED
        BY <2>1, <2>2, InductionTo
    <2> QED
      BY <2>3
  <1>7. h \in [0 .. N -> T] /\ h[0] = a
    <2>1. 0 \in 0 .. N /\ g[0] = <<0, a>>
      BY <1>3 DEF Iterates
    <2> QED
      BY <1>4, <2>1
  <1>8. ASSUME NEW k \in 0 .. N PROVE h[k] = IF k = 0 THEN a ELSE step[k][h[k - 1]]
    <2>1. CASE k = 0
      BY <1>7, <2>1
    <2>2. CASE k # 0
      <3>1. k - 1 \in 0 .. N - 1 /\ (k - 1) + 1 = k /\ k - 1 \in 0 .. N
        BY <2>2
      <3>2. g[k] = <<k, step[k][g[k - 1][2]]>>
        BY <1>5, <1>6, <3>1
      <3> QED
        BY <2>2, <3>1, <3>2
    <2> QED
      BY <2>1, <2>2
  <1> HIDE DEF h
  <1> QED
    BY <1>7, <1>8 DEF IsIndexedWalk

IsWalk(h, N, a, step) == h = [k \in 0 .. N |-> IF k = 0 THEN a ELSE step[h[k - 1]]]

LEMMA WalkExists ==
    ASSUME NEW N \in Nat, NEW T, NEW a \in T, NEW step \in [T -> T]
    PROVE  \E h \in [0 .. N -> T] : IsWalk(h, N, a, step)
  <1>1. PICK h : Iterates(h, N, T, a, step)
    BY IterationExists
  <1>2. ASSUME NEW k \in 0 .. N PROVE h[k] = IF k = 0 THEN a ELSE step[h[k - 1]]
    BY <1>1 DEF Iterates
  <1> QED
    BY <1>1, <1>2 DEF Iterates, IsWalk

(* A growing chain of subsets of X that stays where it once stood has      *)
(* stopped after as many steps as X has elements.                          *)
LEMMA ChainSettles ==
    ASSUME NEW X, IsFiniteSet(X), NEW N \in Nat, Cardinality(X) <= N,
           NEW C, \A k \in 0 .. N + 1 : C[k] \subseteq X,
           \A k \in 0 .. N : C[k] \subseteq C[k + 1],
           \A k \in 0 .. N - 1 : C[k] = C[k + 1] => C[k + 1] = C[k + 2]
    PROVE  C[N] = C[N + 1]
  <1> DEFINE S == {k \in 0 .. N : C[k] = C[k + 1] \/ Cardinality(C[k]) >= k}
  <1>1. \A k \in 0 .. N + 1 : IsFiniteSet(C[k]) /\ Cardinality(C[k]) \in Nat
    BY FS_Subset, FS_CardinalityType
  <1>2. 0 \in S
    BY <1>1
  <1>3. ASSUME NEW k \in 0 .. N - 1, k \in S PROVE k + 1 \in S
    <2>1. CASE C[k] = C[k + 1]
      BY <1>3, <2>1
    <2>2. CASE C[k] # C[k + 1] /\ Cardinality(C[k]) >= k
      <3>1. C[k] \subseteq C[k + 1] /\ IsFiniteSet(C[k + 1]) /\ Cardinality(C[k]) \in Nat
        BY <1>1
      <3>2. /\ Cardinality(C[k]) <= Cardinality(C[k + 1])
            /\ Cardinality(C[k]) # Cardinality(C[k + 1])
        BY <2>2, <3>1, FS_Subset
      <3>3. Cardinality(C[k + 1]) \in Nat
        BY <1>1
      <3> QED
        BY <2>2, <3>1, <3>2, <3>3
    <2> QED
      BY <1>3, <2>1, <2>2
  <1>4. N \in S
    <2> HIDE DEF S
    <2> QED
      BY <1>2, <1>3, InductionTo
  <1>5. CASE C[N] # C[N + 1]
    <2>1. Cardinality(C[N]) >= N
      BY <1>4, <1>5
    <2>2. C[N] \subseteq X /\ Cardinality(C[N]) \in Nat
      BY <1>1
    <2>3. Cardinality(X) \in Nat
      BY FS_CardinalityType
    <2>4. C[N] = X
      <3>1. Cardinality(C[N]) <= Cardinality(X)
        BY <2>2, FS_Subset
      <3> QED
        BY <2>1, <2>2, <2>3, <3>1, FS_Subset
    <2>5. C[N] \subseteq C[N + 1] /\ C[N + 1] \subseteq X
      OBVIOUS
    <2> QED
      BY <1>5, <2>4, <2>5
  <1> QED
    BY <1>5

-----------------------------------------------------------------------------
(* What may be read, before it is written, on the paths of a graph of N    *)
(* operations: one step goes from what is read on paths of k operations to *)
(* what is read on those of k + 1.                                         *)

ReadStep(N, use, def, succ, r) ==
    [o \in 1 .. N |-> use[o] \cup ((UNION {r[s] : s \in succ[o]}) \ def[o])]

ReadChain(R, N, use, def, succ) ==
    R[0] = use /\ \A k \in 1 .. N : R[k] = ReadStep(N, use, def, succ, R[k - 1])

LEMMA ReadStepAt ==
    ASSUME NEW N, NEW use, NEW def, NEW succ, NEW r, NEW o \in 1 .. N, NEW v
    PROVE  v \in ReadStep(N, use, def, succ, r)[o] <=>
             v \in use[o] \/ (v \notin def[o] /\ \E s \in succ[o] : v \in r[s])
  BY DEF ReadStep

LEMMA ReadChainExists ==
    ASSUME NEW N \in Nat, NEW V,
           NEW use \in [1 .. N -> SUBSET V], NEW def, NEW succ \in [1 .. N -> SUBSET (1 .. N)]
    PROVE  \E R \in [0 .. N -> [1 .. N -> SUBSET V]] : ReadChain(R, N, use, def, succ)
  <1> DEFINE T == [1 .. N -> SUBSET V]
             step == [r \in T |-> ReadStep(N, use, def, succ, r)]
  <1>1. ASSUME NEW r \in T PROVE ReadStep(N, use, def, succ, r) \in T
    BY DEF ReadStep
  <1>2. step \in [T -> T]
    BY <1>1
  <1>3. PICK R : Iterates(R, N, T, use, step)
    <2> HIDE DEF T, step
    <2>1. use \in T
      BY DEF T
    <2> QED
      BY <1>2, <2>1, IterationExists
  <1>4. ASSUME NEW k \in 1 .. N PROVE R[k] = ReadStep(N, use, def, succ, R[k - 1])
    <2> HIDE DEF T
    <2>1. R[k - 1] \in T /\ R[k] = step[R[k - 1]]
      BY <1>3 DEF Iterates
    <2> QED
      BY <2>1
  <1> QED
    BY <1>3, <1>4 DEF ReadChain, Iterates

(* The recursive function of all the steps exists, and so is what its      *)
(* definition says.                                                        *)
IsReads(R, N, use, def, succ) ==
    R = [k \in 0 .. N |-> IF k = 0 THEN use ELSE ReadStep(N, use, def, succ, R[k - 1])]

LEMMA ReadsExist ==
    ASSUME NEW N \in Nat, NEW V,
           NEW use \in [1 .. N -> SUBSET V], NEW def, NEW succ \in [1 .. N -> SUBSET (1 .. N)]
    PROVE  \E R : IsReads(R, N, use, def, succ)
  <1>1. PICK R \in [0 .. N -> [1 .. N -> SUBSET V]] : ReadChain(R, N, use, def, succ)
    BY ReadChainExists
  <1>2. ASSUME NEW k \in 0 .. N
        PROVE  R[k] = IF k = 0 THEN use ELSE ReadStep(N, use, def, succ, R[k - 1])
    BY <1>1 DEF ReadChain
  <1> QED
    BY <1>1, <1>2 DEF IsReads

LEMMA ReadsAreChain ==
    ASSUME NEW N \in Nat, NEW use, NEW def, NEW succ, NEW R, IsReads(R, N, use, def, succ)
    PROVE  ReadChain(R, N, use, def, succ)
  <1>1. ASSUME NEW k \in 1 .. N PROVE R[k] = ReadStep(N, use, def, succ, R[k - 1])
    <2>1. k \in 0 .. N /\ k # 0
      OBVIOUS
    <2> QED
      BY <2>1 DEF IsReads
  <1> QED
    BY <1>1 DEF IsReads, ReadChain

(* A solution of the equations holds all that is read on paths.            *)
Solves(X, N, use, def, succ) ==
    \A o \in 1 .. N :
        use[o] \subseteq X[o] /\ \A s \in succ[o] : X[s] \ def[o] \subseteq X[o]

LEMMA ReadChainInSolution ==
    ASSUME NEW N \in Nat, NEW use, NEW def, NEW succ \in [1 .. N -> SUBSET (1 .. N)],
           NEW R, ReadChain(R, N, use, def, succ),
           NEW X, Solves(X, N, use, def, succ)
    PROVE  \A k \in 0 .. N, o \in 1 .. N : R[k][o] \subseteq X[o]
  <1> DEFINE S == {k \in 0 .. N : \A o \in 1 .. N : R[k][o] \subseteq X[o]}
  <1>1. 0 \in S
    BY DEF ReadChain, Solves
  <1>2. ASSUME NEW k \in 0 .. N - 1, k \in S PROVE k + 1 \in S
    <2>1. R[k + 1] = ReadStep(N, use, def, succ, R[k])
      BY DEF ReadChain
    <2>2. ASSUME NEW o \in 1 .. N PROVE R[k + 1][o] \subseteq X[o]
      <3>1. \A s \in succ[o] : R[k][s] \subseteq X[s]
        BY <1>2
      <3> QED
        BY <2>1, <3>1 DEF ReadStep, Solves
    <2> QED
      BY <2>2
  <1>3. 0 .. N \subseteq S
    <2> HIDE DEF S
    <2> QED
      BY <1>1, <1>2, InductionTo
  <1> QED
    BY <1>3

(* Paths of N operations are long enough: what they read solves the        *)
(* equations.                                                              *)
LEMMA ReadChainSettles ==
    ASSUME NEW N \in Nat, NEW V,
           NEW use \in [1 .. N -> SUBSET V], NEW def, NEW succ \in [1 .. N -> SUBSET (1 .. N)],
           NEW R, ReadChain(R, N, use, def, succ)
    PROVE  R[N] = ReadStep(N, use, def, succ, R[N])
  <1> DEFINE Q == [k \in 0 .. N + 1 |-> IF k <= N THEN R[k]
                                        ELSE ReadStep(N, use, def, succ, R[N])]
  <1>1. Q[0] = use /\ Q[N] = R[N] /\ Q[N + 1] = ReadStep(N, use, def, succ, R[N])
    BY DEF ReadChain
  <1>2. ASSUME NEW k \in 0 .. N PROVE Q[k + 1] = ReadStep(N, use, def, succ, Q[k])
    BY DEF ReadChain
  <1> HIDE DEF Q
  <1>3. ASSUME NEW v PROVE \A o \in 1 .. N : v \in Q[N][o] <=> v \in Q[N + 1][o]
    <2> DEFINE C == [k \in 0 .. N + 1 |-> {o \in 1 .. N : v \in Q[k][o]}]
    <2>1. \A k \in 0 .. N + 1 : C[k] \subseteq 1 .. N
      OBVIOUS
    <2>2. \A k \in 0 .. N + 1 : \A o \in 1 .. N : o \in C[k] <=> v \in Q[k][o]
      OBVIOUS
    <2> HIDE DEF C
    <2>3. ASSUME NEW k \in 0 .. N, NEW o \in 1 .. N
          PROVE  o \in C[k + 1] <=>
                   v \in use[o] \/ (v \notin def[o] /\ \E s \in succ[o] : s \in C[k])
      <3>1. v \in Q[k + 1][o] <=>
              v \in use[o] \/ (v \notin def[o] /\ \E s \in succ[o] : v \in Q[k][s])
        <4>1. Q[k + 1] = ReadStep(N, use, def, succ, Q[k])
          BY <1>2
        <4>2. v \in ReadStep(N, use, def, succ, Q[k])[o] <=>
                v \in use[o] \/ (v \notin def[o] /\ \E s \in succ[o] : v \in Q[k][s])
          BY ReadStepAt
        <4> QED
          BY <4>1, <4>2
      <3>2. \A s \in succ[o] : s \in 1 .. N
        OBVIOUS
      <3> QED
        BY <2>2, <3>1, <3>2
    <2>4. \A k \in 0 .. N : C[k] \subseteq C[k + 1]
      <3> DEFINE S == {k \in 0 .. N : C[k] \subseteq C[k + 1]}
      <3>1. 0 \in S
        <4>1. \A o \in C[0] : o \in 1 .. N /\ v \in use[o]
          BY <1>1, <2>1, <2>2
        <4>2. C[0] \subseteq C[0 + 1]
          BY <2>3, <4>1
        <4> QED
          BY <4>2
      <3>2. ASSUME NEW k \in 0 .. N - 1, k \in S PROVE k + 1 \in S
        <4>1. C[k + 1] \subseteq 1 .. N /\ C[k] \subseteq C[k + 1]
          BY <2>1, <3>2
        <4>2. ASSUME NEW o \in C[k + 1] PROVE o \in C[k + 1 + 1]
          <5>1. o \in 1 .. N /\ k \in 0 .. N /\ k + 1 \in 0 .. N
            BY <4>1
          <5>2. v \in use[o] \/ (v \notin def[o] /\ \E s \in succ[o] : s \in C[k])
            BY <2>3, <5>1, <4>2
          <5>3. v \in use[o] \/ (v \notin def[o] /\ \E s \in succ[o] : s \in C[k + 1])
            BY <4>1, <5>2
          <5> QED
            BY <2>3, <5>1, <5>3
        <4> QED
          BY <4>2
      <3>3. 0 .. N \subseteq S
        <4> HIDE DEF S
        <4> QED
          BY <3>1, <3>2, InductionTo
      <3> QED
        BY <3>3
    <2>5. ASSUME NEW k \in 0 .. N - 1, C[k] = C[k + 1] PROVE C[k + 1] = C[k + 2]
      <3>1. k \in 0 .. N /\ k + 1 \in 0 .. N /\ (k + 1) + 1 = k + 2
        OBVIOUS
      <3>2. C[k + 1] \subseteq 1 .. N /\ C[k + 2] \subseteq 1 .. N
        BY <2>1
      <3>3. \A o \in 1 .. N : o \in C[k + 1] <=> o \in C[(k + 1) + 1]
        BY <2>3, <2>5, <3>1
      <3> QED
        BY <3>1, <3>2, <3>3
    <2>6. IsFiniteSet(1 .. N) /\ Cardinality(1 .. N) <= N
      BY FS_Interval
    <2>7. C[N] = C[N + 1]
      BY <2>1, <2>4, <2>5, <2>6, ChainSettles
    <2> QED
      BY <2>2, <2>7
  <1>4. \A o \in 1 .. N : Q[N][o] = Q[N + 1][o]
    BY <1>3
  <1>5. DOMAIN Q[N] = 1 .. N /\ Q[N] = [o \in 1 .. N |-> Q[N][o]]
    <2>1. CASE N = 0
      BY <1>1, <2>1
    <2>2. CASE N # 0
      <3>1. N - 1 \in 0 .. N /\ (N - 1) + 1 = N
        BY <2>2
      <3>2. Q[N] = ReadStep(N, use, def, succ, Q[N - 1])
        BY <1>2, <3>1
      <3> QED
        BY <3>2 DEF ReadStep
    <2> QED
      BY <2>1, <2>2
  <1>6. Q[N + 1] = [o \in 1 .. N |-> Q[N + 1][o]]
    BY <1>1 DEF ReadStep
  <1> QED
    BY <1>1, <1>4, <1>5, <1>6

LEMMA ReadChainTyped ==
    ASSUME NEW N \in Nat, NEW V,
           NEW use \in [1 .. N -> SUBSET V], NEW def, NEW succ \in [1 .. N -> SUBSET (1 .. N)],
           NEW R, ReadChain(R, N, use, def, succ)
    PROVE  R[N] \in [1 .. N -> SUBSET V]
  <1> DEFINE X == [o \in 1 .. N |-> V]
  <1>1. Solves(X, N, use, def, succ)
    BY DEF Solves
  <1>2. \A k \in 0 .. N, o \in 1 .. N : R[k][o] \subseteq X[o]
    <2> HIDE DEF X
    <2> QED
      BY <1>1, ReadChainInSolution
  <1>3. \A o \in 1 .. N : R[N][o] \subseteq V
    BY <1>2
  <1>4. R[N] = ReadStep(N, use, def, succ, R[N])
    BY ReadChainSettles
  <1> QED
    BY <1>3, <1>4 DEF ReadStep
=============================================================================
