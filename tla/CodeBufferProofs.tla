-------------------------- MODULE CodeBufferProofs --------------------------
(***************************************************************************)
(* What holds of the list of operations and of the code buffer for every   *)
(* program, every order in which malloc hands memory out again, and every  *)
(* size of the buffer.                                                     *)
(***************************************************************************)
EXTENDS CodeBuffer, Iteration

(* s[1], ..., s[n] are the operations of A in the order of the list.       *)
Path(s, n, A, nx, pv) ==
    /\ n \in Nat \ {0}
    /\ s \in [1 .. n -> A]
    /\ s[1] = CODESTART
    /\ \A j, k \in 1 .. n : s[j] = s[k] => j = k
    /\ \A o \in A : \E j \in 1 .. n : o = s[j]
    /\ \A j \in 1 .. n - 1 : nx[s[j]] = s[j + 1]
    /\ nx[s[n]] = 0
    /\ \A j \in 2 .. n : pv[s[j]] = s[j - 1]
    /\ pv[s[1]] = 0

Inserted(s, n, i, new) ==
    [j \in 1 .. n + 1 |-> IF j <= i THEN s[j] ELSE IF j = i + 1 THEN new ELSE s[j - 1]]

Removed(s, n, i) == [j \in 1 .. n - 1 |-> IF j < i THEN s[j] ELSE s[j + 1]]

LEMMA StartFacts == CODESTART \in Ids /\ Ids \subseteq Nat \ {0}
  <1>1. \E o \in Ids : \A k \in Ids : o <= k
    BY IdsAssumption, LeastElement
  <1> QED
    BY <1>1, IdsAssumption DEF CODESTART

(* A new operation behind the one at i: appended to that one, or prepended *)
(* to the one that followed it.                                            *)
LEMMA InsertKeepsPath ==
    ASSUME NEW A, A \subseteq Ids, NEW nx, NEW pv, NEW n, NEW s, Path(s, n, A, nx, pv),
           NEW i \in 1 .. n, NEW new \in Ids \ A, NEW nx2, NEW pv2,
           nx2[new] = nx[s[i]], nx2[s[i]] = new,
           \A k \in A : k # s[i] => nx2[k] = nx[k],
           pv2[new] = s[i],
           \A k \in A : pv2[k] = IF k = nx[s[i]] THEN new ELSE pv[k]
    PROVE  Path(Inserted(s, n, i, new), n + 1, A \cup {new}, nx2, pv2)
  <1> DEFINE t == Inserted(s, n, i, new)
  <1>0. n \in Nat \ {0} /\ n + 1 \in Nat \ {0} /\ \A j \in 1 .. n : s[j] \in A /\ s[j] # new
    BY DEF Path
  <1>1. \A j \in 1 .. n + 1 : t[j] = IF j <= i THEN s[j] ELSE IF j = i + 1 THEN new ELSE s[j - 1]
    BY DEF Inserted
  <1>2. t \in [1 .. n + 1 -> A \cup {new}]
    BY <1>0 DEF Inserted
  <1>3. t[1] = CODESTART /\ t[i + 1] = new /\ t[i] = s[i]
    BY <1>0, <1>1 DEF Path
  <1>4. \A j, k \in 1 .. n : s[j] = s[k] => j = k
    BY DEF Path
  <1>5. ASSUME NEW j \in 1 .. n + 1, NEW k \in 1 .. n + 1, t[j] = t[k] PROVE j = k
    BY <1>0, <1>1, <1>4, <1>5
  <1>6. ASSUME NEW o \in A \cup {new} PROVE \E j \in 1 .. n + 1 : o = t[j]
    <2>1. CASE o = new
      BY <2>1, <1>0, <1>3
    <2>2. CASE o \in A
      <3>1. PICK j \in 1 .. n : o = s[j]
        BY <2>2 DEF Path
      <3>2. o = t[IF j <= i THEN j ELSE j + 1]
        BY <3>1, <1>0, <1>1
      <3> QED
        BY <3>1, <3>2, <1>0
    <2> QED
      BY <2>1, <2>2
  <1>7. ASSUME NEW j \in 1 .. n PROVE nx[s[j]] = (IF j = n THEN 0 ELSE s[j + 1])
    BY <1>0 DEF Path
  <1>8. ASSUME NEW j \in 1 .. n PROVE nx2[t[j]] = t[j + 1]
    <2>1. CASE j < i
      <3>1. s[j] # s[i] /\ s[j] \in A /\ t[j] = s[j] /\ t[j + 1] = s[j + 1] /\ nx[s[j]] = s[j + 1]
        BY <2>1, <1>0, <1>1, <1>4, <1>7
      <3> QED
        BY <3>1
    <2>2. CASE j = i
      BY <2>2, <1>3
    <2>3. CASE j = i + 1
      <3>1. nx[s[i]] = s[i + 1] /\ t[j + 1] = s[i + 1]
        BY <2>3, <1>0, <1>1, <1>7
      <3> QED
        BY <2>3, <1>3, <3>1
    <2>4. CASE j > i + 1
      <3>1. /\ j - 1 \in 1 .. n /\ s[j - 1] # s[i] /\ s[j - 1] \in A
            /\ t[j] = s[j - 1] /\ t[j + 1] = s[j]
        BY <2>4, <1>0, <1>1, <1>4
      <3>2. nx[s[j - 1]] = s[j]
        BY <2>4, <3>1, <1>7
      <3> QED
        BY <3>1, <3>2
    <2> QED
      BY <2>1, <2>2, <2>3, <2>4
  <1>9. nx2[t[n + 1]] = 0
    <2>1. CASE i = n
      BY <2>1, <1>3, <1>7
    <2>2. CASE i < n
      <3>1. t[n + 1] = s[n] /\ s[n] # s[i] /\ s[n] \in A
        BY <2>2, <1>0, <1>1, <1>4
      <3> QED
        BY <3>1, <1>0, <1>7
    <2> QED
      BY <1>0, <2>1, <2>2
  <1>10. ASSUME NEW j \in 1 .. n PROVE s[j] = nx[s[i]] <=> j = i + 1
    <2>1. CASE i = n
      BY <2>1, <1>0, <1>7, StartFacts
    <2>2. CASE i < n
      BY <2>2, <1>0, <1>4, <1>7
    <2> QED
      BY <1>0, <2>1, <2>2
  <1>11. ASSUME NEW j \in 1 .. n
         PROVE  pv2[s[j]] = IF j = i + 1 THEN new ELSE IF j = 1 THEN 0 ELSE s[j - 1]
    <2>1. s[j] \in A /\ pv[s[j]] = IF j = 1 THEN 0 ELSE s[j - 1]
      BY DEF Path
    <2> QED
      BY <2>1, <1>10
  <1>12. ASSUME NEW j \in 2 .. n + 1 PROVE pv2[t[j]] = t[j - 1]
    <2>1. CASE j <= i
      <3>1. t[j] = s[j] /\ t[j - 1] = s[j - 1]
        BY <2>1, <1>0, <1>1
      <3> QED
        BY <2>1, <3>1, <1>0, <1>11
    <2>2. CASE j = i + 1
      BY <2>2, <1>3
    <2>3. CASE j = i + 2
      <3>1. t[j] = s[i + 1] /\ t[j - 1] = new /\ i + 1 \in 1 .. n
        BY <2>3, <1>0, <1>1, <1>3
      <3> QED
        BY <3>1, <1>11
    <2>4. CASE j > i + 2
      <3>1. t[j] = s[j - 1] /\ t[j - 1] = s[j - 2] /\ j - 1 \in 1 .. n
        BY <2>4, <1>0, <1>1
      <3>2. pv2[s[j - 1]] = s[j - 1 - 1]
        BY <2>4, <3>1, <1>11
      <3>3. j - 1 - 1 = j - 2
        OBVIOUS
      <3> QED
        BY <3>1, <3>2, <3>3
    <2> QED
      BY <2>1, <2>2, <2>3, <2>4
  <1>13. pv2[t[1]] = 0
    <2>1. t[1] = s[1] /\ 1 \in 1 .. n
      BY <1>0, <1>1
    <2> QED
      BY <2>1, <1>11
  <1> QED
    <2>1. \A j \in 1 .. n + 1 - 1 : nx2[t[j]] = t[j + 1]
      BY <1>0, <1>8
    <2> HIDE DEF t
    <2>2. Path(t, n + 1, A \cup {new}, nx2, pv2)
      BY <1>0, <1>2, <1>3, <1>5, <1>6, <2>1, <1>9, <1>12, <1>13 DEF Path
    <2> QED
      BY <2>2 DEF t

LEMMA RemoveKeepsPath ==
    ASSUME NEW A, A \subseteq Ids, NEW nx, NEW pv, NEW n, NEW s, Path(s, n, A, nx, pv),
           NEW i \in 2 .. n, NEW nx2, NEW pv2,
           \A k \in A : nx2[k] = IF k = pv[s[i]] THEN nx[s[i]] ELSE nx[k],
           \A k \in A : pv2[k] = IF k = nx[s[i]] THEN pv[s[i]] ELSE pv[k]
    PROVE  Path(Removed(s, n, i), n - 1, A \ {s[i]}, nx2, pv2)
  <1> DEFINE t == Removed(s, n, i)
             B == A \ {s[i]}
  <1>0. /\ n \in Nat \ {0} /\ n - 1 \in Nat \ {0} /\ i - 1 \in 1 .. n
        /\ \A j \in 1 .. n : s[j] \in A /\ s[j] \in Ids
    BY DEF Path
  <1>1. \A j \in 1 .. n - 1 : t[j] = IF j < i THEN s[j] ELSE s[j + 1]
    BY DEF Removed
  <1>2. \A j, k \in 1 .. n : s[j] = s[k] => j = k
    BY DEF Path
  <1>3. \A j \in 1 .. n - 1 : t[j] \in B
    BY <1>0, <1>1, <1>2
  <1>4. t \in [1 .. n - 1 -> B]
    <2>1. t = [j \in 1 .. n - 1 |-> t[j]]
      BY DEF Removed
    <2> HIDE DEF t, B
    <2> QED
      BY <1>3, <2>1
  <1>5. t[1] = CODESTART
    BY <1>0, <1>1 DEF Path
  <1>6. ASSUME NEW j \in 1 .. n - 1, NEW k \in 1 .. n - 1, t[j] = t[k] PROVE j = k
    BY <1>0, <1>1, <1>2, <1>6
  <1>7. ASSUME NEW o \in B PROVE \E j \in 1 .. n - 1 : o = t[j]
    <2>1. PICK j \in 1 .. n : o = s[j]
      BY DEF Path
    <2>2. j # i
      BY <2>1
    <2>3. o = t[IF j < i THEN j ELSE j - 1]
      BY <2>1, <2>2, <1>0, <1>1
    <2>4. (IF j < i THEN j ELSE j - 1) \in 1 .. n - 1
      BY <2>2, <1>0
    <2> QED
      BY <2>3, <2>4
  <1>8. \A j \in 1 .. n : nx[s[j]] = (IF j = n THEN 0 ELSE s[j + 1])
    BY <1>0 DEF Path
  <1>9. \A j \in 1 .. n : pv[s[j]] = (IF j = 1 THEN 0 ELSE s[j - 1])
    BY <1>0 DEF Path
  <1>10. ASSUME NEW j \in 1 .. n
         PROVE  nx2[s[j]] = IF j = i - 1 THEN nx[s[i]] ELSE nx[s[j]]
    <2>1. pv[s[i]] = s[i - 1]
      BY <1>9
    <2>2. s[j] = s[i - 1] <=> j = i - 1
      BY <1>0, <1>2
    <2> QED
      BY <1>0, <2>1, <2>2
  <1>11. ASSUME NEW j \in 1 .. n
         PROVE  pv2[s[j]] = IF j = i + 1 THEN s[i - 1] ELSE pv[s[j]]
    <2>1. s[j] = nx[s[i]] <=> j = i + 1
      <3>1. CASE i = n
        BY <3>1, <1>0, <1>8, StartFacts
      <3>2. CASE i < n
        BY <3>2, <1>0, <1>2, <1>8
      <3> QED
        BY <1>0, <3>1, <3>2
    <2>2. pv[s[i]] = s[i - 1]
      BY <1>9
    <2> QED
      BY <1>0, <2>1, <2>2
  <1>12. ASSUME NEW j \in 1 .. n - 1 - 1 PROVE nx2[t[j]] = t[j + 1]
    <2>1. CASE j < i - 1
      <3>1. t[j] = s[j] /\ t[j + 1] = s[j + 1] /\ j \in 1 .. n /\ j # n
        BY <2>1, <1>0, <1>1
      <3> QED
        BY <2>1, <3>1, <1>8, <1>10
    <2>2. CASE j = i - 1
      <3>1. t[j] = s[j] /\ t[j + 1] = s[i + 1] /\ j \in 1 .. n /\ i # n
        BY <2>2, <1>0, <1>1
      <3> QED
        BY <2>2, <3>1, <1>8, <1>10
    <2>3. CASE j > i - 1
      <3>1. t[j] = s[j + 1] /\ t[j + 1] = s[j + 1 + 1] /\ j + 1 \in 1 .. n /\ j + 1 # n
        BY <2>3, <1>0, <1>1
      <3>2. nx2[s[j + 1]] = s[j + 1 + 1]
        BY <2>3, <3>1, <1>8, <1>10
      <3> QED
        BY <3>1, <3>2
    <2> QED
      BY <1>0, <2>1, <2>2, <2>3
  <1>13. nx2[t[n - 1]] = 0
    <2>1. CASE i = n
      <3>1. t[n - 1] = s[n - 1] /\ n - 1 \in 1 .. n
        BY <2>1, <1>0, <1>1
      <3> QED
        BY <2>1, <3>1, <1>8, <1>10
    <2>2. CASE i # n
      <3>1. t[n - 1] = s[n] /\ n \in 1 .. n /\ n # i - 1
        BY <2>2, <1>0, <1>1
      <3> QED
        BY <3>1, <1>8, <1>10
    <2> QED
      BY <2>1, <2>2
  <1>14. ASSUME NEW j \in 2 .. n - 1 PROVE pv2[t[j]] = t[j - 1]
    <2>1. CASE j < i
      <3>1. t[j] = s[j] /\ t[j - 1] = s[j - 1] /\ j \in 1 .. n /\ j # 1
        BY <2>1, <1>0, <1>1
      <3> QED
        BY <2>1, <3>1, <1>9, <1>11
    <2>2. CASE j = i
      <3>1. t[j] = s[i + 1] /\ t[j - 1] = s[i - 1] /\ i + 1 \in 1 .. n
        BY <2>2, <1>0, <1>1
      <3> QED
        BY <3>1, <1>11
    <2>3. CASE j > i
      <3>1. t[j] = s[j + 1] /\ t[j - 1] = s[j] /\ j + 1 \in 1 .. n /\ j + 1 - 1 = j
        BY <2>3, <1>0, <1>1
      <3>2. pv2[s[j + 1]] = s[j + 1 - 1]
        BY <2>3, <3>1, <1>9, <1>11
      <3> QED
        BY <3>1, <3>2
    <2> QED
      BY <1>0, <2>1, <2>2, <2>3
  <1>15. pv2[t[1]] = 0
    <2>1. t[1] = s[1] /\ 1 \in 1 .. n
      BY <1>0, <1>1
    <2> QED
      BY <2>1, <1>9, <1>11
  <1> HIDE DEF t, B
  <1>16. Path(t, n - 1, B, nx2, pv2)
    BY <1>0, <1>4, <1>5, <1>6, <1>7, <1>12, <1>13, <1>14, <1>15 DEF Path
  <1> QED
    BY <1>16 DEF t, B

(* A list has as many operations as places. *)
LEMMA PathLength ==
    ASSUME NEW A, A \subseteq Ids, NEW nx, NEW pv, NEW n, NEW s, Path(s, n, A, nx, pv)
    PROVE  n <= Cardinality(Ids) /\ Cardinality(Ids) \in Nat /\ Cardinality(A) = n
  <1>1. n \in Nat /\ s \in Bijection(1 .. n, A)
    BY DEF Path, Bijection, Injection, Surjection, IsInjective
  <1>2. IsFiniteSet(1 .. n) /\ Cardinality(1 .. n) = n
    <2>1. 1 \in Int /\ n \in Int /\ (1 > n => n = 0)
      BY <1>1
    <2> QED
      BY <2>1, <1>1, FS_Interval
  <1>3. Cardinality(A) = n
    <2>1. ExistsBijection(1 .. n, A)
      BY <1>1 DEF ExistsBijection
    <2> QED
      BY <1>2, <2>1, FS_Bijection
  <1>4. Cardinality(A) <= Cardinality(Ids) /\ Cardinality(Ids) \in Nat
    BY IdsAssumption, FS_Subset, FS_CardinalityType
  <1> QED
    BY <1>3, <1>4

(* Walking along next from CODESTART, one gets to all operations.          *)
LEMMA WalkGetsEverywhere ==
    ASSUME alive \subseteq Ids, next \in [Ids -> Ids \cup {0}],
           NEW n, NEW s, Path(s, n, alive, next, prev)
    PROVE  From(CODESTART) = alive
  <1> DEFINE N == Cardinality(Ids)
             T == SUBSET (Ids \cup {0})
             Defined(w) == w = [k \in 0 .. N |->
                 IF k = 0 THEN {CODESTART}
                 ELSE w[k - 1] \cup {next[o] : o \in w[k - 1] \ {0}}]
             walk == CHOOSE w : Defined(w)
  <1>1. N \in Nat /\ n <= N /\ n \in Nat \ {0}
    <2>1. N \in Nat /\ n <= N
      BY PathLength
    <2> QED
      BY <2>1 DEF Path
  <1>2. \E w : Defined(w)
    <2> DEFINE step == [S \in T |-> S \cup {next[o] : o \in S \ {0}}]
    <2>1. {CODESTART} \in T /\ step \in [T -> T]
      BY StartFacts
    <2>2. PICK w \in [0 .. N -> T] : IsWalk(w, N, {CODESTART}, step)
      <3> HIDE DEF step, T, N
      <3> QED
        BY <1>1, <2>1, WalkExists
    <2>3. ASSUME NEW k \in 0 .. N
          PROVE  (IF k = 0 THEN {CODESTART} ELSE step[w[k - 1]]) =
                 (IF k = 0 THEN {CODESTART}
                  ELSE w[k - 1] \cup {next[o] : o \in w[k - 1] \ {0}})
      BY <1>1
    <2>4. Defined(w)
      BY <2>2, <2>3, Zenon DEF IsWalk
    <2> HIDE DEF Defined
    <2> QED
      BY <2>4
  <1>3. Defined(walk)
    <2> HIDE DEF Defined
    <2> QED
      BY <1>2
  <1>4. From(CODESTART) = walk[N] \ {0}
    BY DEF From
  <1> HIDE DEF walk
  <1>5. walk[0] = {CODESTART}
    BY <1>1, <1>3
  <1>6. ASSUME NEW k \in 1 .. N
        PROVE  walk[k] = walk[k - 1] \cup {next[o] : o \in walk[k - 1] \ {0}}
    <2>1. k \in 0 .. N /\ k # 0
      BY <1>1
    <2> QED
      BY <1>3, <2>1, Zenon
  <1> DEFINE S == {k \in 0 .. N : /\ walk[k] \subseteq alive \cup {0}
                                  /\ \A j \in 1 .. n : j <= k + 1 => s[j] \in walk[k]}
  <1>7. 0 \in S
    BY <1>1, <1>5 DEF Path
  <1>8. ASSUME NEW k \in 0 .. N - 1, k \in S PROVE k + 1 \in S
    <2>1. walk[k + 1] = walk[k] \cup {next[o] : o \in walk[k] \ {0}}
      BY <1>1, <1>6
    <2>2. ASSUME NEW o \in alive PROVE next[o] \in alive \cup {0}
      <3>1. PICK j \in 1 .. n : o = s[j]
        BY DEF Path
      <3> QED
        BY <3>1, <1>1 DEF Path
    <2>3. walk[k + 1] \subseteq alive \cup {0}
      BY <1>8, <2>1, <2>2
    <2>4. ASSUME NEW j \in 1 .. n, j <= k + 2 PROVE s[j] \in walk[k + 1]
      <3>1. CASE j <= k + 1
        BY <3>1, <1>8, <2>1
      <3>2. CASE j = k + 2
        <4>1. j - 1 \in 1 .. n /\ j - 1 <= k + 1 /\ s[j - 1] # 0 /\ s[j] = next[s[j - 1]]
          BY <3>2, <1>1, StartFacts DEF Path
        <4>2. s[j - 1] \in walk[k] \ {0}
          BY <1>8, <4>1
        <4> QED
          BY <2>1, <4>1, <4>2
      <3> QED
        BY <2>4, <3>1, <3>2
    <2> QED
      BY <1>1, <2>3, <2>4
  <1>9. N \in S
    <2> HIDE DEF S, N
    <2> QED
      BY <1>1, <1>7, <1>8, InductionTo
  <1>10. alive \subseteq walk[N]
    <2>1. ASSUME NEW o \in alive PROVE o \in walk[N]
      <3>1. PICK j \in 1 .. n : o = s[j]
        BY DEF Path
      <3> QED
        BY <1>1, <1>9, <3>1
    <2> QED
      BY <2>1
  <1> QED
    BY <1>4, <1>9, <1>10, StartFacts

LEMMA PathFacts ==
    ASSUME NEW A, A \subseteq Ids, NEW nx, NEW pv, NEW n, NEW s, Path(s, n, A, nx, pv)
    PROVE  /\ CODESTART \in A
           /\ \A o \in A : /\ nx[o] \in A \cup {0} /\ nx[o] # o
                           /\ pv[o] = 0 <=> o = CODESTART
                           /\ nx[o] # 0 => pv[nx[o]] = o
  <1>0. n \in Nat \ {0} /\ \A j \in 1 .. n : s[j] \in A /\ s[j] # 0
    BY StartFacts DEF Path
  <1>1. CODESTART \in A
    BY <1>0 DEF Path
  <1>2. ASSUME NEW o \in A
        PROVE  /\ nx[o] \in A \cup {0} /\ nx[o] # o
               /\ pv[o] = 0 <=> o = CODESTART
               /\ nx[o] # 0 => pv[nx[o]] = o
    <2>1. PICK j \in 1 .. n : o = s[j]
      BY DEF Path
    <2>2. nx[o] = IF j = n THEN 0 ELSE s[j + 1]
      BY <1>0, <2>1 DEF Path
    <2>3. pv[o] = IF j = 1 THEN 0 ELSE s[j - 1]
      BY <1>0, <2>1 DEF Path
    <2>4. \A k \in 1 .. n : s[k] = o => k = j
      BY <2>1 DEF Path
    <2>5. nx[o] \in A \cup {0} /\ nx[o] # o
      <3>1. CASE j = n
        BY <3>1, <1>0, <2>1, <2>2
      <3>2. CASE j # n
        <4>1. j + 1 \in 1 .. n /\ j + 1 # j /\ nx[o] = s[j + 1]
          BY <3>2, <1>0, <2>2
        <4> QED
          BY <4>1, <1>0, <2>4
      <3> QED
        BY <3>1, <3>2
    <2>6. pv[o] = 0 <=> o = CODESTART
      BY <1>0, <2>3, <2>4, <2>1 DEF Path
    <2>7. nx[o] # 0 => pv[nx[o]] = o
      <3>1. CASE j = n
        BY <3>1, <2>2
      <3>2. CASE j # n
        <4>1. j + 1 \in 1 .. n /\ (j + 1) - 1 = j /\ j + 1 # 1 /\ nx[o] = s[j + 1]
          BY <3>2, <1>0, <2>2
        <4>2. j + 1 \in 2 .. n /\ \A k \in 2 .. n : pv[s[k]] = s[k - 1]
          BY <4>1, <1>0 DEF Path
        <4>3. pv[s[j + 1]] = s[j]
          BY <4>1, <4>2
        <4> QED
          BY <4>1, <4>3, <2>1
      <3> QED
        BY <3>1, <3>2
    <2> QED
      BY <2>5, <2>6, <2>7
  <1> QED
    BY <1>1, <1>2

(* A list of one operation, as it is at the start.                         *)
LEMMA PathOfOne ==
    ASSUME NEW nx, NEW pv, nx[CODESTART] = 0, pv[CODESTART] = 0
    PROVE  Path([j \in 1 .. 1 |-> CODESTART], 1, {CODESTART}, nx, pv)
  BY DEF Path

-----------------------------------------------------------------------------
(* The invariant of the list.                                              *)

OpKinds == Kinds \cup {"CODESTART", "FULL_SPILL"}

Op == [kind : OpKinds, item : Nat, arg : Ids \cup {0}, n : Nat \ {0},
       jmp_addr : Ids \cup {0}, in_use : BOOLEAN, turned : BOOLEAN,
       pos : Int, fixed : Int, loop_addr : Int]

(* While the program is read, the list is CODESTART and one operation for  *)
(* each call so far, with the pointers of these calls.                     *)
Pointed(s, i) ==
    LET arg == ops[s[i + 1]].arg
    IN /\ source[i].kind = "PATCH" => \E k \in 1 .. i - 1 : source[k].to = i /\ arg = s[k + 1]
       /\ source[i].kind # "PATCH" /\ source[i].to \in 1 .. i - 1 => arg = s[source[i].to + 1]
       /\ source[i].kind # "PATCH" /\ source[i].to \notin 1 .. i - 1 => arg = 0

Building(s, n) ==
    /\ n - 1 <= Len(source)
    /\ last_op = s[n]
    /\ ops[CODESTART].item = 0
    /\ \A i \in 1 .. n - 1 :
        /\ ops[s[i + 1]].item = i
        /\ ops[s[i + 1]].kind = source[i].kind
        /\ ops[s[i + 1]].n = source[i].n
        /\ Pointed(s, i)

(* Once pointers are resolved, an operation leads where the program says,  *)
(* and what a PATCH names leads to this PATCH.                             *)
Resolved(o) ==
    LET i == ops[o].item
    IN /\ i \in DOMAIN source
       /\ ops[o].kind = source[i].kind
       /\ ops[o].n = source[i].n
       /\ ops[o].kind \in Refers =>
            /\ ops[o].jmp_addr \in alive
            /\ ops[ops[o].jmp_addr].item = source[i].to
            /\ IsLabel(ops[o].arg) => ops[o].arg = ops[o].jmp_addr
       /\ ops[o].kind = "PATCH" =>
            /\ ops[o].arg \in alive
            /\ ops[ops[o].arg].item \in DOMAIN source
            /\ source[ops[ops[o].arg].item].to = i

(* All calls of the program are there, in order; between them are spills.  *)
Laid(s, n) ==
    /\ ops[CODESTART].item = 0
    /\ \A j, k \in 1 .. n : j < k /\ ops[s[k]].item # 0 => ops[s[j]].item < ops[s[k]].item
    /\ \A i \in DOMAIN source : \E j \in 1 .. n : ops[s[j]].item = i
    /\ \A j \in 2 .. n :
        IF ops[s[j]].item = 0 THEN ops[s[j]].kind = "FULL_SPILL" /\ ops[s[j]].n = 1
        ELSE Resolved(s[j])

Shape(s, n) ==
    /\ Path(s, n, alive, next, prev)
    /\ pass = "build" => Building(s, n)
    /\ pass = "spills" => Laid(s, n)

ListTyped ==
    /\ source \in Programs
    /\ pass \in Passes
    /\ cur \in alive \cup {0}
    /\ alive \subseteq Ids
    /\ last_op \in Ids
    /\ next \in [Ids -> Ids \cup {0}]
    /\ prev \in [Ids -> Ids \cup {0}]
    /\ ops \in [Ids -> Op]

ListInv ==
    /\ ListTyped
    /\ \E n, s : Shape(s, n)
    /\ pass = "delete" => ops[CODESTART].in_use
    /\ pass \in {"build", "spills"} => ops[CODESTART].kind = "CODESTART"
    /\ pass = "emit" => cur # 0

LEMMA NewOpTyped ==
    ASSUME NEW kind \in OpKinds, NEW item \in Nat, NEW arg \in Ids \cup {0}, NEW n \in Nat \ {0}
    PROVE  NewOp(kind, item, arg, n) \in Op
  BY DEF NewOp, Op

LEMMA ProgramFacts ==
    ASSUME source \in Programs
    PROVE  /\ source \in Seq(Item) /\ Len(source) \in Nat
           /\ DOMAIN source = 1 .. Len(source)
           /\ \A i \in DOMAIN source :
                /\ source[i].kind \in Kinds /\ source[i].to \in Nat /\ source[i].n \in Nat \ {0}
                /\ source[i].kind \in Refers =>
                     \/ source[i].to \in 1 .. i - 1 /\ source[source[i].to].kind = "LABEL"
                     \/ source[i].to \in i + 1 .. Len(source) /\ source[source[i].to].kind = "PATCH"
                /\ source[i].kind = "TRANSFER_CPY" =>
                     source[i].to \in 1 .. i - 1 /\ source[source[i].to].kind = "TRANSFER"
                /\ source[i].kind \notin Refers \cup {"TRANSFER_CPY"} => source[i].to = 0
                /\ source[i].kind = "PATCH" => Cardinality({k \in DOMAIN source : source[k].to = i}) = 1
  <1>1. WellFormed(source)
    BY ProgramsAssumption
  <1>2. source \in Seq(Item) /\ Len(source) \in Nat /\ DOMAIN source = 1 .. Len(source)
    BY <1>1 DEF WellFormed
  <1>3. \A i \in DOMAIN source :
            source[i].kind \in Kinds /\ source[i].to \in Nat /\ source[i].n \in Nat \ {0}
    <2>1. ASSUME NEW i \in DOMAIN source
          PROVE  source[i].kind \in Kinds /\ source[i].to \in Nat /\ source[i].n \in Nat \ {0}
      <3>1. source[i] \in Item
        BY <1>2
      <3>2. source[i].n > 0
        BY <1>1 DEF WellFormed
      <3> QED
        BY <3>1, <3>2 DEF Item
    <2> QED
      BY <2>1
  <1> QED
    BY <1>1, <1>2, <1>3 DEF WellFormed

(* What is patched is patched by the one operation ahead of it that names  *)
(* it.                                                                     *)
LEMMA PatcherIsUnique ==
    ASSUME source \in Programs, NEW i \in DOMAIN source, source[i].kind = "PATCH"
    PROVE  \E k \in 1 .. i - 1 :
              /\ k \in DOMAIN source /\ source[k].kind \in Refers /\ source[k].to = i
              /\ \A m \in DOMAIN source : source[m].to = i => m = k
  <1> DEFINE K == {k \in DOMAIN source : source[k].to = i}
  <1>1. Cardinality(K) = 1
    BY ProgramFacts
  <1>2. IsFiniteSet(K)
    <2>1. IsFiniteSet(1 .. Len(source))
      BY ProgramFacts, FS_Interval
    <2> QED
      BY <2>1, ProgramFacts, FS_Subset
  <1>3. PICK k : K = {k}
    <2> HIDE DEF K
    <2> QED
      BY <1>1, <1>2, FS_Singleton
  <1>4. k \in DOMAIN source /\ source[k].to = i /\ \A m \in DOMAIN source : source[m].to = i => m = k
    BY <1>3
  <1>5. i # 0 /\ i \in 1 .. Len(source) /\ k \in 1 .. Len(source)
    BY <1>4, ProgramFacts
  <1>6. source[k].kind \in Refers /\ source[k].to \in k + 1 .. Len(source)
    BY <1>4, <1>5, ProgramFacts
  <1> QED
    BY <1>4, <1>5, <1>6

LEMMA BuildingFacts ==
    ASSUME ListTyped, NEW n, NEW s, Path(s, n, alive, next, prev), Building(s, n)
    PROVE  /\ n \in Nat \ {0} /\ n - 1 \in Nat
           /\ Added = n - 1
           /\ \A i \in 1 .. n - 1 : s[i + 1] \in alive /\ OpOf(i) = s[i + 1]
           /\ \A o \in alive : o # CODESTART => \E i \in 1 .. n - 1 : o = s[i + 1]
  <1>1. n \in Nat \ {0} /\ n - 1 \in Nat /\ \A j \in 1 .. n : s[j] \in alive
    BY DEF Path
  <1>2. \A i \in 1 .. n - 1 : s[i + 1] \in alive /\ ops[s[i + 1]].item = i
    BY <1>1 DEF Building
  <1>3. ASSUME NEW o \in alive, o # CODESTART PROVE \E i \in 1 .. n - 1 : o = s[i + 1]
    <2>1. PICK j \in 1 .. n : o = s[j]
      BY DEF Path
    <2>2. j # 1
      BY <1>3, <2>1 DEF Path
    <2>3. j - 1 \in 1 .. n - 1 /\ j = j - 1 + 1
      BY <1>1, <2>2
    <2> QED
      BY <2>1, <2>3
  <1>4. Added = n - 1
    <2>1. {o \in alive : ops[o].item # 0} = alive \ {CODESTART}
      <3>1. ASSUME NEW o \in alive PROVE ops[o].item # 0 <=> o # CODESTART
        <4>1. CASE o = CODESTART
          BY <4>1 DEF Building
        <4>2. CASE o # CODESTART
          BY <4>2, <1>2, <1>3
        <4> QED
          BY <4>1, <4>2
      <3> QED
        BY <3>1
    <2>2. CODESTART \in alive /\ Cardinality(alive) = n
      BY PathFacts, PathLength DEF ListTyped
    <2>3. IsFiniteSet(alive)
      BY IdsAssumption, FS_Subset DEF ListTyped
    <2>4. Cardinality(alive \ {CODESTART}) = Cardinality(alive) - 1
      BY <2>2, <2>3, FS_RemoveElement
    <2> QED
      BY <2>1, <2>2, <2>4 DEF Added
  <1>5. ASSUME NEW i \in 1 .. n - 1 PROVE OpOf(i) = s[i + 1]
    <2>1. \A o \in alive : ops[o].item = i => o = s[i + 1]
      <3>1. ASSUME NEW o \in alive, ops[o].item = i PROVE o = s[i + 1]
        <4>1. o # CODESTART
          BY <3>1 DEF Building
        <4>2. PICK k \in 1 .. n - 1 : o = s[k + 1]
          BY <4>1, <1>3
        <4> QED
          BY <3>1, <4>2, <1>2
      <3> QED
        BY <3>1
    <2> QED
      BY <2>1, <1>2 DEF OpOf
  <1> QED
    BY <1>1, <1>2, <1>3, <1>4, <1>5

(* The pointer of the next call is that of an operation already there.     *)
LEMMA ArgOfIsPointed ==
    ASSUME ListTyped, NEW n, NEW s, Path(s, n, alive, next, prev), Building(s, n),
           n \in DOMAIN source
    PROVE  /\ ArgOf(n) \in Ids \cup {0}
           /\ source[n].kind = "PATCH" => \E k \in 1 .. n - 1 : source[k].to = n /\ ArgOf(n) = s[k + 1]
           /\ source[n].kind # "PATCH" /\ source[n].to \in 1 .. n - 1 =>
                 ArgOf(n) = s[source[n].to + 1]
           /\ source[n].kind # "PATCH" /\ source[n].to \notin 1 .. n - 1 => ArgOf(n) = 0
  <1>0. alive \subseteq Ids /\ source \in Programs
    BY DEF ListTyped
  <1>1. \A i \in 1 .. n - 1 : s[i + 1] \in alive /\ OpOf(i) = s[i + 1]
    BY BuildingFacts
  <1>2. CASE source[n].kind = "PATCH"
    <2> DEFINE k == CHOOSE k \in 1 .. n - 1 : source[k].to = n
    <2>1. k \in 1 .. n - 1 /\ source[k].to = n
      BY <1>0, <1>2, PatcherIsUnique
    <2>2. ArgOf(n) = OpOf(k)
      BY <1>2 DEF ArgOf
    <2> HIDE DEF k
    <2>3. ArgOf(n) = s[k + 1] /\ s[k + 1] \in alive
      BY <1>1, <2>1, <2>2
    <2> QED
      BY <1>0, <1>2, <2>1, <2>3
  <1>3. CASE source[n].kind # "PATCH" /\ source[n].to \in 1 .. n - 1
    <2>1. ArgOf(n) = OpOf(source[n].to)
      BY <1>3 DEF ArgOf
    <2> QED
      BY <1>0, <1>1, <1>3, <2>1
  <1>4. CASE source[n].kind # "PATCH" /\ source[n].to \notin 1 .. n - 1
    BY <1>4 DEF ArgOf
  <1> QED
    BY <1>2, <1>3, <1>4

LEMMA AddOpStep ==
    ASSUME ListInv, AddOp
    PROVE  ListInv'
  <1>0. ListTyped /\ pass = "build" /\ pass' = "build" /\ source' = source /\ cur' = cur
    BY DEF ListInv, AddOp
  <1>1. PICK n, s : Path(s, n, alive, next, prev) /\ Building(s, n)
    BY <1>0 DEF ListInv, Shape
  <1>2. /\ n \in Nat \ {0} /\ n - 1 \in Nat /\ Added + 1 = n
        /\ \A i \in 1 .. n - 1 : s[i + 1] \in alive
    BY <1>0, <1>1, BuildingFacts
  <1>3. n \in DOMAIN source
    <2>1. Added < Len(source) /\ Added = n - 1
      BY <1>0, <1>1, BuildingFacts DEF AddOp
    <2> QED
      BY <1>0, <1>2, <2>1, ProgramFacts DEF ListTyped
  <1>4. PICK new \in Ids \ alive :
          /\ ops' = [ops EXCEPT ![new] = NewOp(source[n].kind, n, ArgOf(n), source[n].n)]
          /\ LinkAfter(last_op, new)
          /\ alive' = alive \cup {new}
          /\ last_op' = new
    BY <1>2 DEF AddOp, Obtainable
  <1>5. last_op = s[n] /\ s[n] \in alive /\ s[n] \in Ids
    BY <1>0, <1>1, <1>2 DEF Building, Path, ListTyped
  <1>6. PICK t : /\ t = Inserted(s, n, n, new)
                 /\ \A j \in 1 .. n + 1 : t[j] = IF j <= n THEN s[j] ELSE new
    <2> DEFINE u == Inserted(s, n, n, new)
    <2>1. \A j \in 1 .. n + 1 : u[j] = IF j <= n THEN s[j] ELSE new
      BY <1>2 DEF Inserted
    <2> HIDE DEF u
    <2>2. \E t : t = u /\ \A j \in 1 .. n + 1 : t[j] = IF j <= n THEN s[j] ELSE new
      BY <2>1
    <2> QED
      BY <2>2 DEF u
  <1>7. /\ next' \in [Ids -> Ids \cup {0}] /\ prev' \in [Ids -> Ids \cup {0}]
        /\ Path(t, n + 1, alive', next', prev')
    <2>1. /\ next' = [next EXCEPT ![s[n]] = new, ![new] = next[s[n]]]
          /\ prev' = [k \in Ids |-> IF k = new THEN s[n] ELSE IF k = next[s[n]] THEN new ELSE prev[k]]
      BY <1>4, <1>5 DEF LinkAfter
    <2>2. next \in [Ids -> Ids \cup {0}] /\ prev \in [Ids -> Ids \cup {0}] /\ alive \subseteq Ids
      BY <1>0 DEF ListTyped
    <2>3. next' \in [Ids -> Ids \cup {0}] /\ prev' \in [Ids -> Ids \cup {0}]
      BY <2>1, <2>2, <1>5
    <2>4. /\ next'[new] = next[s[n]] /\ next'[s[n]] = new
          /\ \A k \in alive : k # s[n] => next'[k] = next[k]
          /\ prev'[new] = s[n]
          /\ \A k \in alive : prev'[k] = IF k = next[s[n]] THEN new ELSE prev[k]
      BY <2>1, <2>2, <1>5
    <2>5. n \in 1 .. n
      BY <1>2
    <2>6. Path(t, n + 1, alive \cup {new}, next', prev')
      BY <1>1, <1>6, <2>2, <2>4, <2>5, InsertKeepsPath
    <2> QED
      BY <1>4, <2>3, <2>6
  <1>8. ops' \in [Ids -> Op]
    <2>1. NewOp(source[n].kind, n, ArgOf(n), source[n].n) \in Op
      <3>1. source[n].kind \in OpKinds /\ source[n].n \in Nat \ {0}
        BY <1>0, <1>3, ProgramFacts DEF ListTyped, OpKinds
      <3>2. ArgOf(n) \in Ids \cup {0}
        BY <1>0, <1>1, <1>3, ArgOfIsPointed
      <3> QED
        BY <1>2, <3>1, <3>2, NewOpTyped
    <2> QED
      BY <1>0, <1>4, <2>1 DEF ListTyped
  <1>9. ListTyped'
    BY <1>0, <1>4, <1>7, <1>8 DEF ListTyped
  <1>10. \A o \in alive : ops'[o] = ops[o]
    BY <1>0, <1>4 DEF ListTyped
  <1>11. ops'[new] = NewOp(source[n].kind, n, ArgOf(n), source[n].n)
    BY <1>0, <1>4 DEF ListTyped
  <1>12. Building(t, n + 1)'
    <2>1. (n + 1) - 1 = n /\ n <= Len(source)
      BY <1>0, <1>2, <1>3, ProgramFacts DEF ListTyped
    <2>2. ops'[CODESTART].item = 0
      BY <1>0, <1>1, <1>10, PathFacts DEF ListTyped, Building
    <2>3. ASSUME NEW i \in 1 .. n
          PROVE  /\ ops'[t[i + 1]].item = i
                 /\ ops'[t[i + 1]].kind = source[i].kind
                 /\ ops'[t[i + 1]].n = source[i].n
                 /\ LET arg == ops'[t[i + 1]].arg
                    IN /\ source[i].kind = "PATCH" =>
                            \E k \in 1 .. i - 1 : source[k].to = i /\ arg = t[k + 1]
                       /\ source[i].kind # "PATCH" /\ source[i].to \in 1 .. i - 1 =>
                            arg = t[source[i].to + 1]
                       /\ source[i].kind # "PATCH" /\ source[i].to \notin 1 .. i - 1 => arg = 0
      <3>0. \A k \in 1 .. i - 1 : t[k + 1] = s[k + 1]
        BY <1>2, <1>6
      <3>1. CASE i = n
        <4>1. t[i + 1] = new
          BY <3>1, <1>2, <1>6
        <4>2. /\ ops'[new].item = n /\ ops'[new].kind = source[n].kind
              /\ ops'[new].n = source[n].n /\ ops'[new].arg = ArgOf(n)
          BY <1>11 DEF NewOp
        <4> QED
          BY <3>0, <3>1, <4>1, <4>2, <1>0, <1>1, <1>3, ArgOfIsPointed
      <3>2. CASE i # n
        <4>1. i \in 1 .. n - 1 /\ t[i + 1] = s[i + 1] /\ s[i + 1] \in alive
          BY <3>2, <1>2, <1>6
        <4>2. ops'[t[i + 1]] = ops[s[i + 1]]
          BY <4>1, <1>10
        <4> QED
          BY <3>0, <4>1, <4>2, <1>1 DEF Building, Pointed
      <3> QED
        BY <3>1, <3>2
    <2>4. last_op' = t[n + 1]
      BY <1>2, <1>4, <1>6
    <2>5. \A i \in 1 .. (n + 1) - 1 :
            /\ ops'[t[i + 1]].item = i
            /\ ops'[t[i + 1]].kind = source'[i].kind
            /\ ops'[t[i + 1]].n = source'[i].n
            /\ Pointed(t, i)'
      BY <1>0, <2>1, <2>3 DEF Pointed
    <2>6. (n + 1) - 1 <= Len(source')
      BY <1>0, <2>1
    <2> QED
      BY <2>2, <2>4, <2>5, <2>6 DEF Building
  <1>13. ops'[CODESTART] = ops[CODESTART]
    BY <1>0, <1>1, <1>10, PathFacts DEF ListTyped
  <1> QED
    BY <1>0, <1>7, <1>9, <1>12, <1>13 DEF ListInv, Shape

LEMMA FirstIsStart ==
    ASSUME alive \subseteq Ids, NEW n, NEW s, Path(s, n, alive, next, prev)
    PROVE  First = CODESTART /\ CODESTART \in alive
  <1>1. CODESTART \in alive /\ \A o \in alive : prev[o] = 0 <=> o = CODESTART
    BY PathFacts
  <1> QED
    BY <1>1 DEF First

(* What jmp_addr becomes of the operation of call i. *)
LEMMA ResolvedTarget ==
    ASSUME ListTyped, NEW n, NEW s, Path(s, n, alive, next, prev), Building(s, n),
           n - 1 = Len(source), ops[CODESTART].kind = "CODESTART",
           NEW i \in DOMAIN source, source[i].kind \in Refers
    PROVE  LET o == s[i + 1]
               patches == {k \in alive : ops[k].kind = "PATCH" /\ ops[k].arg = o}
           IN /\ source[i].to \in DOMAIN source
              /\ IsLabel(ops[o].arg) => ops[o].arg = s[source[i].to + 1]
              /\ ~IsLabel(ops[o].arg) => patches = {s[source[i].to + 1]}
  <1> DEFINE to == source[i].to
             o == s[i + 1]
  <1>0. source \in Programs /\ DOMAIN source = 1 .. n - 1 /\ n \in Nat \ {0}
    BY ProgramFacts DEF ListTyped, Path
  <1>1. source[i].kind # "PATCH"
    BY DEF Refers
  <1>2. \A j \in 1 .. n - 1 :
          /\ s[j + 1] \in alive /\ s[j + 1] \in Ids /\ s[j + 1] # 0
          /\ ops[s[j + 1]].item = j /\ ops[s[j + 1]].kind = source[j].kind /\ Pointed(s, j)
    <2>1. ASSUME NEW j \in 1 .. n - 1 PROVE s[j + 1] \in alive /\ s[j + 1] \in Ids /\ s[j + 1] # 0
      <3>1. j + 1 \in 1 .. n
        BY <1>0
      <3>2. s[j + 1] \in alive
        BY <3>1 DEF Path
      <3> QED
        BY <3>2, StartFacts DEF ListTyped
    <2> QED
      BY <2>1 DEF Building
  <1>3. CASE to \in 1 .. i - 1 /\ source[to].kind = "LABEL"
    <2>1. ops[o].arg = s[to + 1]
      BY <1>0, <1>1, <1>2, <1>3 DEF Pointed
    <2>2. to \in 1 .. n - 1 /\ IsLabel(s[to + 1])
      BY <1>0, <1>2, <1>3 DEF IsLabel
    <2> QED
      BY <1>0, <2>1, <2>2
  <1>4. CASE to \in i + 1 .. Len(source) /\ source[to].kind = "PATCH"
    <2>1. to \in 1 .. n - 1 /\ to \notin 1 .. i - 1
      BY <1>0, <1>4
    <2>2. ops[o].arg = 0
      BY <1>0, <1>1, <1>2, <2>1 DEF Pointed
    <2>3. PICK p \in 1 .. to - 1 :
            p \in DOMAIN source /\ \A m \in DOMAIN source : source[m].to = to => m = p
      BY <1>0, <1>4, <2>1, PatcherIsUnique
    <2>4. p = i
      BY <2>3
    <2>5. ops[s[to + 1]].kind = "PATCH" /\ ops[s[to + 1]].arg = o
      <3>1. PICK k \in 1 .. to - 1 : source[k].to = to /\ ops[s[to + 1]].arg = s[k + 1]
        BY <1>2, <1>4, <2>1 DEF Pointed
      <3>2. k \in DOMAIN source
        BY <1>0, <2>1
      <3>3. k = i
        BY <2>3, <2>4, <3>1, <3>2
      <3> QED
        BY <1>2, <1>4, <2>1, <3>1, <3>3
    <2>6. ASSUME NEW q \in alive, ops[q].kind = "PATCH", ops[q].arg = o PROVE q = s[to + 1]
      <3>1. q # CODESTART
        BY <2>6
      <3>2. PICK m \in 1 .. n - 1 : q = s[m + 1]
        BY <3>1, BuildingFacts
      <3>3. PICK k \in 1 .. m - 1 : source[k].to = m /\ ops[q].arg = s[k + 1]
        BY <1>2, <2>6, <3>2 DEF Pointed
      <3>4. k \in 1 .. n - 1 /\ i \in 1 .. n - 1
        BY <1>0, <3>2
      <3>5. k = ops[s[k + 1]].item /\ i = ops[s[i + 1]].item
        BY <1>2, <3>4
      <3> QED
        BY <2>6, <3>2, <3>3, <3>5
    <2>7. ~IsLabel(ops[o].arg)
      BY <2>2 DEF IsLabel
    <2>8. {k \in alive : ops[k].kind = "PATCH" /\ ops[k].arg = o} = {s[to + 1]}
      BY <1>2, <2>1, <2>5, <2>6
    <2> QED
      BY <1>0, <2>1, <2>7, <2>8
  <1> QED
    BY <1>0, <1>3, <1>4, ProgramFacts

LEMMA ExpandStep ==
    ASSUME ListInv, ExpandPatchesAndLabels
    PROVE  ListInv'
  <1>0. /\ ListTyped /\ pass = "build" /\ pass' = "spills" /\ source' = source /\ alive' = alive
        /\ next' = next /\ prev' = prev /\ last_op' = last_op /\ cur' = First
        /\ ops[CODESTART].kind = "CODESTART" /\ Added = Len(source)
    BY DEF ListInv, ExpandPatchesAndLabels, Goto, list
  <1>1. PICK n, s : Path(s, n, alive, next, prev) /\ Building(s, n)
    BY <1>0 DEF ListInv, Shape
  <1>2. /\ n \in Nat \ {0} /\ n - 1 = Len(source) /\ DOMAIN source = 1 .. n - 1
        /\ source \in Programs /\ alive \subseteq Ids
    BY <1>0, <1>1, BuildingFacts, ProgramFacts DEF ListTyped
  <1> DEFINE Patches(o) == {k \in alive : ops[k].kind = "PATCH" /\ ops[k].arg = o}
             Target(o) == IF o \in alive /\ ops[o].kind # "LABEL" /\ IsLabel(ops[o].arg)
                          THEN ops[o].arg
                          ELSE IF Patches(o) # {} THEN CHOOSE k \in Patches(o) : TRUE
                          ELSE 0
  <1>3. ops' = [o \in Ids |-> [ops[o] EXCEPT !.jmp_addr = Target(o)]]
    BY DEF ExpandPatchesAndLabels
  <1>4. ASSUME NEW o \in Ids PROVE Target(o) \in Ids \cup {0}
    <2>1. ops[o].arg \in Ids \cup {0}
      BY <1>0 DEF ListTyped, Op
    <2>2. Patches(o) # {} => (CHOOSE k \in Patches(o) : TRUE) \in Ids
      BY <1>2
    <2> QED
      BY <2>1, <2>2
  <1> HIDE DEF Target
  <1>5. ASSUME NEW o \in Ids
        PROVE  /\ ops'[o] \in Op
               /\ ops'[o].kind = ops[o].kind /\ ops'[o].item = ops[o].item
               /\ ops'[o].n = ops[o].n /\ ops'[o].arg = ops[o].arg
               /\ ops'[o].jmp_addr = Target(o)
    <2>1. ops[o] \in Op
      BY <1>0 DEF ListTyped
    <2>2. ops'[o] = [ops[o] EXCEPT !.jmp_addr = Target(o)]
      BY <1>3
    <2> QED
      BY <2>1, <2>2, <1>4 DEF Op
  <1>6. ops' \in [Ids -> Op]
    BY <1>3, <1>5
  <1>7. First = CODESTART /\ CODESTART \in alive
    BY <1>1, <1>2, FirstIsStart
  <1>8. ListTyped'
    BY <1>0, <1>6, <1>7 DEF ListTyped, Passes
  <1>9. \A i \in 1 .. n - 1 :
          /\ s[i + 1] \in alive /\ s[i + 1] \in Ids
          /\ ops[s[i + 1]].item = i /\ ops[s[i + 1]].kind = source[i].kind
          /\ ops[s[i + 1]].n = source[i].n /\ Pointed(s, i)
    BY <1>0, <1>1, <1>2, BuildingFacts DEF Building
  <1>10. \A j \in 1 .. n : s[j] \in Ids /\ ops'[s[j]].item = j - 1
    <2>1. ASSUME NEW j \in 1 .. n PROVE s[j] \in Ids /\ ops[s[j]].item = j - 1
      <3>1. CASE j = 1
        BY <3>1, <1>1, StartFacts DEF Path, Building
      <3>2. CASE j # 1
        <4>1. j - 1 \in 1 .. n - 1 /\ j = (j - 1) + 1
          BY <3>2, <1>2
        <4> QED
          BY <4>1, <1>9
      <3> QED
        BY <3>1, <3>2
    <2> QED
      BY <2>1, <1>5
  <1>11. ASSUME NEW i \in 1 .. n - 1 PROVE Resolved(s[i + 1])'
    <2> DEFINE o == s[i + 1]
               to == source[i].to
    <2>1. /\ o \in Ids /\ o \in alive /\ ops'[o].item = i /\ ops'[o].kind = source[i].kind
          /\ ops'[o].n = source[i].n /\ ops'[o].arg = ops[o].arg
      BY <1>5, <1>9
    <2>2. ASSUME source[i].kind \in Refers
          PROVE  /\ ops'[o].jmp_addr \in alive
                 /\ ops'[ops'[o].jmp_addr].item = to
                 /\ IsLabel(ops[o].arg) => ops'[o].arg = ops'[o].jmp_addr
      <3>1. /\ to \in 1 .. n - 1
            /\ IsLabel(ops[o].arg) => ops[o].arg = s[to + 1]
            /\ ~IsLabel(ops[o].arg) => Patches(o) = {s[to + 1]}
        BY <1>0, <1>1, <1>2, <2>2, ResolvedTarget
      <3>2. ops[o].kind # "LABEL"
        BY <1>9, <2>2 DEF Refers
      <3>3. Target(o) = s[to + 1]
        BY <2>1, <3>1, <3>2 DEF Target
      <3>4. ops'[o].jmp_addr = s[to + 1]
        BY <1>5, <2>1, <3>3
      <3> QED
        BY <1>5, <1>9, <2>1, <3>1, <3>4
    <2>3. ASSUME source[i].kind = "PATCH"
          PROVE  /\ ops'[o].arg \in alive
                 /\ ops'[ops'[o].arg].item \in DOMAIN source
                 /\ source[ops'[ops'[o].arg].item].to = i
      <3>1. PICK k \in 1 .. i - 1 : source[k].to = i /\ ops[o].arg = s[k + 1]
        BY <1>9, <2>3 DEF Pointed
      <3>2. k \in 1 .. n - 1
        BY <1>2
      <3> QED
        BY <1>2, <1>5, <1>9, <2>1, <3>1, <3>2
    <2>4. IsLabel(ops[o].arg)' => IsLabel(ops[o].arg)
      <3>1. ops[o].arg \in Ids \cup {0}
        BY <1>0, <2>1 DEF ListTyped, Op
      <3> QED
        BY <1>5, <2>1, <3>1 DEF IsLabel
    <2> QED
      BY <1>0, <1>2, <2>1, <2>2, <2>3, <2>4 DEF Resolved
  <1>12. Laid(s, n)'
    <2>1. ops'[CODESTART].item = 0
      BY <1>1, <1>5, <1>7, <1>2 DEF Building
    <2>2. \A j, k \in 1 .. n : j < k /\ ops'[s[k]].item # 0 => ops'[s[j]].item < ops'[s[k]].item
      BY <1>2, <1>10
    <2>3. \A i \in DOMAIN source : \E j \in 1 .. n : ops'[s[j]].item = i
      <3>1. ASSUME NEW i \in 1 .. n - 1 PROVE \E j \in 1 .. n : ops'[s[j]].item = i
        <4>1. i + 1 \in 1 .. n /\ (i + 1) - 1 = i
          BY <1>2
        <4> QED
          BY <4>1, <1>10
      <3> QED
        BY <3>1, <1>2
    <2>4. ASSUME NEW j \in 2 .. n PROVE ops'[s[j]].item # 0 /\ Resolved(s[j])'
      <3>1. j \in 1 .. n /\ j - 1 \in 1 .. n - 1 /\ j = (j - 1) + 1
        BY <1>2
      <3>2. ops'[s[j]].item = j - 1
        BY <3>1, <1>10
      <3>3. Resolved(s[(j - 1) + 1])'
        BY <3>1, <1>11
      <3>4. Resolved(s[j])'
        BY <3>1, <3>3
      <3> QED
        BY <3>1, <3>2, <3>4
    <2> QED
      BY <1>0, <2>1, <2>2, <2>3, <2>4 DEF Laid
  <1>13. ops'[CODESTART].kind = "CODESTART"
    BY <1>0, <1>2, <1>5, <1>7
  <1> QED
    BY <1>0, <1>1, <1>8, <1>12, <1>13 DEF ListInv, Shape

(* Where a spill is put is behind CODESTART.                               *)
LEMMA LaidResolved ==
    ASSUME ListTyped, NEW n, NEW s, Path(s, n, alive, next, prev), Laid(s, n),
           NEW o \in alive, ops[o].kind \notin {"CODESTART", "FULL_SPILL"},
           ops[CODESTART].kind = "CODESTART"
    PROVE  ops[o].item \in DOMAIN source /\ Resolved(o)
  <1>1. PICK j \in 1 .. n : o = s[j]
    BY DEF Path
  <1>2. j \in 2 .. n
    BY <1>1 DEF Path
  <1>3. Resolved(o)
    BY <1>1, <1>2 DEF Laid
  <1> QED
    BY <1>3 DEF Resolved

LEMMA SpillTarget ==
    ASSUME ListTyped, NEW n, NEW s, Path(s, n, alive, next, prev), Laid(s, n),
           NEW o \in alive, ops[o].kind \in Refers, ops[CODESTART].kind = "CODESTART"
    PROVE  \E i \in 1 .. n - 1 : ops[o].jmp_addr = s[i + 1]
  <1>1. ops[o].item \in DOMAIN source /\ Resolved(o)
    BY LaidResolved DEF Refers
  <1>2. /\ ops[o].jmp_addr \in alive
        /\ ops[ops[o].jmp_addr].item = source[ops[o].item].to
        /\ source[ops[o].item].kind \in Refers
    BY <1>1 DEF Resolved
  <1>3. source[ops[o].item].to # 0
    <2> DEFINE i == ops[o].item
    <2>1. i \in 1 .. Len(source) /\ Len(source) \in Nat
      BY <1>1, ProgramFacts DEF ListTyped
    <2>2. source[i].to \in 1 .. i - 1 \/ source[i].to \in i + 1 .. Len(source)
      BY <1>1, <1>2, ProgramFacts DEF ListTyped
    <2> QED
      BY <2>1, <2>2
  <1>4. ops[o].jmp_addr # CODESTART
    BY <1>2, <1>3 DEF Laid
  <1>5. PICK j \in 1 .. n : ops[o].jmp_addr = s[j]
    BY <1>2 DEF Path
  <1>6. j # 1 /\ n \in Nat
    BY <1>4, <1>5 DEF Path
  <1>7. j - 1 \in 1 .. n - 1 /\ (j - 1) + 1 = j
    BY <1>6
  <1> QED
    BY <1>5, <1>7

LEMMA PrepareSpillStep ==
    ASSUME ListInv, PrepareSpill
    PROVE  ListInv'
  <1>0. /\ ListTyped /\ pass = "spills" /\ pass' = "spills" /\ source' = source
        /\ last_op' = last_op /\ cur' = next[cur] /\ cur \in alive
        /\ ops[CODESTART].kind = "CODESTART"
        /\ ops[cur].kind \in {"REF_CODE", "DATA_REF_CODE"}
    BY DEF ListInv, ListTyped, PrepareSpill, Goto
  <1>1. PICK n, s : Path(s, n, alive, next, prev) /\ Laid(s, n)
    BY <1>0 DEF ListInv, Shape
  <1>2. PICK new \in Ids \ alive :
          /\ ops' = [ops EXCEPT ![new] = NewOp("FULL_SPILL", 0, 0, 1)]
          /\ LinkBefore(ops[cur].jmp_addr, new)
          /\ alive' = alive \cup {new}
    BY DEF PrepareSpill, Obtainable
  <1>3. PICK i \in 1 .. n - 1 : ops[cur].jmp_addr = s[i + 1]
    <2>1. ops[cur].kind \in Refers
      BY <1>0 DEF Refers
    <2> QED
      BY <1>0, <1>1, <2>1, SpillTarget
  <1>4. /\ n \in Nat \ {0} /\ \A j \in 1 .. n : s[j] \in alive /\ s[j] \in Ids
        /\ alive \subseteq Ids /\ i \in 1 .. n /\ i + 1 \in 1 .. n
        /\ s[i + 1] # s[i] /\ next[s[i]] = s[i + 1] /\ prev[s[i + 1]] = s[i]
    <2>1. n \in Nat \ {0} /\ i \in 1 .. n /\ i + 1 \in 2 .. n /\ i + 1 \in 1 .. n /\ (i + 1) - 1 = i
      BY <1>1 DEF Path
    <2> QED
      BY <1>0, <1>1, <2>1 DEF Path, ListTyped
  <1>5. /\ next' \in [Ids -> Ids \cup {0}] /\ prev' \in [Ids -> Ids \cup {0}]
        /\ next'[new] = next[s[i]] /\ next'[s[i]] = new
        /\ \A k \in alive : k # s[i] => next'[k] = next[k]
        /\ prev'[new] = s[i]
        /\ \A k \in alive : prev'[k] = IF k = next[s[i]] THEN new ELSE prev[k]
    <2>1. /\ prev' = [prev EXCEPT ![s[i + 1]] = new, ![new] = s[i]]
          /\ next' = [k \in Ids |-> IF k = new THEN s[i + 1] ELSE IF k = s[i] THEN new ELSE next[k]]
      BY <1>2, <1>3, <1>4 DEF LinkBefore
    <2>2. next \in [Ids -> Ids \cup {0}] /\ prev \in [Ids -> Ids \cup {0}]
      BY <1>0 DEF ListTyped
    <2>3. s[i] \in Ids /\ s[i + 1] \in Ids /\ s[i] # new /\ s[i + 1] # new
      BY <1>4
    <2> QED
      BY <1>4, <2>1, <2>2, <2>3
  <1>6. PICK t : /\ t = Inserted(s, n, i, new)
                 /\ \A j \in 1 .. n + 1 :
                      t[j] = IF j <= i THEN s[j] ELSE IF j = i + 1 THEN new ELSE s[j - 1]
    <2> DEFINE u == Inserted(s, n, i, new)
    <2>1. \A j \in 1 .. n + 1 : u[j] = IF j <= i THEN s[j] ELSE IF j = i + 1 THEN new ELSE s[j - 1]
      BY <1>4 DEF Inserted
    <2> HIDE DEF u
    <2>2. \E t : t = u /\ \A j \in 1 .. n + 1 :
            t[j] = IF j <= i THEN s[j] ELSE IF j = i + 1 THEN new ELSE s[j - 1]
      BY <2>1
    <2> QED
      BY <2>2 DEF u
  <1>7. Path(t, n + 1, alive', next', prev')
    <2>1. Path(Inserted(s, n, i, new), n + 1, alive \cup {new}, next', prev')
      BY <1>1, <1>4, <1>5, InsertKeepsPath, SMTT(30)
    <2> QED
      BY <1>2, <1>6, <2>1
  <1>8. /\ ops' \in [Ids -> Op] /\ ops'[new] = NewOp("FULL_SPILL", 0, 0, 1)
        /\ \A o \in Ids : o # new => ops'[o] = ops[o]
    <2>1. NewOp("FULL_SPILL", 0, 0, 1) \in Op
      <3>1. "FULL_SPILL" \in OpKinds /\ 0 \in Nat /\ 0 \in Ids \cup {0} /\ 1 \in Nat \ {0}
        BY DEF OpKinds
      <3> QED
        BY <3>1, NewOpTyped
    <2> QED
      BY <1>0, <1>2, <2>1 DEF ListTyped
  <1>9. next[cur] \in alive \cup {0} /\ CODESTART \in alive
    BY <1>0, <1>1, <1>4, PathFacts
  <1>10. ListTyped'
    BY <1>0, <1>2, <1>5, <1>8, <1>9 DEF ListTyped
  <1>11. ops'[new].item = 0 /\ ops'[new].kind = "FULL_SPILL" /\ ops'[new].n = 1
    BY <1>8 DEF NewOp
  <1>12. \A j \in 1 .. n : ops'[s[j]] = ops[s[j]] /\ ops[s[j]].item \in Nat
    BY <1>0, <1>4, <1>8 DEF ListTyped, Op
  <1>13. ASSUME NEW o \in alive, Resolved(o) PROVE Resolved(o)'
    <2>1. o \in Ids /\ o # new /\ ops'[o] = ops[o] /\ ops[o].arg \in Ids \cup {0}
      BY <1>0, <1>4, <1>8 DEF ListTyped, Op
    <2>2. \A k \in alive : k \in alive' /\ ops'[k] = ops[k]
      BY <1>2, <1>4, <1>8
    <2>3. IsLabel(ops[o].arg)' => IsLabel(ops[o].arg)
      BY <1>8, <1>11, <2>1 DEF IsLabel
    <2> QED
      BY <1>0, <1>13, <2>1, <2>2, <2>3 DEF Resolved
  <1>14. Laid(t, n + 1)'
    <2>1. ops'[CODESTART].item = 0
      BY <1>1, <1>4, <1>8, <1>9 DEF Laid
    <2>2. ASSUME NEW j \in 1 .. n + 1, NEW k \in 1 .. n + 1, j < k, ops'[t[k]].item # 0
          PROVE  ops'[t[j]].item < ops'[t[k]].item
      <3>1. k # i + 1
        BY <1>4, <1>6, <1>11, <2>2
      <3> DEFINE m == IF k <= i THEN k ELSE k - 1
      <3>2. m \in 1 .. n /\ t[k] = s[m]
        BY <1>4, <1>6, <3>1
      <3>3. CASE j = i + 1
        <4>1. t[j] = new
          BY <1>4, <1>6, <3>3
        <4>2. ops'[t[k]].item \in Nat
          BY <1>12, <3>2
        <4> QED
          BY <1>11, <2>2, <4>1, <4>2
      <3>4. CASE j # i + 1
        <4> DEFINE l == IF j <= i THEN j ELSE j - 1
        <4>1. l \in 1 .. n /\ t[j] = s[l] /\ l < m
          BY <1>4, <1>6, <2>2, <3>1, <3>4
        <4>2. ops[s[m]].item # 0
          BY <1>12, <2>2, <3>2
        <4>3. ops[s[l]].item < ops[s[m]].item
          BY <1>1, <3>2, <4>1, <4>2 DEF Laid
        <4> QED
          BY <1>12, <3>2, <4>1, <4>3
      <3> QED
        BY <3>3, <3>4
    <2>3. ASSUME NEW m \in DOMAIN source PROVE \E j \in 1 .. n + 1 : ops'[t[j]].item = m
      <3>1. PICK j \in 1 .. n : ops[s[j]].item = m
        BY <1>1 DEF Laid
      <3>2. t[IF j <= i THEN j ELSE j + 1] = s[j] /\ (IF j <= i THEN j ELSE j + 1) \in 1 .. n + 1
        BY <1>4, <1>6
      <3> QED
        BY <1>12, <3>1, <3>2
    <2>4. ASSUME NEW j \in 2 .. n + 1
          PROVE  IF ops'[t[j]].item = 0
                 THEN ops'[t[j]].kind = "FULL_SPILL" /\ ops'[t[j]].n = 1
                 ELSE Resolved(t[j])'
      <3>1. CASE j = i + 1
        BY <1>4, <1>6, <1>11, <3>1
      <3>2. CASE j # i + 1
        <4> DEFINE l == IF j <= i THEN j ELSE j - 1
        <4>1. l \in 2 .. n /\ l \in 1 .. n /\ t[j] = s[l] /\ s[l] \in alive
          BY <1>4, <1>6, <3>2
        <4>2. IF ops[s[l]].item = 0 THEN ops[s[l]].kind = "FULL_SPILL" /\ ops[s[l]].n = 1
              ELSE Resolved(s[l])
          BY <1>1, <4>1 DEF Laid
        <4>3. CASE ops[s[l]].item = 0
          BY <1>12, <4>1, <4>2, <4>3
        <4>4. CASE ops[s[l]].item # 0
          <5>1. Resolved(s[l])'
            BY <1>13, <4>1, <4>2, <4>4
          <5>2. ops'[t[j]].item # 0 /\ Resolved(t[j])'
            BY <1>12, <4>1, <4>4, <5>1
          <5> QED
            BY <5>2
        <4> QED
          BY <4>3, <4>4
      <3> QED
        BY <3>1, <3>2
    <2> QED
      BY <1>0, <2>1, <2>2, <2>3, <2>4 DEF Laid
  <1>15. ops'[CODESTART].kind = "CODESTART"
    BY <1>0, <1>4, <1>8, <1>9
  <1> QED
    BY <1>0, <1>7, <1>10, <1>14, <1>15 DEF ListInv, Shape

LEMMA NoSpillStep ==
    ASSUME ListInv, NoSpill
    PROVE  ListInv'
  <1>1. /\ source' = source /\ ops' = ops /\ next' = next /\ prev' = prev /\ alive' = alive
        /\ last_op' = last_op /\ pass = "spills" /\ pass' = "spills"
        /\ cur \in alive /\ cur' = next[cur]
    BY DEF ListInv, ListTyped, NoSpill, Goto, list
  <1>2. PICK n, s : Path(s, n, alive, next, prev) /\ Laid(s, n)
    BY <1>1 DEF ListInv, Shape
  <1>3. next[cur] \in alive \cup {0}
    BY <1>1, <1>2, PathFacts DEF ListInv, ListTyped
  <1>4. ListTyped'
    BY <1>1, <1>3 DEF ListInv, ListTyped
  <1>5. Laid(s, n)'
    BY <1>1, <1>2 DEF Laid, Resolved, IsLabel
  <1> QED
    BY <1>1, <1>2, <1>4, <1>5 DEF ListInv, Shape

(* Steps of the later passes that leave the links alone.                   *)
LEMMA LinksKept ==
    ASSUME ListInv, UNCHANGED <<source, next, prev, alive, last_op>>, ops' \in [Ids -> Op],
           pass' \in Passes \ {"build", "spills"}, cur' \in alive \cup {0},
           pass' = "delete" => ops'[CODESTART].in_use, pass' = "emit" => cur' # 0
    PROVE  ListInv'
  <1>1. ListTyped'
    BY DEF ListInv, ListTyped
  <1>2. PICK n, s : Path(s, n, alive, next, prev)
    BY DEF ListInv, Shape
  <1>3. Path(s, n, alive', next', prev')
    BY <1>2
  <1>4. Shape(s, n)'
    BY <1>3 DEF Shape
  <1> QED
    BY <1>1, <1>4 DEF ListInv

LEMMA NextFacts ==
    ASSUME ListInv
    PROVE  /\ \A o \in alive : next[o] \in alive \cup {0}
           /\ First = CODESTART /\ CODESTART \in alive
           /\ source \in Programs /\ alive \subseteq Ids /\ cur \in alive \cup {0}
           /\ ops \in [Ids -> Op]
  <1>1. PICK n, s : Path(s, n, alive, next, prev)
    BY DEF ListInv, Shape
  <1>2. alive \subseteq Ids
    BY DEF ListInv, ListTyped
  <1> QED
    BY <1>1, <1>2, PathFacts, FirstIsStart DEF ListInv, ListTyped

LEMMA MarkStep ==
    ASSUME ListInv, MarkLiveCode
    PROVE  ListInv'
  <1>1. /\ UNCHANGED <<source, next, prev, alive, last_op>> /\ pass = "spills"
        /\ ops[CODESTART].kind = "CODESTART"
    BY DEF ListInv, MarkLiveCode, list
  <1>2. CASE Goto("delete", First) /\
             ops' = [o \in Ids |->
               IF o \in alive
               THEN [ops[o] EXCEPT !.in_use = o \in Marked \/ ops[o].kind \in Directives]
               ELSE ops[o]]
    <2>1. ASSUME NEW o \in Ids PROVE ops'[o] \in Op
      <3>1. ops[o] \in Op
        BY NextFacts
      <3>2. ops'[o] = IF o \in alive
              THEN [ops[o] EXCEPT !.in_use = o \in Marked \/ ops[o].kind \in Directives]
              ELSE ops[o]
        BY <1>2
      <3>3. (o \in Marked \/ ops[o].kind \in Directives) \in BOOLEAN
        OBVIOUS
      <3> QED
        BY <3>1, <3>2, <3>3 DEF Op
    <2>2. ops' \in [Ids -> Op]
      BY <1>2, <2>1
    <2>3. ops'[CODESTART].in_use
      <3>1. CODESTART \in Ids /\ ops[CODESTART] \in Op
        BY NextFacts
      <3>2. ops'[CODESTART] = [ops[CODESTART] EXCEPT !.in_use = TRUE]
        BY <1>1, <1>2, <3>1, NextFacts DEF Directives
      <3> QED
        BY <3>1, <3>2 DEF Op
    <2> QED
      BY <1>1, <1>2, <2>2, <2>3, NextFacts, LinksKept DEF Goto, Passes
  <1>3. CASE Goto("branches", First) /\ UNCHANGED ops
    BY <1>1, <1>3, NextFacts, LinksKept DEF Goto, Passes
  <1> QED
    BY <1>2, <1>3 DEF MarkLiveCode

LEMMA DeletePath ==
    ASSUME ListInv, DeleteOp, NEW n, NEW s, Path(s, n, alive, next, prev)
    PROVE  /\ \E i \in 2 .. n : cur = s[i] /\ Path(Removed(s, n, i), n - 1, alive', next', prev')
           /\ next' \in [Ids -> Ids \cup {0}] /\ prev' \in [Ids -> Ids \cup {0}]
           /\ \A k \in alive : next'[k] = IF k = prev[cur] THEN next[cur] ELSE next[k]
  <1>0. /\ ListTyped /\ pass = "delete" /\ cur \in alive
        /\ alive' = alive \ {cur} /\ Unlink(cur) /\ ~ops[cur].in_use
    BY DEF ListInv, ListTyped, DeleteOp, Goto
  <1>1. Path(s, n, alive, next, prev)
    OBVIOUS
  <1>2. cur # CODESTART
    BY <1>0 DEF ListInv
  <1>3. n \in Nat /\ alive \subseteq Ids
    BY <1>0, <1>1 DEF Path, ListTyped
  <1>4. PICK i \in 2 .. n : cur = s[i]
    <2>1. PICK i \in 1 .. n : cur = s[i]
      BY <1>0, <1>1 DEF Path
    <2>2. i # 1
      BY <1>1, <1>2, <2>1 DEF Path
    <2> QED
      BY <1>3, <2>1, <2>2
  <1>6. /\ next' = [next EXCEPT ![prev[cur]] = next[cur]]
        /\ prev' = [k \in Ids |-> IF k = next[cur] THEN prev[cur] ELSE prev[k]]
    BY <1>0 DEF Unlink
  <1>7. next \in [Ids -> Ids \cup {0}] /\ prev \in [Ids -> Ids \cup {0}]
    BY <1>0 DEF ListTyped
  <1>8. /\ next' \in [Ids -> Ids \cup {0}] /\ prev' \in [Ids -> Ids \cup {0}]
        /\ \A k \in alive : next'[k] = IF k = prev[cur] THEN next[cur] ELSE next[k]
        /\ \A k \in alive : prev'[k] = IF k = next[cur] THEN prev[cur] ELSE prev[k]
    BY <1>0, <1>3, <1>6, <1>7
  <1>9. Path(Removed(s, n, i), n - 1, alive \ {s[i]}, next', prev')
    BY <1>1, <1>3, <1>4, <1>8, RemoveKeepsPath
  <1> QED
    BY <1>0, <1>4, <1>8, <1>9

LEMMA DeleteStep ==
    ASSUME ListInv, DeleteOp
    PROVE  ListInv'
  <1>0. /\ ListTyped /\ pass = "delete" /\ pass' = "delete" /\ cur' = next[cur] /\ cur \in alive
        /\ alive' = alive \ {cur} /\ alive \subseteq Ids
        /\ UNCHANGED <<source, ops, last_op>>
    BY DEF ListInv, ListTyped, DeleteOp, Goto
  <1>1. PICK n, s : Path(s, n, alive, next, prev)
    BY DEF ListInv, Shape
  <1>2. /\ \E i \in 2 .. n : cur = s[i] /\ Path(Removed(s, n, i), n - 1, alive', next', prev')
        /\ next' \in [Ids -> Ids \cup {0}] /\ prev' \in [Ids -> Ids \cup {0}]
    BY <1>1, DeletePath
  <1>3. next[cur] \in alive \cup {0} /\ next[cur] # cur
    <2>0. alive \subseteq Ids
      BY <1>0
    <2>1. \A o \in alive : next[o] \in alive \cup {0} /\ next[o] # o
      BY <1>1, <2>0, PathFacts
    <2> QED
      BY <1>0, <2>1
  <1>4. ListTyped'
    BY <1>0, <1>2, <1>3 DEF ListTyped
  <1>5. \E m, t : Shape(t, m)'
    <2>1. PICK m, t : Path(t, m, alive', next', prev')
      BY <1>2
    <2>2. Shape(t, m)'
      BY <1>0, <2>1 DEF Shape
    <2> QED
      BY <2>2
  <1>6. ops'[CODESTART].in_use
    BY <1>0 DEF ListInv
  <1> QED
    BY <1>0, <1>4, <1>5, <1>6 DEF ListInv

LEMMA TurnedFacts ==
    ASSUME ops \in [Ids -> Op], alive \subseteq Ids, NEW b \in alive,
           NEW jump \in Ids \ alive, NEW patch \in Ids \ alive, jump # patch
    PROVE  LET target == ops[b].jmp_addr
               turned == TurnedOps(b, jump, patch)
           IN /\ turned \in [Ids -> Op]
              /\ \A o \in Ids :
                   /\ turned[o].kind = IF o = jump THEN "JMP" ELSE IF o = patch THEN "PATCH"
                                       ELSE ops[o].kind
                   /\ turned[o].n = IF o = jump THEN 2 ELSE IF o = patch THEN 1 ELSE ops[o].n
                   /\ turned[o].arg =
                        IF o = target /\ ~IsLabel(ops[b].arg) THEN jump
                        ELSE IF o = jump THEN ops[b].arg
                        ELSE IF o = patch THEN b
                        ELSE IF o = b THEN patch ELSE ops[o].arg
                   /\ turned[o].jmp_addr =
                        IF o = jump THEN target
                        ELSE IF o = patch THEN 0
                        ELSE IF o = b THEN patch ELSE ops[o].jmp_addr
  <1> DEFINE target == ops[b].jmp_addr
             first == TurnedOpsOldPatch(b, jump, patch)
             turned == TurnedOps(b, jump, patch)
             J == [NewOp("JMP", 0, ops[b].arg, 2) EXCEPT !.jmp_addr = target]
             P == NewOp("PATCH", 0, b, 1)
             B == [ops[b] EXCEPT !.turned = TRUE, !.arg = patch, !.jmp_addr = patch]
  <1>1. ops[b] \in Op /\ target \in Ids \cup {0} /\ ops[b].arg \in Ids \cup {0} /\ b \in Ids
    BY DEF Op
  <1>2. /\ J \in Op /\ J.kind = "JMP" /\ J.n = 2 /\ J.arg = ops[b].arg /\ J.jmp_addr = target
        /\ P \in Op /\ P.kind = "PATCH" /\ P.n = 1 /\ P.arg = b /\ P.jmp_addr = 0
    <2>1. /\ "JMP" \in OpKinds /\ "PATCH" \in OpKinds /\ 0 \in Nat /\ 2 \in Nat \ {0}
          /\ 1 \in Nat \ {0} /\ b \in Ids \cup {0}
      BY <1>1 DEF OpKinds, Kinds
    <2>2. NewOp("JMP", 0, ops[b].arg, 2) \in Op /\ P \in Op
      BY <1>1, <2>1, NewOpTyped
    <2> QED
      BY <1>1, <2>2 DEF NewOp, Op
  <1>3. B \in Op /\ B.kind = ops[b].kind /\ B.n = ops[b].n /\ B.arg = patch /\ B.jmp_addr = patch
    BY <1>1 DEF Op
  <1>4. ASSUME NEW o \in Ids
        PROVE  first[o] = IF o = jump THEN J ELSE IF o = patch THEN P ELSE IF o = b THEN B ELSE ops[o]
    BY <1>1 DEF TurnedOpsOldPatch
  <1>5. first \in [Ids -> Op]
    <2>1. first = [o \in Ids |-> first[o]]
      BY DEF TurnedOpsOldPatch
    <2>2. \A o \in Ids : first[o] \in Op
      BY <1>2, <1>3, <1>4
    <2> HIDE DEF first
    <2> QED
      BY <2>1, <2>2
  <1>6. turned = IF IsLabel(ops[b].arg) THEN first ELSE [first EXCEPT ![target].arg = jump]
    BY DEF TurnedOps
  <1> HIDE DEF first, turned, J, P, B
  <1>7. ASSUME NEW o \in Ids
        PROVE  turned[o] = IF o = target /\ ~IsLabel(ops[b].arg)
                           THEN [first[o] EXCEPT !.arg = jump] ELSE first[o]
    BY <1>5, <1>6
  <1>8. turned \in [Ids -> Op]
    <2>1. \A o \in Ids : [first[o] EXCEPT !.arg = jump] \in Op
      <3>1. ASSUME NEW o \in Ids PROVE [first[o] EXCEPT !.arg = jump] \in Op
        <4>1. first[o] \in Op
          BY <1>5
        <4> QED
          BY <4>1 DEF Op
      <3> QED
        BY <3>1
    <2> QED
      BY <1>5, <1>6, <2>1
  <1>9. ASSUME NEW o \in Ids
        PROVE  /\ turned[o].kind = first[o].kind /\ turned[o].n = first[o].n
               /\ turned[o].jmp_addr = first[o].jmp_addr
               /\ turned[o].arg = IF o = target /\ ~IsLabel(ops[b].arg) THEN jump ELSE first[o].arg
    <2>1. first[o] \in Op
      BY <1>5
    <2> QED
      BY <1>7, <2>1 DEF Op
  <1> QED
    BY <1>2, <1>3, <1>4, <1>8, <1>9 DEF turned

LEMMA TurnedMarks ==
    ASSUME ops \in [Ids -> Op], alive \subseteq Ids, NEW b \in alive,
           NEW jump \in Ids \ alive, NEW patch \in Ids \ alive, jump # patch
    PROVE  LET turned == TurnedOps(b, jump, patch)
           IN \A o \in Ids :
                /\ turned[o].item = IF o \in {jump, patch} THEN 0 ELSE ops[o].item
                /\ turned[o].in_use <=> o \in {jump, patch} \/ ops[o].in_use
                /\ turned[o].turned <=> o = b \/ (o \notin {jump, patch} /\ ops[o].turned)
  <1> DEFINE first == TurnedOpsOldPatch(b, jump, patch)
             turned == TurnedOps(b, jump, patch)
             J == [NewOp("JMP", 0, ops[b].arg, 2) EXCEPT !.jmp_addr = ops[b].jmp_addr]
             P == NewOp("PATCH", 0, b, 1)
             B == [ops[b] EXCEPT !.turned = TRUE, !.arg = patch, !.jmp_addr = patch]
  <1>0. ops[b] \in Op /\ ops[b].arg \in Ids \cup {0} /\ ops[b].jmp_addr \in Ids \cup {0} /\ b \in Ids
    BY DEF Op
  <1>1. J \in Op /\ J.item = 0 /\ J.in_use /\ ~J.turned /\ P \in Op /\ P.item = 0 /\ P.in_use /\ ~P.turned
    <2>1. /\ "JMP" \in OpKinds /\ "PATCH" \in OpKinds /\ 0 \in Nat /\ 2 \in Nat \ {0}
          /\ 1 \in Nat \ {0} /\ b \in Ids \cup {0}
      BY <1>0 DEF OpKinds, Kinds
    <2>2. NewOp("JMP", 0, ops[b].arg, 2) \in Op /\ P \in Op
      BY <1>0, <2>1, NewOpTyped
    <2> QED
      BY <1>0, <2>2 DEF NewOp, Op
  <1>2. B \in Op /\ B.item = ops[b].item /\ (B.in_use <=> ops[b].in_use) /\ B.turned
    BY <1>0 DEF Op
  <1>3. ASSUME NEW o \in Ids
        PROVE  first[o] = IF o = jump THEN J ELSE IF o = patch THEN P ELSE IF o = b THEN B ELSE ops[o]
    BY DEF TurnedOpsOldPatch
  <1>4. turned = first \/ turned = [first EXCEPT ![ops[b].jmp_addr].arg = jump]
    BY DEF TurnedOps
  <1> HIDE DEF turned, J, P, B, first
  <1>5. ASSUME NEW o \in Ids
        PROVE  /\ turned[o].item = first[o].item /\ (turned[o].in_use <=> first[o].in_use)
               /\ (turned[o].turned <=> first[o].turned)
    <2>1. DOMAIN first = Ids
      BY DEF first, TurnedOpsOldPatch
    <2>2. turned[o] = first[o] \/ turned[o] = [first[o] EXCEPT !.arg = jump]
      BY <1>4, <2>1
    <2>3. first[o] \in Op
      BY <1>1, <1>2, <1>3
    <2> QED
      BY <2>2, <2>3 DEF Op
  <1>6. ASSUME NEW o \in Ids
        PROVE  /\ turned[o].item = IF o \in {jump, patch} THEN 0 ELSE ops[o].item
               /\ turned[o].in_use <=> o \in {jump, patch} \/ ops[o].in_use
               /\ turned[o].turned <=> o = b \/ (o \notin {jump, patch} /\ ops[o].turned)
    BY <1>1, <1>2, <1>3, <1>5
  <1> QED
    BY <1>6 DEF turned

(* How branch_adjustment links the new jump and its PATCH.                 *)
Detoured(jump, patch) ==
    /\ next' = [next EXCEPT ![cur] = jump, ![jump] = patch, ![patch] = next[cur]]
    /\ prev' = [k \in Ids |-> CASE k = jump -> cur
                                [] k = patch -> jump
                                [] k = next[cur] -> patch
                                [] OTHER -> prev[k]]
    /\ alive' = alive \cup {jump, patch}

LEMMA AdjustPath ==
    ASSUME ListInv, NEW n, NEW s, Path(s, n, alive, next, prev), NEW i \in 1 .. n, cur = s[i],
           NEW jump \in Ids \ alive, NEW patch \in Ids \ alive, jump # patch,
           Detoured(jump, patch)
    PROVE  /\ Path(Inserted(Inserted(s, n, i, jump), n + 1, i + 1, patch), n + 2,
                   alive', next', prev')
           /\ next' \in [Ids -> Ids \cup {0}] /\ prev' \in [Ids -> Ids \cup {0}]
           /\ next[cur] \in alive \cup {0}
           /\ \A k \in alive : next'[k] = IF k = cur THEN jump ELSE next[k]
           /\ next'[jump] = patch /\ next'[patch] = next[cur]
  <1>0. ListTyped /\ cur \in alive
    BY DEF ListInv, Path
  <1>3. /\ n \in Nat /\ alive \subseteq Ids
        /\ next \in [Ids -> Ids \cup {0}] /\ prev \in [Ids -> Ids \cup {0}] /\ ops \in [Ids -> Op]
    BY <1>0 DEF Path, ListTyped
  <1>4. next[cur] \in alive \cup {0} /\ next[cur] # jump /\ next[cur] # patch /\ next[cur] # cur
    <2>0. alive \subseteq Ids
      BY <1>3
    <2>1. \A o \in alive : next[o] \in alive \cup {0} /\ next[o] # o
      BY <2>0, PathFacts
    <2> QED
      BY <1>0, <2>1, StartFacts
  <1> DEFINE nx == [next EXCEPT ![cur] = jump, ![jump] = next[cur]]
             pv == [k \in Ids |-> IF k = jump THEN cur ELSE IF k = next[cur] THEN jump ELSE prev[k]]
             B == alive \cup {jump}
  <1>6. /\ nx[jump] = next[cur] /\ nx[cur] = jump
        /\ \A k \in alive : k # cur => nx[k] = next[k]
        /\ pv[jump] = cur
        /\ \A k \in alive : pv[k] = IF k = next[cur] THEN jump ELSE prev[k]
    BY <1>0, <1>3
  <1>7. /\ next'[patch] = next[cur] /\ next'[jump] = patch
        /\ \A k \in B : k # jump => next'[k] = nx[k]
        /\ prev'[patch] = jump
        /\ \A k \in B : prev'[k] = IF k = next[cur] THEN patch ELSE pv[k]
    BY <1>0, <1>3, <1>4 DEF Detoured
  <1>8. next' \in [Ids -> Ids \cup {0}] /\ prev' \in [Ids -> Ids \cup {0}]
    BY <1>0, <1>3 DEF Detoured
  <1>a. \A k \in alive : next'[k] = IF k = cur THEN jump ELSE next[k]
    BY <1>0, <1>3 DEF Detoured
  <1> DEFINE t == Inserted(s, n, i, jump)
             u == Inserted(t, n + 1, i + 1, patch)
  <1> HIDE DEF nx, pv
  <1>9. Path(t, n + 1, B, nx, pv)
    BY <1>3, <1>6, InsertKeepsPath
  <1>10. t[i + 1] = jump /\ i + 1 \in 1 .. n + 1
    BY <1>3 DEF Inserted
  <1> HIDE DEF t
  <1>11. Path(u, (n + 1) + 1, B \cup {patch}, next', prev')
    <2>1. B \subseteq Ids /\ patch \in Ids \ B
      BY <1>3
    <2>2. /\ next'[patch] = nx[t[i + 1]] /\ next'[t[i + 1]] = patch
          /\ \A k \in B : k # t[i + 1] => next'[k] = nx[k]
          /\ prev'[patch] = t[i + 1]
          /\ \A k \in B : prev'[k] = IF k = nx[t[i + 1]] THEN patch ELSE pv[k]
      BY <1>6, <1>7, <1>10
    <2> HIDE DEF B
    <2> QED
      BY <1>9, <1>10, <2>1, <2>2, InsertKeepsPath
  <1>12. (n + 1) + 1 = n + 2 /\ alive' = B \cup {patch}
    BY <1>3 DEF Detoured
  <1> QED
    BY <1>4, <1>7, <1>8, <1>a, <1>11, <1>12 DEF t

LEMMA AdjustStep ==
    ASSUME ListInv, AdjustBranch
    PROVE  ListInv'
  <1>0. /\ ListTyped /\ pass = "branches" /\ pass' = "branches" /\ cur \in alive
        /\ UNCHANGED <<source, last_op>> /\ alive \subseteq Ids /\ ops \in [Ids -> Op]
    BY DEF ListInv, ListTyped, AdjustBranch, Goto
  <1>1. PICK n, s : Path(s, n, alive, next, prev)
    BY DEF ListInv, Shape
  <1>2. PICK jump \in Ids \ alive, patch \in Ids \ alive :
          /\ jump # patch
          /\ ops' = TurnedOps(cur, jump, patch)
          /\ Detoured(jump, patch) /\ alive' = alive \cup {jump, patch}
          /\ cur' = jump
    BY DEF AdjustBranch, Obtainable, Unused, Goto, Detoured
  <1>3. PICK i \in 1 .. n : cur = s[i]
    BY <1>0, <1>1 DEF Path
  <1>4. /\ Path(Inserted(Inserted(s, n, i, jump), n + 1, i + 1, patch), n + 2,
                alive', next', prev')
        /\ next' \in [Ids -> Ids \cup {0}] /\ prev' \in [Ids -> Ids \cup {0}]
    BY <1>1, <1>2, <1>3, AdjustPath
  <1>5. \E m, v : Shape(v, m)'
    <2>1. PICK m, v : Path(v, m, alive', next', prev')
      BY <1>4
    <2>2. Shape(v, m)'
      BY <1>0, <2>1 DEF Shape
    <2> QED
      BY <2>2
  <1>6. ops' \in [Ids -> Op]
    BY <1>0, <1>2, TurnedFacts
  <1>7. ListTyped'
    BY <1>0, <1>2, <1>4, <1>6 DEF ListTyped
  <1> QED
    BY <1>0, <1>5, <1>7 DEF ListInv

-----------------------------------------------------------------------------
(* The buffer.                                                             *)

IsSeq(c) == \E S : c \in Seq(S)

Buffer(b) ==
    /\ b = [base |-> b.base, capacity |-> b.capacity, cells |-> b.cells]
    /\ b.base \in Nat /\ b.capacity \in Nat /\ IsSeq(b.cells)

LEMMA SeqFacts ==
    ASSUME NEW c, IsSeq(c)
    PROVE  Len(c) \in Nat /\ DOMAIN c = 1 .. Len(c)
  BY DEF IsSeq

LEMMA ConcatSeq ==
    ASSUME NEW c, IsSeq(c), NEW d, IsSeq(d)
    PROVE  IsSeq(c \o d) /\ Len(c \o d) = Len(c) + Len(d)
  <1>1. PICK S, T : c \in Seq(S) /\ d \in Seq(T)
    BY DEF IsSeq
  <1>2. c \in Seq(S \cup T) /\ d \in Seq(S \cup T)
    BY <1>1
  <1> QED
    BY <1>1, <1>2 DEF IsSeq

LEMMA OverwrittenSeq ==
    ASSUME NEW c, IsSeq(c), NEW p, NEW y
    PROVE  LET e == Overwritten(c, p, y)
           IN  /\ IsSeq(e) /\ Len(e) = Len(c)
               /\ \A k \in 1 .. Len(c) : e[k] = IF k \in p + 1 .. p + Len(y) THEN y[k - p] ELSE c[k]
  <1> DEFINE cell(k) == IF k \in p + 1 .. p + Len(y) THEN y[k - p] ELSE c[k]
             T == {cell(k) : k \in 1 .. Len(c)}
             e == [k \in 1 .. Len(c) |-> cell(k)]
  <1>1. Len(c) \in Nat /\ DOMAIN c = 1 .. Len(c)
    BY SeqFacts
  <1>2. Overwritten(c, p, y) = e
    BY <1>1 DEF Overwritten
  <1>3. e \in Seq(T) /\ Len(e) = Len(c)
    <2>1. \A k \in 1 .. Len(c) : cell(k) \in T
      OBVIOUS
    <2> HIDE DEF cell, T
    <2>2. e \in [1 .. Len(c) -> T]
      BY <2>1
    <2> HIDE DEF e
    <2> QED
      BY <1>1, <2>2
  <1> QED
    BY <1>2, <1>3 DEF IsSeq

LEMMA ChangedSeq ==
    ASSUME NEW c, IsSeq(c), NEW k, NEW x
    PROVE  LET e == [c EXCEPT ![k] = x]
           IN  IsSeq(e) /\ Len(e) = Len(c)
  <1> DEFINE e == [c EXCEPT ![k] = x]
  <1>1. PICK S : c \in Seq(S)
    BY DEF IsSeq
  <1>2. Len(c) \in Nat /\ c \in [1 .. Len(c) -> S]
    BY <1>1
  <1>3. e \in [1 .. Len(c) -> S \cup {x}]
    BY <1>2
  <1>4. e \in Seq(S \cup {x}) /\ Len(e) = Len(c)
    <2> HIDE DEF e
    <2> QED
      BY <1>2, <1>3
  <1> QED
    BY <1>4 DEF IsSeq

LEMMA ShortSeqs ==
    ASSUME NEW x, NEW y
    PROVE  /\ IsSeq(<<>>) /\ Len(<<>>) = 0
           /\ IsSeq(<<x>>) /\ Len(<<x>>) = 1
           /\ IsSeq(<<x, y>>) /\ Len(<<x, y>>) = 2
  <1>1. <<>> \in Seq({x}) /\ <<x>> \in Seq({x}) /\ <<x, y>> \in Seq({x, y})
    OBVIOUS
  <1> QED
    BY <1>1 DEF IsSeq

LEMMA AlignmentExists ==
    ASSUME NEW m \in Nat, NEW a \in Nat \ {0}
    PROVE  \E k \in 0 .. a - 1 : (m + k) % a = 0
  <1> DEFINE r == m % a
             q == m \div a
             k == IF r = 0 THEN 0 ELSE a - r
  <1>1. r \in 0 .. a - 1 /\ q \in Int /\ m = a * q + r
    OBVIOUS
  <1>2. k \in 0 .. a - 1
    BY <1>1
  <1>3. m + k = a * q \/ m + k = a * (q + 1)
    BY <1>1
  <1>4. \A x \in Int : (a * x) % a = 0
    OBVIOUS
  <1>5. q + 1 \in Int
    BY <1>1
  <1> HIDE DEF q, k, r
  <1>6. (m + k) % a = 0
    BY <1>1, <1>3, <1>4, <1>5
  <1> QED
    BY <1>2, <1>6

LEMMA PlainSeq ==
    ASSUME NEW item, NEW n \in Int, n >= -1
    PROVE  IsSeq(Plain(item, n)) /\ Len(Plain(item, n)) = IF n >= 0 THEN n ELSE 0
  <1> DEFINE S == {Cell(item, "code", 0, FALSE)}
  <1>1. CASE n >= 0
    <2>1. Plain(item, n) \in [1 .. n -> S]
      BY DEF Plain
    <2>2. n \in Nat
      BY <1>1
    <2>3. Plain(item, n) \in Seq(S) /\ Len(Plain(item, n)) = n
      <3> HIDE DEF S
      <3> QED
        BY <2>1, <2>2
    <2> QED
      BY <1>1, <2>3 DEF IsSeq
  <1>2. CASE n < 0
    <2>1. Plain(item, n) \in [1 .. 0 -> S]
      BY <1>2 DEF Plain
    <2>2. Plain(item, n) \in Seq(S) /\ Len(Plain(item, n)) = 0
      BY <2>1
    <2> QED
      BY <1>2, <2>2 DEF IsSeq
  <1> QED
    BY <1>1, <1>2

LEMMA FillSeq ==
    ASSUME Buffer(buf), NEW a \in Nat \ {0}
    PROVE  IsSeq(Fill(a)) /\ Len(Fill(a)) \in 0 .. a - 1
  <1> DEFINE missing == CHOOSE k \in 0 .. a - 1 : (Ip + k) % a = 0
  <1>1. Ip \in Nat
    BY SeqFacts DEF Buffer, Ip
  <1>2. missing \in 0 .. a - 1
    BY <1>1, AlignmentExists
  <1>3. Fill(a) = Plain(0, missing)
    BY DEF Fill
  <1> HIDE DEF missing
  <1>4. missing \in Int /\ missing >= 0 /\ missing >= -1
    BY <1>2
  <1>5. IsSeq(Plain(0, missing)) /\ Len(Plain(0, missing)) = missing
    BY <1>4, PlainSeq
  <1> QED
    BY <1>2, <1>3, <1>5

(* Only where the operation is, and what is noted of it, is written to it. *)
Notes ==
    /\ ops' \in [Ids -> Op]
    /\ \A k \in Ids : /\ ops'[k].kind = ops[k].kind /\ ops'[k].item = ops[k].item
                      /\ ops'[k].n = ops[k].n /\ ops'[k].arg = ops[k].arg
                      /\ ops'[k].jmp_addr = ops[k].jmp_addr /\ ops'[k].in_use = ops[k].in_use
                      /\ ops'[k].turned = ops[k].turned

SetsPos(o, x) == ops' = [ops EXCEPT ![o].pos = x]
SetsFixed(o, x) == ops' = [ops EXCEPT ![o].fixed = x]
SetsLoop(o, x) == ops' = [ops EXCEPT ![o].loop_addr = x]

LEMMA NoteOf ==
    ASSUME ops \in [Ids -> Op], NEW o, NEW x \in Int,
           SetsPos(o, x) \/ SetsFixed(o, x) \/ SetsLoop(o, x) \/ UNCHANGED ops
    PROVE  Notes
  <1>1. ASSUME NEW k \in Ids
        PROVE  /\ ops'[k] \in Op
               /\ ops'[k].kind = ops[k].kind /\ ops'[k].item = ops[k].item
               /\ ops'[k].n = ops[k].n /\ ops'[k].arg = ops[k].arg
               /\ ops'[k].jmp_addr = ops[k].jmp_addr /\ ops'[k].in_use = ops[k].in_use
               /\ ops'[k].turned = ops[k].turned
    <2>1. ops[k] \in Op
      OBVIOUS
    <2>2. \/ ops'[k] = ops[k]
          \/ ops'[k] = [ops[k] EXCEPT !.pos = x]
          \/ ops'[k] = [ops[k] EXCEPT !.fixed = x]
          \/ ops'[k] = [ops[k] EXCEPT !.loop_addr = x]
      BY DEF SetsPos, SetsFixed, SetsLoop
    <2> QED
      BY <2>1, <2>2 DEF Op
  <1>2. ops' = [k \in Ids |-> ops'[k]]
    BY DEF SetsPos, SetsFixed, SetsLoop
  <1> QED
    BY <1>1, <1>2 DEF Notes

(* What is written takes no more than room.                                *)
Wrote(room) ==
    /\ Buffer(buf')
    /\ buf'.capacity = buf.capacity
    /\ Len(buf'.cells) <= Len(buf.cells) + room

LEMMA WriteStep ==
    ASSUME Buffer(buf), NEW cells, IsSeq(cells), NEW room \in Int, Len(cells) <= room, Write(cells)
    PROVE  Wrote(room)
  <1>1. buf' = [buf EXCEPT !.cells = buf.cells \o cells]
    BY DEF Write
  <1>2. IsSeq(buf.cells) /\ Len(buf.cells) \in Nat /\ Len(cells) \in Nat
    BY SeqFacts DEF Buffer
  <1>3. IsSeq(buf.cells \o cells) /\ Len(buf.cells \o cells) = Len(buf.cells) + Len(cells)
    BY <1>2, ConcatSeq
  <1>4. /\ buf'.base = buf.base /\ buf'.capacity = buf.capacity /\ buf'.cells = buf.cells \o cells
        /\ buf' = [base |-> buf'.base, capacity |-> buf'.capacity, cells |-> buf'.cells]
    BY <1>1 DEF Buffer
  <1> QED
    BY <1>2, <1>3, <1>4 DEF Buffer, Wrote

LEMMA NothingWritten ==
    ASSUME Buffer(buf), UNCHANGED buf, NEW room \in Nat
    PROVE  Wrote(room)
  BY SeqFacts DEF Wrote, Buffer

LEMMA EmitOpStep ==
    ASSUME ops \in [Ids -> Op], Buffer(buf), NEW o \in Ids, EmitOp(o)
    PROVE  Notes /\ Wrote(Room(ops[o].kind, ops[o].n))
  <1> DEFINE kind == ops[o].kind
             n == ops[o].n
             item == ops[o].item
             size == Len(buf.cells)
  <1>0. kind \in OpKinds /\ n \in Nat \ {0} /\ size \in Nat /\ buf.base \in Nat /\ Ip \in Int
    <2>1. ops[o] \in Op
      OBVIOUS
    <2> QED
      BY <2>1, SeqFacts DEF Op, Buffer, Ip
  <1>1. CASE kind = "PROLOG" /\ EmitProlog(o)
    <2> DEFINE fill == Fill(PrologAlign)
               code == Plain(item, n)
    <2>1. IsSeq(fill) /\ Len(fill) \in Nat /\ Len(fill) <= PrologAlign - 1 /\ PrologAlign \in Nat
      <3>1. IsSeq(fill) /\ Len(fill) \in 0 .. PrologAlign - 1
        BY FillSeq, SizesAssumption
      <3> QED
        BY <3>1, SizesAssumption
    <2>2. IsSeq(code) /\ Len(code) = n
      <3>1. n \in Int /\ n >= -1 /\ n >= 0
        BY <1>0
      <3> QED
        BY <3>1, PlainSeq
    <2>3. Write(fill \o code) /\ SetsPos(o, size + Len(fill))
      BY <1>1 DEF EmitProlog, SetsPos
    <2>4. size + Len(fill) \in Int
      BY <1>0, <2>1
    <2> HIDE DEF fill, code
    <2>5. Notes
      BY <2>3, <2>4, NoteOf
    <2>6. IsSeq(fill \o code) /\ Len(fill \o code) <= n + PrologAlign - 1 /\ n + PrologAlign - 1 \in Int
      <3>1. IsSeq(fill \o code) /\ Len(fill \o code) = Len(fill) + Len(code)
        BY <2>1, <2>2, ConcatSeq
      <3> QED
        BY <1>0, <2>1, <2>2, <3>1
    <2>7. Wrote(n + PrologAlign - 1)
      BY <2>3, <2>6, WriteStep
    <2> QED
      BY <1>1, <2>5, <2>7 DEF Room
  <1>2. CASE kind \in {"JMP", "BRANCH", "CALL"} /\ EmitJump(o)
    <2> DEFINE code == Plain(item, n - 2)
               most == IF n >= 2 THEN n ELSE 2
    <2>1. PICK x, y : Jump(o) = code \o <<x, y>>
      BY DEF Jump
    <2>2. IsSeq(code) /\ Len(code) = IF n - 2 >= 0 THEN n - 2 ELSE 0
      <3>1. n - 2 \in Int /\ n - 2 >= -1
        BY <1>0
      <3> QED
        BY <3>1, PlainSeq
    <2>3. Write(Jump(o)) /\ SetsPos(o, PatchAddr(o)) /\ PatchAddr(o) \in Int
      BY <1>0, <1>2 DEF EmitJump, SetsPos, PatchAddr
    <2>4. Notes
      BY <2>3, NoteOf
    <2> HIDE DEF code
    <2>5. IsSeq(Jump(o)) /\ Len(Jump(o)) <= most /\ most \in Int
      <3>1. IsSeq(<<x, y>>) /\ Len(<<x, y>>) = 2
        BY ShortSeqs
      <3>2. IsSeq(code \o <<x, y>>) /\ Len(code \o <<x, y>>) = Len(code) + Len(<<x, y>>)
        BY <2>2, <3>1, ConcatSeq
      <3> QED
        BY <1>0, <2>1, <2>2, <3>1, <3>2
    <2> HIDE DEF most
    <2>6. Wrote(most)
      BY <2>3, <2>5, WriteStep
    <2> QED
      BY <1>2, <2>4, <2>6 DEF Room, most
  <1>3. CASE kind = "LABEL" /\ EmitLabel(o)
    <2>1. SetsPos(o, size) /\ size \in Int /\ UNCHANGED buf
      BY <1>0, <1>3 DEF EmitLabel, SetsPos
    <2>2. Notes
      BY <2>1, NoteOf
    <2> QED
      BY <1>3, <2>1, <2>2, NothingWritten DEF Room
  <1>4. CASE kind = "PATCH" /\ EmitPatch(o)
    <2> DEFINE t == ops[o].arg
               k == ops[t].pos + 2
    <2>1. CASE UNCHANGED <<ops, buf>>
      <3>1. Notes
        BY <2>1, NoteOf
      <3> QED
        BY <1>4, <2>1, <3>1, NothingWritten DEF Room
    <2>2. CASE SetsFixed(t, size) /\ UNCHANGED buf
      <3>1. Notes
        BY <1>0, <2>2, NoteOf
      <3> QED
        BY <1>4, <2>2, <3>1, NothingWritten DEF Room
    <2>3. CASE UNCHANGED ops /\ buf' = [buf EXCEPT !.cells = Patched(@, ops[t].pos, Len(@))]
      <3>1. PICK x : Patched(buf.cells, ops[t].pos, size) = [buf.cells EXCEPT ![k] = x]
        BY DEF Patched
      <3> HIDE DEF k
      <3> DEFINE e == [buf.cells EXCEPT ![k] = x]
      <3>2. IsSeq(e) /\ Len(e) = size
        BY ChangedSeq DEF Buffer
      <3>3. buf' = [buf EXCEPT !.cells = e]
        BY <2>3, <3>1
      <3> HIDE DEF e
      <3>4. /\ buf'.base = buf.base /\ buf'.capacity = buf.capacity /\ buf'.cells = e
            /\ buf' = [base |-> buf'.base, capacity |-> buf'.capacity, cells |-> buf'.cells]
        BY <3>3 DEF Buffer
      <3>5. Wrote(0)
        BY <1>0, <3>2, <3>4 DEF Wrote, Buffer
      <3>6. Notes
        BY <2>3, NoteOf
      <3> QED
        BY <1>4, <3>5, <3>6 DEF Room
    <2> QED
      BY <1>4, <2>1, <2>2, <2>3 DEF EmitPatch, EmitNothing, SetsFixed
  <1>5. CASE kind \in Refs \cup DataRefs /\ EmitRef(o)
    <2> DEFINE code == Plain(item, n - 1)
    <2>1. PICK x : Write(code \o <<x>>) /\ SetsPos(o, size)
      BY <1>5 DEF EmitRef, RefCells, SetsPos
    <2>2. IsSeq(code) /\ Len(code) = n - 1
      <3>1. n - 1 \in Int /\ n - 1 >= -1 /\ n - 1 >= 0
        BY <1>0
      <3> QED
        BY <3>1, PlainSeq
    <2> HIDE DEF code
    <2>3. IsSeq(code \o <<x>>) /\ Len(code \o <<x>>) <= n /\ n \in Int
      <3>1. IsSeq(<<x>>) /\ Len(<<x>>) = 1
        BY ShortSeqs
      <3>2. IsSeq(code \o <<x>>) /\ Len(code \o <<x>>) = Len(code) + Len(<<x>>)
        BY <2>2, <3>1, ConcatSeq
      <3> QED
        BY <1>0, <2>2, <3>1, <3>2
    <2>4. Notes
      BY <1>0, <2>1, NoteOf
    <2>5. Wrote(n)
      BY <2>1, <2>3, WriteStep
    <2> QED
      BY <1>5, <2>4, <2>5 DEF Room, Refs, DataRefs
  <1>6. CASE kind = "TRANSFER" /\ EmitTransfer(o)
    <2> DEFINE code == Plain(item, n)
    <2>1. Write(code) /\ SetsLoop(o, Ip + n - 1)
      BY <1>6 DEF EmitTransfer, SetsLoop
    <2>2. IsSeq(code) /\ Len(code) <= n /\ n \in Int /\ Ip + n - 1 \in Int
      <3>1. n \in Int /\ n >= -1 /\ n >= 0
        BY <1>0
      <3> QED
        BY <1>0, <3>1, PlainSeq
    <2> HIDE DEF code
    <2>3. Notes
      BY <2>1, <2>2, NoteOf
    <2>4. Wrote(n)
      BY <2>1, <2>2, WriteStep
    <2> QED
      BY <1>6, <2>3, <2>4 DEF Room
  <1>7. CASE kind = "TRANSFER_CPY" /\ EmitTransferLoop(o)
    <2> DEFINE code == Plain(item, n - 1)
    <2>1. PICK x : Write(code \o <<x>>) /\ UNCHANGED ops
      BY <1>7 DEF EmitTransferLoop
    <2>2. IsSeq(code) /\ Len(code) = n - 1
      <3>1. n - 1 \in Int /\ n - 1 >= -1 /\ n - 1 >= 0
        BY <1>0
      <3> QED
        BY <3>1, PlainSeq
    <2> HIDE DEF code
    <2>3. IsSeq(code \o <<x>>) /\ Len(code \o <<x>>) <= n /\ n \in Int
      <3>1. IsSeq(<<x>>) /\ Len(<<x>>) = 1
        BY ShortSeqs
      <3>2. IsSeq(code \o <<x>>) /\ Len(code \o <<x>>) = Len(code) + Len(<<x>>)
        BY <2>2, <3>1, ConcatSeq
      <3> QED
        BY <1>0, <2>2, <3>1, <3>2
    <2>4. Notes
      BY <2>1, NoteOf
    <2>5. Wrote(n)
      BY <2>1, <2>3, WriteStep
    <2> QED
      BY <1>7, <2>4, <2>5 DEF Room
  <1>8. CASE kind = "CODE_ALIGN" /\ EmitPlain(Fill(n))
    <2>1. Write(Fill(n)) /\ UNCHANGED ops
      BY <1>8 DEF EmitPlain
    <2>2. IsSeq(Fill(n)) /\ Len(Fill(n)) <= n - 1 /\ n - 1 \in Int
      <3>1. IsSeq(Fill(n)) /\ Len(Fill(n)) \in 0 .. n - 1
        BY <1>0, FillSeq
      <3> QED
        BY <1>0, <3>1
    <2>3. Notes
      BY <2>1, NoteOf
    <2>4. Wrote(n - 1)
      BY <2>1, <2>2, WriteStep
    <2> QED
      BY <1>8, <2>3, <2>4 DEF Room
  <1>9. CASE kind \in {"OTHER", "RET", "DATA_BYTE", "DATA_BYTES", "FULL_SPILL"}
               /\ EmitPlain(Plain(item, n))
    <2>1. Write(Plain(item, n)) /\ UNCHANGED ops
      BY <1>9 DEF EmitPlain
    <2>2. IsSeq(Plain(item, n)) /\ Len(Plain(item, n)) <= n /\ n \in Int
      <3>1. n \in Int /\ n >= -1 /\ n >= 0
        BY <1>0
      <3> QED
        BY <3>1, PlainSeq
    <2>3. Notes
      BY <2>1, NoteOf
    <2>4. Wrote(n)
      BY <2>1, <2>2, WriteStep
    <2> QED
      BY <1>9, <2>3, <2>4 DEF Room
  <1>10. CASE kind = "CODESTART" /\ EmitNothing
    <2>1. UNCHANGED ops /\ UNCHANGED buf
      BY <1>10 DEF EmitNothing
    <2>2. Notes
      BY <2>1, NoteOf
    <2> QED
      BY <1>10, <2>1, <2>2, NothingWritten DEF Room
  <1> QED
    BY <1>1, <1>2, <1>3, <1>4, <1>5, <1>6, <1>7, <1>8, <1>9, <1>10 DEF EmitOp

LEMMA ExpandBuffer ==
    ASSUME Buffer(buf), Expand
    PROVE  /\ Buffer(buf') /\ buf'.cells = buf.cells
           /\ buf'.capacity = 2 * buf.capacity
  <1>1. PICK a \in Heap : buf' = [buf EXCEPT !.base = a, !.capacity = 2 * @]
    BY DEF Expand
  <1>2. a \in Nat /\ 2 * buf.capacity \in Nat
    BY AddressesAssumption DEF Buffer
  <1> QED
    BY <1>1, <1>2 DEF Buffer

LEMMA AddressStored ==
    ASSUME Buffer(buf), PatchLocalAddr
    PROVE  Buffer(buf') /\ buf'.capacity = buf.capacity /\ Len(buf'.cells) = Len(buf.cells)
  <1> DEFINE pa == ops[cur].pos
             code == RefCells(cur, AddressOf(cur))
             e == Overwritten(buf.cells, pa, code)
  <1>1. CASE UNCHANGED buf
    BY <1>1
  <1>2. CASE buf' = [buf EXCEPT !.cells = e]
    <2> HIDE DEF pa, code
    <2>1. IsSeq(e) /\ Len(e) = Len(buf.cells)
      BY OverwrittenSeq DEF Buffer
    <2> HIDE DEF e
    <2> QED
      BY <1>2, <2>1 DEF Buffer
  <1> QED
    BY <1>1, <1>2 DEF PatchLocalAddr

LEMMA ListInit ==
    ASSUME Init
    PROVE  ListInv /\ Buffer(buf)
  <1> DEFINE s == [j \in 1 .. 1 |-> CODESTART]
  <1>1. NewOp("CODESTART", 0, 0, 1) \in Op
    <2>1. "CODESTART" \in OpKinds /\ 0 \in Nat /\ 0 \in Ids \cup {0} /\ 1 \in Nat \ {0}
      BY DEF OpKinds
    <2> QED
      BY <2>1, NewOpTyped
  <1>2. ListTyped
    BY <1>1, StartFacts DEF Init, ListTyped, Passes
  <1>3. Path(s, 1, alive, next, prev)
    <2>1. next[CODESTART] = 0 /\ prev[CODESTART] = 0 /\ alive = {CODESTART}
      BY StartFacts DEF Init
    <2> QED
      BY <2>1, PathOfOne
  <1>4. ops[CODESTART].item = 0 /\ ops[CODESTART].kind = "CODESTART"
    BY StartFacts DEF Init, NewOp
  <1>5. Building(s, 1)
    <2>1. Len(source) \in Nat
      BY <1>2, ProgramFacts DEF ListTyped
    <2> QED
      BY <1>4, <2>1 DEF Building, Init
  <1>6. Shape(s, 1)
    BY <1>3, <1>5 DEF Shape, Init
  <1>7. Buffer(buf)
    BY ShortSeqs DEF Init, Buffer
  <1> QED
    BY <1>2, <1>4, <1>6, <1>7 DEF ListInv, Init

LEMMA FreeStep ==
    ASSUME ListInv, FreeAndInit
    PROVE  Init'
  <1>1. PICK n, s : Path(s, n, alive, next, prev)
    BY DEF ListInv, Shape
  <1>2. alive \subseteq Ids /\ next \in [Ids -> Ids \cup {0}] /\ source \in Programs
    BY DEF ListInv, ListTyped
  <1>3. From(First) = alive
    BY <1>1, <1>2, WalkGetsEverywhere, FirstIsStart
  <1>4. alive' = {CODESTART}
    BY <1>3 DEF FreeAndInit
  <1> QED
    BY <1>2, <1>4 DEF FreeAndInit, Init, Goto

ListIInv == ListInv /\ Buffer(buf)

LEMMA ListStep ==
    ASSUME ListIInv, [Next]_vars
    PROVE  ListIInv' \/ Init'
  <1>0. ListInv /\ Buffer(buf)
    BY DEF ListIInv
  <1>1. CASE AddOp
    BY <1>0, <1>1, AddOpStep DEF ListIInv, AddOp
  <1>2. CASE ExpandPatchesAndLabels
    BY <1>0, <1>2, ExpandStep DEF ListIInv, ExpandPatchesAndLabels
  <1>3. CASE PrepareSpill
    BY <1>0, <1>3, PrepareSpillStep DEF ListIInv, PrepareSpill
  <1>4. CASE NoSpill
    BY <1>0, <1>4, NoSpillStep DEF ListIInv, NoSpill
  <1>5. CASE MarkLiveCode
    BY <1>0, <1>5, MarkStep DEF ListIInv, MarkLiveCode
  <1>6. CASE DeleteOp
    BY <1>0, <1>6, DeleteStep DEF ListIInv, DeleteOp
  <1>7. CASE AdjustBranch
    BY <1>0, <1>7, AdjustStep DEF ListIInv, AdjustBranch
  <1>8. CASE FreeAndInit
    BY <1>0, <1>8, FreeStep
  <1>9. CASE KeepOp \/ Swept \/ LeaveBranch
    <2>1. /\ UNCHANGED <<source, next, prev, alive, last_op, ops, buf>>
          /\ pass' \in {"delete", "branches"}
          /\ pass' = "delete" => pass = "delete"
          /\ cur' \in alive \cup {0}
      <3>1. CASE KeepOp
        BY <1>0, <3>1, NextFacts DEF KeepOp, Goto, list
      <3>2. CASE Swept
        BY <1>0, <3>2, NextFacts DEF Swept, Goto, list
      <3>3. CASE LeaveBranch
        BY <1>0, <3>3, NextFacts DEF LeaveBranch, Goto, list
      <3> QED
        BY <1>9, <3>1, <3>2, <3>3
    <2>2. ops' \in [Ids -> Op] /\ (pass' = "delete" => ops'[CODESTART].in_use)
      BY <1>0, <2>1, NextFacts DEF ListInv
    <2> QED
      BY <1>0, <2>1, <2>2, LinksKept DEF Passes, ListIInv
  <1>10. CASE AllocateBuffer \/ CheckRoom \/ RoomForData
    <2>1. /\ UNCHANGED <<source, next, prev, alive, last_op, ops>>
          /\ pass' \in {"room", "emit"}
          /\ cur' \in alive \cup {0} /\ (pass' = "emit" => cur' # 0)
      <3>1. CASE AllocateBuffer
        BY <1>0, <3>1, NextFacts DEF AllocateBuffer, Goto, list
      <3>2. CASE CheckRoom
        BY <1>0, <3>2, NextFacts DEF CheckRoom, Goto, list
      <3>3. CASE RoomForData
        BY <1>0, <3>3, NextFacts DEF RoomForData, list, ListInv
      <3> QED
        BY <1>10, <3>1, <3>2, <3>3
    <2>2. Buffer(buf')
      <3>1. CASE AllocateBuffer
        <4>1. PICK a \in Heap : buf' = [base |-> a, capacity |-> BUF_SIZE, cells |-> <<>>]
          BY <3>1 DEF AllocateBuffer
        <4> QED
          BY <4>1, ShortSeqs, AddressesAssumption, SizesAssumption DEF Buffer
      <3>2. CASE CheckRoom
        BY <1>0, <3>2, ExpandBuffer DEF CheckRoom
      <3>3. CASE RoomForData
        BY <1>0, <3>3, ExpandBuffer DEF RoomForData
      <3> QED
        BY <1>10, <3>1, <3>2, <3>3
    <2>3. ops' \in [Ids -> Op]
      BY <1>0, <2>1, NextFacts
    <2> QED
      BY <1>0, <2>1, <2>2, <2>3, LinksKept DEF Passes, ListIInv
  <1>11. CASE Emit
    <2>1. /\ UNCHANGED <<source, next, prev, alive, last_op>>
          /\ pass' = "room" /\ cur' \in alive \cup {0} /\ cur \in Ids /\ EmitOp(cur)
      BY <1>0, <1>11, NextFacts DEF Emit, Goto, list, ListInv
    <2>2. Notes /\ Wrote(Room(ops[cur].kind, ops[cur].n))
      BY <1>0, <2>1, NextFacts, EmitOpStep
    <2>3. ops' \in [Ids -> Op] /\ Buffer(buf')
      BY <2>2 DEF Notes, Wrote
    <2> QED
      BY <1>0, <2>1, <2>3, LinksKept DEF Passes, ListIInv
  <1>12. CASE Move \/ PatchLocalAddr \/ AssignFunctions
    <2>1. /\ UNCHANGED <<source, next, prev, alive, last_op, ops>>
          /\ pass' \in {"addresses", "done"} /\ cur' \in alive \cup {0}
      <3>1. CASE Move
        BY <1>0, <3>1, NextFacts DEF Move, Goto, list
      <3>2. CASE PatchLocalAddr
        BY <1>0, <3>2, NextFacts DEF PatchLocalAddr, Goto, list
      <3>3. CASE AssignFunctions
        BY <1>0, <3>3, NextFacts DEF AssignFunctions, Goto, list
      <3> QED
        BY <1>12, <3>1, <3>2, <3>3
    <2>2. Buffer(buf')
      <3>1. CASE Move
        <4>1. PICK a \in Pages : buf' = [buf EXCEPT !.base = a]
          BY <3>1 DEF Move
        <4>2. a \in Nat
          BY AddressesAssumption
        <4> QED
          BY <1>0, <4>1, <4>2 DEF Buffer
      <3>2. CASE PatchLocalAddr
        BY <1>0, <3>2, AddressStored
      <3>3. CASE AssignFunctions
        BY <1>0, <3>3 DEF AssignFunctions
      <3> QED
        BY <1>12, <3>1, <3>2, <3>3
    <2>3. ops' \in [Ids -> Op]
      BY <1>0, <2>1, NextFacts
    <2> QED
      BY <1>0, <2>1, <2>2, <2>3, LinksKept DEF Passes, ListIInv
  <1>13. CASE UNCHANGED vars
    <2>0. /\ UNCHANGED <<source, pass, cur, ops, next, prev, alive, last_op>>
          /\ ListInv
      BY <1>0, <1>13 DEF vars
    <2>1. ASSUME NEW n, NEW s, Shape(s, n) PROVE Shape(s, n)'
      <3>1. Building(s, n) => Building(s, n)'
        BY <2>0 DEF Building, Pointed
      <3>2. Laid(s, n) => Laid(s, n)'
        BY <2>0 DEF Laid, Resolved, IsLabel
      <3> QED
        BY <2>0, <2>1, <3>1, <3>2 DEF Shape
    <2>2. ListInv'
      <3>1. ListTyped'
        BY <2>0 DEF ListInv, ListTyped
      <3> QED
        BY <2>0, <2>1, <3>1 DEF ListInv
    <2> QED
      BY <1>0, <1>13, <2>2 DEF ListIInv, vars
  <1> QED
    BY <1>1, <1>2, <1>3, <1>4, <1>5, <1>6, <1>7, <1>8, <1>9, <1>10, <1>11, <1>12, <1>13 DEF Next

(* The list is whole, in the order of the calls, and points where the      *)
(* program says, after every step: the invariant the others rest on.       *)
THEOREM ListIsInductive == Spec => []ListIInv
  <1>1. Init => ListIInv
    BY ListInit DEF ListIInv
  <1>2. ListIInv /\ [Next]_vars => ListIInv' \/ Init'
    BY ListStep
  <1> QED
    BY <1>1, <1>2, PTL DEF Spec

(* The state has its types: TypeOK.                                        *)
THEOREM TypeCorrect == Spec => []TypeOK
  <1>1. ListIInv => TypeOK
    <2> SUFFICES ASSUME ListIInv PROVE TypeOK
      OBVIOUS
    <2>1. ListTyped /\ buf.capacity \in Nat
      BY DEF ListIInv, ListInv, Buffer
    <2>2. \A o \in Ids : ops[o].jmp_addr \in Ids \cup {0} /\ ops[o].arg \in Ids \cup {0}
      BY <2>1 DEF ListTyped, Op
    <2> QED
      BY <2>1, <2>2 DEF ListTyped, TypeOK
  <1> QED
    BY <1>1, ListIsInductive, PTL

(* However operations are appended, prepended and deleted, the list has    *)
(* all operations there are, and leads back the way it leads forth:        *)
(* ListWhole.                                                              *)
THEOREM ListStaysWhole == Spec => []ListWhole
  <1>1. ListIInv => ListWhole
    <2> SUFFICES ASSUME ListIInv PROVE ListWhole
      OBVIOUS
    <2>1. PICK n, s : Shape(s, n)
      BY DEF ListIInv, ListInv
    <2>2. Path(s, n, alive, next, prev) /\ (pass = "build" => Building(s, n))
      BY <2>1 DEF Shape
    <2>3. alive \subseteq Ids /\ next \in [Ids -> Ids \cup {0}]
      BY DEF ListIInv, ListInv, ListTyped
    <2>4. alive = From(CODESTART)
      BY <2>2, <2>3, WalkGetsEverywhere
    <2>5. \A o \in alive : /\ prev[o] = 0 <=> o = CODESTART
                           /\ next[o] # 0 => prev[next[o]] = o
      BY <2>2, <2>3, PathFacts
    <2>6. pass = "build" => next[last_op] = 0
      BY <2>2 DEF Building, Path
    <2> QED
      BY <2>4, <2>5, <2>6 DEF ListWhole
  <1> QED
    BY <1>1, ListIsInductive, PTL

-----------------------------------------------------------------------------
(* There is always room for the next operation.                            *)

Small(o) == ops[o].kind # "DATA_BYTES" => Room(ops[o].kind, ops[o].n) <= MINIMAL_BUF_SPACE

RoomInv ==
    /\ \A o \in alive : Small(o)
    /\ Len(buf.cells) <= buf.capacity
    /\ pass \in {"room", "emit"} => buf.capacity >= BUF_SIZE
    /\ pass = "emit" => Free >= MINIMAL_BUF_SPACE

LEMMA SmallKept ==
    ASSUME \A p \in Programs : Fits(p), ListIInv, ListIInv', Next, \A o \in alive : Small(o),
           ~FreeAndInit
    PROVE  \A o \in alive' : Small(o)'
  <1>0. /\ ops \in [Ids -> Op] /\ alive \subseteq Ids /\ source \in Programs
        /\ MINIMAL_BUF_SPACE \in Nat /\ MINIMAL_BUF_SPACE >= 2
    BY SizesAssumption DEF ListIInv, ListInv, ListTyped
  <1>1. CASE AddOp
    <2>1. PICK new \in Ids \ alive :
            /\ ops' = [ops EXCEPT ![new] = NewOp(source[Added + 1].kind, Added + 1,
                                                ArgOf(Added + 1), source[Added + 1].n)]
            /\ alive' = alive \cup {new}
      BY <1>1 DEF AddOp, Obtainable
    <2>2. Added + 1 \in DOMAIN source
      <3>1. pass = "build" /\ Added < Len(source)
        BY <1>1 DEF AddOp
      <3>2. PICK n, s : Path(s, n, alive, next, prev) /\ Building(s, n)
        BY <3>1 DEF ListIInv, ListInv, Shape
      <3>3. Added = n - 1 /\ n \in Nat \ {0}
        BY <3>2, BuildingFacts DEF ListIInv, ListInv
      <3> QED
        BY <1>0, <3>1, <3>3, ProgramFacts
    <2> DEFINE i == Added + 1
    <2>3. source[i].kind # "DATA_BYTES" => Room(source[i].kind, source[i].n) <= MINIMAL_BUF_SPACE
      BY <1>0, <2>2 DEF Fits
    <2>4. /\ ops'[new].kind = source[i].kind /\ ops'[new].n = source[i].n
          /\ \A o \in alive : ops'[o] = ops[o]
      BY <1>0, <2>1 DEF NewOp
    <2> QED
      BY <2>1, <2>3, <2>4 DEF Small
  <1>2. CASE ExpandPatchesAndLabels \/ MarkLiveCode
    <2>1. /\ alive' = alive
          /\ \A o \in alive : ops'[o].kind = ops[o].kind /\ ops'[o].n = ops[o].n
      <3>1. CASE ExpandPatchesAndLabels
        <4> DEFINE Target(o) ==
              LET patches == {k \in alive : ops[k].kind = "PATCH" /\ ops[k].arg = o}
              IN IF o \in alive /\ ops[o].kind # "LABEL" /\ IsLabel(ops[o].arg) THEN ops[o].arg
                 ELSE IF patches # {} THEN CHOOSE k \in patches : TRUE
                 ELSE 0
        <4>1. ops' = [o \in Ids |-> [ops[o] EXCEPT !.jmp_addr = Target(o)]] /\ alive' = alive
          BY <3>1 DEF ExpandPatchesAndLabels, list
        <4> HIDE DEF Target
        <4> QED
          BY <1>0, <4>1 DEF Op
      <3>2. CASE MarkLiveCode
        <4>1. alive' = alive /\
              \/ UNCHANGED ops
              \/ ops' = [o \in Ids |->
                   IF o \in alive
                   THEN [ops[o] EXCEPT !.in_use = o \in Marked \/ ops[o].kind \in Directives]
                   ELSE ops[o]]
          BY <3>2 DEF MarkLiveCode, list
        <4> QED
          BY <1>0, <4>1 DEF Op
      <3> QED
        BY <1>2, <3>1, <3>2
    <2> QED
      BY <2>1 DEF Small
  <1>3. CASE PrepareSpill
    <2>1. PICK new \in Ids \ alive :
            /\ ops' = [ops EXCEPT ![new] = NewOp("FULL_SPILL", 0, 0, 1)]
            /\ alive' = alive \cup {new}
      BY <1>3 DEF PrepareSpill, Obtainable
    <2>2. /\ ops'[new].kind = "FULL_SPILL" /\ ops'[new].n = 1
          /\ \A o \in alive : ops'[o] = ops[o]
      BY <1>0, <2>1 DEF NewOp
    <2> QED
      BY <1>0, <2>1, <2>2 DEF Small, Room
  <1>4. CASE AdjustBranch
    <2>1. cur \in alive
      BY <1>4 DEF AdjustBranch, ListIInv, ListInv, ListTyped
    <2>2. PICK jump \in Ids \ alive, patch \in Ids \ alive :
            jump # patch /\ ops' = TurnedOps(cur, jump, patch) /\ alive' = alive \cup {jump, patch}
      BY <1>4 DEF AdjustBranch, Obtainable, Unused
    <2>3. \A o \in Ids :
            /\ ops'[o].kind = IF o = jump THEN "JMP" ELSE IF o = patch THEN "PATCH" ELSE ops[o].kind
            /\ ops'[o].n = IF o = jump THEN 2 ELSE IF o = patch THEN 1 ELSE ops[o].n
      BY <1>0, <2>1, <2>2, TurnedFacts
    <2>4. \A o \in alive : o \in Ids /\ o # jump /\ o # patch
      BY <1>0
    <2> QED
      BY <1>0, <2>2, <2>3, <2>4 DEF Small, Room
  <1>5. CASE Emit
    <2>1. cur \in Ids /\ EmitOp(cur) /\ alive' = alive
      BY <1>0, <1>5 DEF Emit, list, ListIInv, ListInv, ListTyped
    <2>2. Notes
      BY <1>0, <2>1, EmitOpStep DEF ListIInv
    <2> QED
      BY <1>0, <2>1, <2>2 DEF Small, Notes
  <1>6. CASE DeleteOp
    BY <1>6 DEF DeleteOp, Small
  <1>7. CASE NoSpill \/ KeepOp \/ Swept \/ LeaveBranch \/ AllocateBuffer \/ CheckRoom
               \/ RoomForData \/ Move \/ PatchLocalAddr \/ AssignFunctions
    <2>1. ops' = ops /\ alive' = alive
      BY <1>7 DEF NoSpill, KeepOp, Swept, LeaveBranch, AllocateBuffer, CheckRoom,
                  RoomForData, Move, PatchLocalAddr, AssignFunctions, list
    <2> QED
      BY <2>1 DEF Small
  <1> QED
    BY <1>1, <1>2, <1>3, <1>4, <1>5, <1>6, <1>7 DEF Next

LEMMA SizesKept ==
    ASSUME ListIInv, ListIInv', Next, RoomInv, ~FreeAndInit
    PROVE  /\ Len(buf'.cells) <= buf'.capacity
           /\ pass' \in {"room", "emit"} => buf'.capacity >= BUF_SIZE
           /\ pass' = "emit" => buf'.capacity - Len(buf'.cells) >= MINIMAL_BUF_SPACE
  <1>0. /\ Buffer(buf) /\ Buffer(buf') /\ cur \in alive \cup {0} /\ ops \in [Ids -> Op]
        /\ alive \subseteq Ids /\ (pass = "emit" => cur # 0)
        /\ BUF_SIZE \in Nat /\ MINIMAL_BUF_SPACE \in Nat /\ MINIMAL_BUF_SPACE <= BUF_SIZE
    BY SizesAssumption DEF ListIInv, ListInv, ListTyped
  <1>1. /\ Len(buf.cells) \in Nat /\ buf.capacity \in Nat /\ Len(buf.cells) <= buf.capacity
        /\ Len(buf'.cells) \in Nat /\ buf'.capacity \in Nat
    BY <1>0, SeqFacts DEF Buffer, RoomInv
  <1>2. CASE AllocateBuffer
    <2>1. buf'.capacity = BUF_SIZE /\ buf'.cells = <<>> /\ pass' = "room"
      BY <1>2 DEF AllocateBuffer, Goto
    <2> QED
      BY <1>0, <2>1
  <1>3. CASE CheckRoom
    <2>1. pass' = "emit" /\ buf.capacity >= BUF_SIZE
      BY <1>3 DEF CheckRoom, Goto, RoomInv
    <2>2. CASE Free < MINIMAL_BUF_SPACE
      <3>1. buf'.cells = buf.cells /\ buf'.capacity = 2 * buf.capacity
        BY <1>0, <1>3, <2>2, ExpandBuffer DEF CheckRoom
      <3> QED
        BY <1>0, <1>1, <2>1, <3>1
    <2>3. CASE ~(Free < MINIMAL_BUF_SPACE)
      <3>1. buf' = buf
        BY <1>3, <2>3 DEF CheckRoom
      <3> QED
        BY <1>0, <1>1, <2>1, <2>3, <3>1 DEF Free
    <2> QED
      BY <2>2, <2>3
  <1>4. CASE RoomForData
    <2>1. /\ pass' = "emit" /\ buf.capacity >= BUF_SIZE
          /\ buf.capacity - Len(buf.cells) >= MINIMAL_BUF_SPACE
      BY <1>4 DEF RoomForData, RoomInv, Free
    <2>2. buf'.cells = buf.cells /\ buf'.capacity = 2 * buf.capacity
      BY <1>0, <1>4, ExpandBuffer DEF RoomForData
    <2> QED
      BY <1>0, <1>1, <2>1, <2>2
  <1>5. CASE Emit
    <2>0. pass = "emit" /\ pass' = "room" /\ EmitOp(cur) /\ ~NeedsRoom
      BY <1>5 DEF Emit, Goto
    <2>1. /\ pass' = "room"
          /\ buf.capacity >= BUF_SIZE /\ buf.capacity - Len(buf.cells) >= MINIMAL_BUF_SPACE
      BY <2>0 DEF RoomInv, Free
    <2>5. cur \in alive /\ cur \in Ids /\ ops[cur] \in Op
      BY <1>0, <2>0
    <2>6. ops[cur].n \in Nat
      BY <2>5 DEF Op
    <2>2. /\ buf'.capacity = buf.capacity
          /\ Len(buf'.cells) <= Len(buf.cells) + Room(ops[cur].kind, ops[cur].n)
      BY <1>0, <2>0, <2>5, EmitOpStep DEF Wrote
    <2>3. CASE ops[cur].kind = "DATA_BYTES"
      <3>1. Room(ops[cur].kind, ops[cur].n) = ops[cur].n
        BY <2>3 DEF Room
      <3>2. ops[cur].n \in Nat /\ buf.capacity - Len(buf.cells) >= ops[cur].n
        BY <1>1, <2>0, <2>3, <2>6 DEF NeedsRoom, Free
      <3> QED
        BY <1>1, <2>1, <2>2, <3>1, <3>2
    <2>4. CASE ops[cur].kind # "DATA_BYTES"
      <3>1. Room(ops[cur].kind, ops[cur].n) <= MINIMAL_BUF_SPACE
        BY <2>4, <2>5 DEF RoomInv, Small
      <3>2. Room(ops[cur].kind, ops[cur].n) \in Int
        <4>1. ops[cur].n \in Nat /\ PrologAlign \in Nat
          BY <2>6, SizesAssumption
        <4> QED
          BY <4>1 DEF Room
      <3> QED
        BY <1>0, <1>1, <2>1, <2>2, <3>1, <3>2
    <2> QED
      BY <2>3, <2>4
  <1>6. CASE Move
    <2>1. buf'.capacity = buf.capacity /\ buf'.cells = buf.cells /\ pass' = "addresses"
      BY <1>0, <1>6 DEF Move, Goto, Buffer
    <2> QED
      BY <1>1, <2>1
  <1>7. CASE PatchLocalAddr
    <2>1. buf'.capacity = buf.capacity /\ Len(buf'.cells) = Len(buf.cells) /\ pass' = "addresses"
      BY <1>0, <1>7, AddressStored DEF PatchLocalAddr, Goto
    <2> QED
      BY <1>1, <2>1
  <1>8. CASE AddOp \/ ExpandPatchesAndLabels \/ PrepareSpill \/ NoSpill \/ MarkLiveCode \/ DeleteOp
               \/ KeepOp \/ Swept \/ AdjustBranch \/ LeaveBranch \/ AssignFunctions
    <2>1. buf' = buf /\ pass' \in {"build", "spills", "delete", "branches", "done"}
      BY <1>8 DEF AddOp, ExpandPatchesAndLabels, PrepareSpill, NoSpill, MarkLiveCode, DeleteOp,
                  KeepOp, Swept, AdjustBranch, LeaveBranch, AssignFunctions, Goto
    <2> QED
      BY <1>1, <2>1
  <1> QED
    BY <1>2, <1>3, <1>4, <1>5, <1>6, <1>7, <1>8 DEF Next

LEMMA RoomInit ==
    ASSUME Init
    PROVE  RoomInv
  <1>1. \A o \in alive : ops[o].kind = "CODESTART"
    BY StartFacts DEF Init, NewOp
  <1>2. \A o \in alive : Small(o)
    BY <1>1, SizesAssumption DEF Small, Room
  <1>3. Len(buf.cells) = 0 /\ buf.capacity = 0 /\ pass = "build"
    BY DEF Init
  <1> QED
    BY <1>2, <1>3 DEF RoomInv

(* Nothing is written past the end of the buffer, whatever its size and    *)
(* wherever realloc and mmap put it: InBuffer, for programs none of whose  *)
(* operations but blocks of bytes take more than the room that is looked   *)
(* for.                                                                    *)
THEOREM StaysInBuffer ==
    ASSUME \A p \in Programs : Fits(p)
    PROVE  Spec => []InBuffer
  <1>1. Init => RoomInv
    BY RoomInit
  <1>2. ListIInv /\ ListIInv' /\ RoomInv /\ [Next]_vars => RoomInv' \/ Init'
    <2> SUFFICES ASSUME ListIInv, ListIInv', RoomInv, [Next]_vars PROVE RoomInv' \/ Init'
      OBVIOUS
    <2>1. CASE FreeAndInit
      BY <2>1, FreeStep DEF ListIInv
    <2>2. CASE Next /\ ~FreeAndInit
      <3>1. \A o \in alive' : Small(o)'
        BY <2>2, SmallKept DEF RoomInv
      <3>2. /\ Len(buf'.cells) <= buf'.capacity
            /\ pass' \in {"room", "emit"} => buf'.capacity >= BUF_SIZE
            /\ pass' = "emit" => buf'.capacity - Len(buf'.cells) >= MINIMAL_BUF_SPACE
        BY <2>2, SizesKept
      <3> QED
        BY <3>1, <3>2 DEF RoomInv, Free
    <2>3. CASE UNCHANGED vars
      BY <2>3 DEF vars, RoomInv, Small, Free
    <2> QED
      BY <2>1, <2>2, <2>3
  <1>3. RoomInv => InBuffer
    BY DEF RoomInv, InBuffer
  <1> QED
    BY <1>1, <1>2, <1>3, ListIsInductive, PTL DEF Spec

-----------------------------------------------------------------------------
(* What the marking of live code reaches.                                  *)

(* M is closed under what the marking follows.                             *)
Closed(M) ==
    /\ M \subseteq Ids
    /\ \A o \in alive : ops[o].kind = "PROLOG" => o \in M
    /\ \A o \in alive : ops[o].kind = "DATA_REF_CODE" => ops[o].jmp_addr \in M
    /\ \A o \in M : ops[o].kind \notin {"RET", "JMP"} /\ next[o] # 0 => next[o] \in M
    /\ \A o \in M : ops[o].jmp_addr # 0 => ops[o].jmp_addr \in M

LEMMA MarkedIsClosed ==
    ASSUME ListTyped, \A o \in alive : ops[o].kind = "DATA_REF_CODE" => ops[o].jmp_addr # 0
    PROVE  Closed(Marked)
  <1> DEFINE N == Cardinality(Ids)
             T == SUBSET Ids
             Roots == {o \in alive : ops[o].kind = "PROLOG"}
                        \cup {ops[o].jmp_addr : o \in {k \in alive : ops[k].kind = "DATA_REF_CODE"}}
             Onward(S) == {next[o] : o \in {k \in S : ops[k].kind \notin {"RET", "JMP"}}}
                            \cup {ops[o].jmp_addr : o \in S}
             Defined(w) == w = [k \in 0 .. N |->
                 IF k = 0 THEN Roots ELSE w[k - 1] \cup (Onward(w[k - 1]) \ {0})]
             marks == CHOOSE w : Defined(w)
             step == [S \in T |-> S \cup (Onward(S) \ {0})]
  <1>0. /\ alive \subseteq Ids /\ next \in [Ids -> Ids \cup {0}]
        /\ \A o \in Ids : ops[o].jmp_addr \in Ids \cup {0}
    BY DEF ListTyped, Op
  <1>1. N \in Nat /\ IsFiniteSet(Ids)
    BY IdsAssumption, FS_CardinalityType
  <1>2. Roots \in T
    BY <1>0
  <1>3. \A S \in T : Onward(S) \ {0} \in T
    BY <1>0
  <1> HIDE DEF Roots, Onward
  <1>4. step \in [T -> T] /\ \A S \in T : step[S] = S \cup (Onward(S) \ {0})
    BY <1>3
  <1>5. PICK w \in [0 .. N -> T] : IsWalk(w, N, Roots, step)
    <2> HIDE DEF step, T, N
    <2> QED
      BY <1>1, <1>2, <1>4, WalkExists
  <1>6. \E v : Defined(v)
    <2>1. ASSUME NEW k \in 0 .. N
          PROVE  (IF k = 0 THEN Roots ELSE step[w[k - 1]]) =
                 (IF k = 0 THEN Roots ELSE w[k - 1] \cup (Onward(w[k - 1]) \ {0}))
      BY <1>1, <1>4
    <2>2. Defined(w)
      BY <1>5, <2>1, Zenon DEF IsWalk
    <2> HIDE DEF Defined
    <2> QED
      BY <2>2
  <1>7. Defined(marks)
    <2> HIDE DEF Defined
    <2> QED
      BY <1>6
  <1>8. Marked = marks[N]
    BY DEF Marked, Roots, Onward
  <1> HIDE DEF marks
  <1>9. marks[0] = Roots
    BY <1>1, <1>7
  <1>10. ASSUME NEW k \in 1 .. N PROVE marks[k] = marks[k - 1] \cup (Onward(marks[k - 1]) \ {0})
    <2>1. k \in 0 .. N /\ k # 0
      BY <1>1
    <2> QED
      BY <1>7, <2>1, Zenon
  <1> DEFINE S == {k \in 0 .. N : marks[k] \in T /\ Roots \subseteq marks[k]}
  <1>11. \A k \in 0 .. N : marks[k] \in T /\ Roots \subseteq marks[k]
    <2>1. 0 \in S
      BY <1>1, <1>2, <1>9
    <2>2. ASSUME NEW k \in 0 .. N - 1, k \in S PROVE k + 1 \in S
      <3>1. marks[k + 1] = marks[k] \cup (Onward(marks[k]) \ {0})
        BY <1>1, <1>10
      <3> QED
        BY <1>1, <1>3, <2>2, <3>1
    <2>3. 0 .. N \subseteq S
      <3> HIDE DEF S, N
      <3> QED
        BY <1>1, <2>1, <2>2, InductionTo
    <2> QED
      BY <2>3
  <1> DEFINE C == [k \in 0 .. N + 1 |-> IF k = 0 THEN Roots ELSE
                                        marks[k - 1] \cup (Onward(marks[k - 1]) \ {0})]
  <1>a. \A k \in 0 .. N + 1 :
            C[k] = IF k = 0 THEN Roots ELSE marks[k - 1] \cup (Onward(marks[k - 1]) \ {0})
    BY Zenon
  <1> HIDE DEF C, N
  <1>12. ASSUME NEW k \in 0 .. N PROVE C[k] = marks[k]
    <2>1. k \in 0 .. N + 1
      BY <1>1
    <2>2. CASE k = 0
      BY <1>a, <1>9, <2>1, <2>2
    <2>3. CASE k # 0
      <3>1. k \in 1 .. N
        BY <1>1, <2>3
      <3> QED
        BY <1>a, <1>10, <2>1, <2>3, <3>1
    <2> QED
      BY <2>2, <2>3
  <1>13. ASSUME NEW k \in 0 .. N PROVE C[k + 1] = C[k] \cup (Onward(C[k]) \ {0})
    <2>1. k + 1 \in 0 .. N + 1 /\ k + 1 # 0 /\ (k + 1) - 1 = k
      BY <1>1
    <2>2. C[k + 1] = marks[k] \cup (Onward(marks[k]) \ {0})
      BY <1>a, <2>1
    <2> QED
      BY <1>12, <2>2
  <1>14. \A k \in 0 .. N + 1 : C[k] \subseteq Ids
    <2>1. ASSUME NEW k \in 0 .. N + 1 PROVE C[k] \subseteq Ids
      <3>1. CASE k = N + 1
        <4>1. N \in 0 .. N /\ N + 1 # 0 /\ (N + 1) - 1 = N
          BY <1>1
        <4>2. C[k] = marks[N] \cup (Onward(marks[N]) \ {0})
          BY <1>a, <3>1, <4>1
        <4>3. marks[N] \in T /\ Onward(marks[N]) \ {0} \in T
          BY <1>3, <1>11, <4>1
        <4> QED
          BY <4>2, <4>3
      <3>2. CASE k # N + 1
        BY <1>1, <1>11, <1>12, <3>2
      <3> QED
        BY <3>1, <3>2
    <2> QED
      BY <2>1
  <1>15. C[N] = C[N + 1]
    <2>1. \A k \in 0 .. N : C[k] \subseteq C[k + 1]
      BY <1>13
    <2>2. \A k \in 0 .. N - 1 : C[k] = C[k + 1] => C[k + 1] = C[k + 2]
      <3>1. ASSUME NEW k \in 0 .. N - 1, C[k] = C[k + 1] PROVE C[k + 1] = C[k + 2]
        <4>1. k \in 0 .. N /\ k + 1 \in 0 .. N /\ (k + 1) + 1 = k + 2
          BY <1>1
        <4>2. C[k + 1] = C[k] \cup (Onward(C[k]) \ {0})
          BY <1>13, <4>1
        <4>3. C[k + 2] = C[k + 1] \cup (Onward(C[k + 1]) \ {0})
          BY <1>13, <4>1
        <4> QED
          BY <3>1, <4>2, <4>3
      <3> QED
        BY <3>1
    <2>3. Cardinality(Ids) <= N
      BY <1>1 DEF N
    <2> QED
      BY <1>1, <1>14, <2>1, <2>2, <2>3, ChainSettles
  <1>16. Marked \subseteq Ids /\ Roots \subseteq Marked /\ Onward(Marked) \ {0} \subseteq Marked
    <2>1. N \in 0 .. N
      BY <1>1
    <2>2. marks[N] = marks[N] \cup (Onward(marks[N]) \ {0})
      BY <1>12, <1>13, <1>15, <2>1
    <2> QED
      BY <1>8, <1>11, <2>1, <2>2
  <1> QED
    BY <1>16 DEF Closed, Roots, Onward

LEMMA FirstFromFacts ==
    ASSUME source \in Programs, NEW i \in Nat
    PROVE  LET m == FirstFrom(source, i)
           IN /\ m \in Sized(source) => m \in DOMAIN source /\ m >= i
              /\ \A k \in Sized(source) : k >= i => m <= k
  <1> DEFINE last == Len(source) + 1
             ahead == {m \in Sized(source) : m >= i}
             Good(k) == \A m \in Sized(source) : m >= i => k <= m
  <1>1. last \in Nat /\ \A m \in Sized(source) : m \in DOMAIN source /\ m \in Nat /\ m < last
    BY ProgramFacts DEF Sized
  <1>2. \E k \in ahead \cup {last} : Good(k)
    <2>1. CASE ahead = {}
      BY <1>1, <2>1
    <2>2. CASE ahead # {}
      <3>1. ahead \subseteq Nat
        BY <1>1
      <3>2. PICK k \in ahead : \A m \in ahead : k <= m
        <4> HIDE DEF ahead
        <4> QED
          BY <2>2, <3>1, LeastElement
      <3> QED
        BY <3>2
    <2> QED
      BY <2>1, <2>2
  <1> DEFINE m == FirstFrom(source, i)
  <1>3. m \in ahead \cup {last} /\ Good(m)
    <2>1. m = CHOOSE k \in ahead \cup {last} : Good(k)
      BY DEF FirstFrom
    <2> HIDE DEF m, ahead, Good, last
    <2> QED
      BY <1>2, <2>1
  <1> HIDE DEF m
  <1>4. m \in Sized(source) => m \in DOMAIN source /\ m >= i
    BY <1>1, <1>3
  <1> QED
    BY <1>3, <1>4 DEF m

(* The operations of the list before position j come from calls before i,  *)
(* the others from later calls or from none.                               *)
Splits(s, n, j, i) ==
    \A k \in 1 .. n : IF k < j THEN ops[s[k]].item < i
                      ELSE ops[s[k]].item = 0 \/ ops[s[k]].item >= i

(* Marked from there on, the first operation that takes room is marked.    *)
LEMMA MarksLead ==
    ASSUME ListTyped, NEW n, NEW s, Path(s, n, alive, next, prev), Laid(s, n),
           NEW M, Closed(M), NEW j \in 2 .. n, s[j] \in M,
           NEW i \in Nat \ {0}, Splits(s, n, j, i),
           FirstFrom(source, i) \in Sized(source),
           NEW o \in alive, ops[o].item = FirstFrom(source, i)
    PROVE  o \in M
  <1> DEFINE m == FirstFrom(source, i)
  <1>0. /\ n \in Nat /\ source \in Programs /\ DOMAIN source = 1 .. Len(source)
        /\ Len(source) \in Nat
        /\ \A k \in 1 .. n : s[k] \in alive /\ s[k] \in Ids /\ s[k] # 0 /\ ops[s[k]].item \in Nat
    <2>1. source \in Programs /\ n \in Nat
      BY DEF ListTyped, Path
    <2>2. ASSUME NEW k \in 1 .. n
          PROVE  s[k] \in alive /\ s[k] \in Ids /\ s[k] # 0 /\ ops[s[k]].item \in Nat
      <3>1. s[k] \in alive /\ alive \subseteq Ids
        BY DEF Path, ListTyped
      <3>2. ops[s[k]] \in Op
        BY <3>1 DEF ListTyped
      <3> QED
        BY <3>1, <3>2, StartFacts DEF Op
    <2> QED
      BY <2>1, <2>2, ProgramFacts
  <1>1. /\ m \in DOMAIN source /\ m \in Nat /\ m >= i
        /\ \A k \in Sized(source) : k >= i => m <= k
    <2>1. m \in DOMAIN source /\ m >= i /\ \A k \in Sized(source) : k >= i => m <= k
      BY <1>0, FirstFromFacts
    <2> QED
      BY <1>0, <2>1
  <1> HIDE DEF m
  <1>2. ops[o].item = m
    BY DEF m
  <1>3. PICK q \in 1 .. n : o = s[q]
    BY DEF Path
  <1>4. q >= j
    BY <1>0, <1>1, <1>2, <1>3 DEF Splits
  <1> DEFINE S == {d \in 0 .. q - j : s[j + d] \in M}
  <1>5. 0 \in S
    BY <1>0, <1>4
  <1>6. ASSUME NEW d \in 0 .. q - j - 1, d \in S PROVE d + 1 \in S
    <2> DEFINE k == j + d
    <2>1. k \in 2 .. n /\ k < q /\ k + 1 = j + (d + 1) /\ k >= j /\ k \in 1 .. n - 1
      BY <1>0, <1>4
    <2>2. s[k] \in M
      BY <1>6
    <2> HIDE DEF k
    <2>3. next[s[k]] = s[k + 1] /\ s[k + 1] # 0
      <3>1. k + 1 \in 1 .. n
        BY <1>0, <2>1
      <3> QED
        BY <1>0, <2>1, <3>1 DEF Path
    <2>4. ops[s[k]].kind \notin {"RET", "JMP"}
      <3>1. CASE ops[s[k]].item = 0
        BY <2>1, <3>1 DEF Laid
      <3>2. CASE ops[s[k]].item # 0
        <4> DEFINE x == ops[s[k]].item
        <4>1. Resolved(s[k])
          BY <2>1, <3>2 DEF Laid
        <4>2. x \in DOMAIN source /\ source[x].kind = ops[s[k]].kind
          BY <4>1 DEF Resolved
        <4>3. x < m
          <5>1. k \in 1 .. n /\ m # 0
            BY <1>0, <1>1, <2>1
          <5> QED
            BY <1>2, <1>3, <2>1, <5>1 DEF Laid
        <4>4. x >= i
          BY <2>1, <3>2 DEF Splits
        <4>5. x \notin Sized(source)
          BY <1>0, <1>1, <4>2, <4>3, <4>4
        <4> QED
          BY <4>2, <4>5 DEF Sized
      <3> QED
        BY <3>1, <3>2
    <2>5. s[k + 1] \in M
      BY <2>2, <2>3, <2>4 DEF Closed
    <2> QED
      BY <1>0, <1>4, <2>1, <2>5
  <1>7. q - j \in Nat
    BY <1>0, <1>4
  <1>8. q - j \in S
    <2> HIDE DEF S
    <2>1. 0 .. q - j \subseteq S
      BY <1>5, <1>6, <1>7, InductionTo
    <2> QED
      BY <1>7, <2>1
  <1> QED
    BY <1>0, <1>3, <1>4, <1>8

(* Where the operation of a call is, the list splits.                      *)
LEMMA LaidSplits ==
    ASSUME ListTyped, NEW n, NEW s, Path(s, n, alive, next, prev), Laid(s, n),
           NEW j \in 1 .. n, ops[s[j]].item # 0
    PROVE  /\ j \in 2 .. n /\ ops[s[j]].item \in Nat \ {0}
           /\ Splits(s, n, j, ops[s[j]].item)
           /\ Splits(s, n, j + 1, ops[s[j]].item + 1)
  <1> DEFINE x == ops[s[j]].item
  <1>0. n \in Nat /\ \A k \in 1 .. n : ops[s[k]].item \in Nat
    <2>1. ASSUME NEW k \in 1 .. n PROVE ops[s[k]].item \in Nat
      <3>1. s[k] \in alive /\ alive \subseteq Ids
        BY DEF Path, ListTyped
      <3>2. ops[s[k]] \in Op
        BY <3>1 DEF ListTyped
      <3> QED
        BY <3>2 DEF Op
    <2> QED
      BY <2>1 DEF Path
  <1>1. j # 1
    BY DEF Laid, Path
  <1>2. \A k \in 1 .. n : /\ k < j => ops[s[k]].item < x
                          /\ j < k /\ ops[s[k]].item # 0 => x < ops[s[k]].item
    BY DEF Laid
  <1>3. Splits(s, n, j, x)
    BY <1>0, <1>2 DEF Splits
  <1>4. Splits(s, n, j + 1, x + 1)
    BY <1>0, <1>2 DEF Splits
  <1> QED
    BY <1>0, <1>1, <1>3, <1>4

(* What is marked leads on to what follows and to what is named.           *)
LEMMA MarksGoOn ==
    ASSUME ListTyped, ops[CODESTART].kind = "CODESTART",
           NEW n, NEW s, Path(s, n, alive, next, prev), Laid(s, n),
           NEW M, Closed(M), NEW x \in alive, ops[x].item # 0, NEW o \in alive
    PROVE  /\ x \in M /\ FallsThrough(source, ops[x].item)
                /\ ops[o].item = FirstFrom(source, ops[x].item + 1) => o \in M
           /\ source[ops[x].item].kind \in Refers
                /\ (x \in M \/ source[ops[x].item].kind = "DATA_REF_CODE")
                /\ FirstFrom(source, source[ops[x].item].to) \in Sized(source)
                /\ ops[o].item = FirstFrom(source, source[ops[x].item].to) => o \in M
  <1> DEFINE i == ops[x].item
  <1>0. source \in Programs /\ alive \subseteq Ids /\ n \in Nat
    BY DEF ListTyped, Path
  <1>1. PICK j \in 1 .. n : x = s[j]
    BY DEF Path
  <1>2. /\ j \in 2 .. n /\ i \in Nat \ {0} /\ Splits(s, n, j + 1, i + 1)
    BY <1>1, LaidSplits
  <1>3. Resolved(x)
    BY <1>1, <1>2 DEF Laid
  <1>4. i \in DOMAIN source /\ ops[x].kind = source[i].kind
    BY <1>3 DEF Resolved
  <1>5. ASSUME x \in M, FallsThrough(source, i), ops[o].item = FirstFrom(source, i + 1)
        PROVE  o \in M
    <2>1. FirstFrom(source, i + 1) \in Sized(source) /\ ops[x].kind \notin {"RET", "JMP"}
      BY <1>4, <1>5 DEF FallsThrough
    <2>2. i + 1 \in Nat \ {0}
      BY <1>2
    <2>3. ops[o].item # 0 /\ ops[o].item >= i + 1 /\ ops[o].item \in Nat
      BY <1>0, <1>5, <2>1, <2>2, FirstFromFacts, ProgramFacts
    <2>4. PICK q \in 1 .. n : o = s[q]
      BY DEF Path
    <2>5. j < n
      <3>1. ~(q < j + 1)
        BY <1>1, <1>2, <2>3, <2>4 DEF Splits
      <3> QED
        BY <1>0, <3>1
    <2>6. j + 1 \in 2 .. n /\ j \in 1 .. n - 1
      BY <1>0, <1>2, <2>5
    <2>7. s[j + 1] \in M
      <3>1. next[x] = s[j + 1] /\ s[j + 1] \in alive
        BY <1>1, <2>6 DEF Path
      <3>2. s[j + 1] # 0
        BY <1>0, <3>1, StartFacts
      <3> QED
        BY <1>5, <2>1, <3>1, <3>2 DEF Closed
    <2> QED
      BY <1>2, <1>5, <2>1, <2>2, <2>6, <2>7, MarksLead
  <1>6. ASSUME source[i].kind \in Refers, x \in M \/ source[i].kind = "DATA_REF_CODE",
               FirstFrom(source, source[i].to) \in Sized(source),
               ops[o].item = FirstFrom(source, source[i].to)
        PROVE  o \in M
    <2> DEFINE t == ops[x].jmp_addr
    <2>1. t \in alive /\ ops[t].item = source[i].to
      BY <1>3, <1>4, <1>6 DEF Resolved
    <2>2. source[i].to # 0 /\ t # 0
      <3>1. \E k \in 1 .. n - 1 : t = s[k + 1]
        BY <1>4, <1>6, SpillTarget
      <3>2. source[i].to # 0
        <4>1. i \in 1 .. Len(source) /\ Len(source) \in Nat
          BY <1>0, <1>4, ProgramFacts
        <4>2. source[i].to \in 1 .. i - 1 \/ source[i].to \in i + 1 .. Len(source)
          BY <1>0, <1>4, <1>6, ProgramFacts
        <4> QED
          BY <4>1, <4>2
      <3> QED
        BY <1>0, <2>1, <3>2, StartFacts
    <2>3. t \in M
      BY <1>4, <1>6, <2>2 DEF Closed
    <2>4. PICK q \in 1 .. n : t = s[q]
      BY <2>1 DEF Path
    <2>5. q \in 2 .. n /\ source[i].to \in Nat \ {0} /\ Splits(s, n, q, source[i].to)
      BY <2>1, <2>2, <2>4, LaidSplits
    <2> HIDE DEF t
    <2> QED
      BY <1>6, <2>3, <2>4, <2>5, MarksLead
  <1> QED
    BY <1>5, <1>6

(* The operations of what is reached are marked.                           *)
LEMMA ReachedIsMarked ==
    ASSUME ListTyped, ops[CODESTART].kind = "CODESTART",
           NEW n, NEW s, Path(s, n, alive, next, prev), Laid(s, n), NEW M, Closed(M),
           NEW o \in alive, ops[o].item \in Reached(source)
    PROVE  o \in M
  <1> DEFINE N == Len(source)
             T == SUBSET DOMAIN source
             Roots == {i \in DOMAIN source : source[i].kind = "PROLOG"}
                        \cup {FirstFrom(source, source[i].to) :
                                i \in {k \in DOMAIN source : source[k].kind = "DATA_REF_CODE"}}
             Onward(S) == {FirstFrom(source, i + 1) : i \in {k \in S : FallsThrough(source, k)}}
                            \cup {FirstFrom(source, source[i].to) :
                                    i \in {k \in S : source[k].kind \in Refers}}
             Defined(w) == w = [k \in 0 .. N |->
                 IF k = 0 THEN Roots \cap Sized(source)
                 ELSE w[k - 1] \cup (Onward(w[k - 1]) \cap Sized(source))]
             steps == CHOOSE w : Defined(w)
             step == [S \in T |-> S \cup (Onward(S) \cap Sized(source))]
             Done(S) == \A x \in alive : ops[x].item \in S => x \in M
  <1>0. source \in Programs /\ N \in Nat /\ DOMAIN source = 1 .. N /\ Sized(source) \subseteq DOMAIN source
    BY ProgramFacts DEF ListTyped, Sized
  <1>1. Roots \cap Sized(source) \in T
    BY <1>0
  <1>2. Done(Roots \cap Sized(source))
    <2> SUFFICES ASSUME NEW x \in alive, ops[x].item \in Roots, ops[x].item \in Sized(source)
                 PROVE  x \in M
      OBVIOUS
    <2>1. \A z \in alive : ops[z].item # 0 => Resolved(z) /\ ops[z].kind = source[ops[z].item].kind
      <3>1. ASSUME NEW z \in alive, ops[z].item # 0 PROVE Resolved(z)
        <4>1. PICK j \in 1 .. n : z = s[j]
          BY DEF Path
        <4>2. j \in 2 .. n
          BY <3>1, <4>1, LaidSplits
        <4> QED
          BY <3>1, <4>1, <4>2 DEF Laid
      <3> QED
        BY <3>1 DEF Resolved
    <2>2. CASE ops[x].item \in DOMAIN source /\ source[ops[x].item].kind = "PROLOG"
      <3>1. ops[x].item # 0
        BY <1>0, <2>2
      <3> QED
        BY <2>1, <2>2, <3>1 DEF Closed
    <2>3. CASE \E i \in DOMAIN source : /\ source[i].kind = "DATA_REF_CODE"
                                        /\ ops[x].item = FirstFrom(source, source[i].to)
      <3>1. PICK i \in DOMAIN source : /\ source[i].kind = "DATA_REF_CODE"
                                       /\ ops[x].item = FirstFrom(source, source[i].to)
        BY <2>3
      <3>2. PICK j \in 1 .. n : ops[s[j]].item = i
        BY DEF Laid
      <3>3. s[j] \in alive /\ i # 0
        BY <1>0 DEF Path
      <3> QED
        BY <3>1, <3>2, <3>3, MarksGoOn DEF Refers
    <2> QED
      BY <2>2, <2>3
  <1>3. ASSUME NEW S \in T, Done(S)
        PROVE  /\ S \cup (Onward(S) \cap Sized(source)) \in T
               /\ Done(S \cup (Onward(S) \cap Sized(source)))
    <2>1. ASSUME NEW x \in alive, ops[x].item \in Onward(S), ops[x].item \in Sized(source)
          PROVE  x \in M
      <3>1. ASSUME NEW i \in S PROVE \E z \in alive : ops[z].item = i /\ i # 0 /\ z \in M
        <4>1. i \in DOMAIN source /\ i # 0
          BY <1>0
        <4>2. PICK j \in 1 .. n : ops[s[j]].item = i
          BY <4>1 DEF Laid
        <4>3. s[j] \in alive
          BY DEF Path
        <4> QED
          BY <1>3, <4>1, <4>2, <4>3
      <3>2. CASE \E i \in S : FallsThrough(source, i) /\ ops[x].item = FirstFrom(source, i + 1)
        BY <3>1, <3>2, MarksGoOn
      <3>3. CASE \E i \in S : source[i].kind \in Refers /\ ops[x].item = FirstFrom(source, source[i].to)
        BY <2>1, <3>1, <3>3, MarksGoOn
      <3> QED
        BY <2>1, <3>2, <3>3
    <2>2. S \cup (Onward(S) \cap Sized(source)) \in T
      BY <1>0
    <2> HIDE DEF Onward
    <2> QED
      BY <1>3, <2>1, <2>2
  <1> HIDE DEF Roots, Onward, T
  <1>4. \A S \in T : S \cup (Onward(S) \cap Sized(source)) \in T
    BY <1>0 DEF T, Onward
  <1>5. step \in [T -> T] /\ \A S \in T : step[S] = S \cup (Onward(S) \cap Sized(source))
    BY <1>4
  <1>6. PICK w \in [0 .. N -> T] : IsWalk(w, N, Roots \cap Sized(source), step)
    <2> HIDE DEF step, N
    <2> QED
      BY <1>0, <1>1, <1>5, WalkExists
  <1>7. \E v : Defined(v)
    <2>1. ASSUME NEW k \in 0 .. N
          PROVE  (IF k = 0 THEN Roots \cap Sized(source) ELSE step[w[k - 1]]) =
                 (IF k = 0 THEN Roots \cap Sized(source)
                  ELSE w[k - 1] \cup (Onward(w[k - 1]) \cap Sized(source)))
      BY <1>0, <1>5
    <2>2. Defined(w)
      BY <1>6, <2>1, Zenon DEF IsWalk
    <2> HIDE DEF Defined
    <2> QED
      BY <2>2
  <1>8. Defined(steps)
    <2> HIDE DEF Defined
    <2> QED
      BY <1>7
  <1>9. Reached(source) = steps[N]
    BY DEF Reached, Roots, Onward
  <1> HIDE DEF steps, N, Done
  <1>10. steps[0] = Roots \cap Sized(source)
    BY <1>0, <1>8
  <1>11. ASSUME NEW k \in 1 .. N
         PROVE  steps[k] = steps[k - 1] \cup (Onward(steps[k - 1]) \cap Sized(source))
    <2>1. k \in 0 .. N /\ k # 0
      BY <1>0
    <2> QED
      BY <1>8, <2>1, Zenon
  <1> DEFINE S == {k \in 0 .. N : steps[k] \in T /\ Done(steps[k])}
  <1>12. 0 \in S
    <2>1. 0 \in 0 .. N
      BY <1>0
    <2>2. steps[0] \in T /\ Done(steps[0])
      BY <1>1, <1>2, <1>10, Zenon
    <2> QED
      BY <2>1, <2>2
  <1>13. ASSUME NEW k \in 0 .. N - 1, k \in S PROVE k + 1 \in S
    <2>1. steps[k + 1] = steps[k] \cup (Onward(steps[k]) \cap Sized(source))
      BY <1>0, <1>11
    <2>2. steps[k] \in T /\ Done(steps[k])
      BY <1>13
    <2>3. steps[k + 1] \in T /\ Done(steps[k + 1])
      BY <1>3, <2>1, <2>2, Zenon
    <2>4. k + 1 \in 0 .. N
      BY <1>0
    <2> QED
      BY <2>3, <2>4
  <1>14. N \in S
    <2> HIDE DEF S
    <2>1. 0 .. N \subseteq S
      BY <1>0, <1>12, <1>13, InductionTo
    <2> QED
      BY <1>0, <2>1
  <1> QED
    BY <1>9, <1>14 DEF Done

-----------------------------------------------------------------------------
(* Patching.                                                               *)

(* What a PATCH names is there, and is to lead to it.                      *)
Named(q) == ops[q].arg \in alive /\ ops[ops[q].arg].jmp_addr = q

(* Where a branch leads is there; a label it has is where it leads.        *)
Leads(b) ==
    /\ ops[b].jmp_addr \in alive
    /\ IsLabel(ops[b].arg) => ops[b].arg = ops[b].jmp_addr

PatchInv ==
    /\ pass \in {"delete", "branches", "room", "emit"} =>
         \A q \in alive : ops[q].kind = "PATCH" => Named(q)
    /\ pass \in {"delete", "branches"} =>
         \A b \in alive : ops[b].kind = "BRANCH" => Leads(b)
    /\ pass = "delete" =>
         \A o \in alive : /\ ops[o].kind = "PATCH" => ops[ops[o].arg].in_use
                          /\ ops[o].kind = "BRANCH" => ops[ops[o].jmp_addr].in_use

(* Before operations are deleted, the program says where each one leads.   *)
LEMMA LaidLeads ==
    ASSUME ListTyped, ops[CODESTART].kind = "CODESTART",
           NEW n, NEW s, Path(s, n, alive, next, prev), Laid(s, n), NEW o \in alive
    PROVE  /\ ops[o].kind = "PATCH" =>
                /\ Named(o)
                /\ ops[ops[o].arg].item \in DOMAIN source
                /\ source[ops[ops[o].arg].item].to > ops[ops[o].arg].item
           /\ ops[o].kind \in Refers =>
                Leads(o) /\ ops[ops[o].jmp_addr].kind \in {"LABEL", "PATCH"}
  <1>0. source \in Programs /\ alive \subseteq Ids
    BY DEF ListTyped
  <1>1. ASSUME NEW z \in alive, ops[z].item # 0 PROVE Resolved(z)
    <2>1. PICK j \in 1 .. n : z = s[j]
      BY DEF Path
    <2>2. j \in 2 .. n
      BY <1>1, <2>1, LaidSplits
    <2> QED
      BY <1>1, <2>1, <2>2 DEF Laid
  <1>2. ASSUME NEW y \in alive, NEW z \in alive, ops[y].item = ops[z].item, ops[z].item # 0
        PROVE  y = z
    <2>1. PICK j \in 1 .. n, k \in 1 .. n : y = s[j] /\ z = s[k]
      BY DEF Path
    <2>2. ops[z].item \in Nat /\ n \in Nat
      <3>1. ops[z] \in Op
        BY <1>0 DEF ListTyped
      <3> QED
        BY <3>1 DEF Op, Path
    <2>3. ~(j < k) /\ ~(k < j)
      BY <1>2, <2>1, <2>2 DEF Laid
    <2> QED
      BY <2>1, <2>2, <2>3
  <1>3. ASSUME ops[o].kind \in Refers
        PROVE  Leads(o) /\ ops[ops[o].jmp_addr].kind \in {"LABEL", "PATCH"}
    <2>1. ops[o].item \in DOMAIN source /\ Resolved(o)
      BY <1>3, LaidResolved DEF Refers
    <2> DEFINE i == ops[o].item
               t == ops[o].jmp_addr
    <2>2. t \in alive /\ ops[t].item = source[i].to /\ Leads(o) /\ source[i].kind \in Refers
      BY <1>3, <2>1 DEF Resolved, Leads
    <2>3. source[i].to # 0 /\ source[i].to \in DOMAIN source
          /\ source[source[i].to].kind \in {"LABEL", "PATCH"}
      <3>1. i \in 1 .. Len(source) /\ Len(source) \in Nat /\ DOMAIN source = 1 .. Len(source)
        BY <1>0, <2>1, ProgramFacts
      <3>2. \/ source[i].to \in 1 .. i - 1 /\ source[source[i].to].kind = "LABEL"
            \/ source[i].to \in i + 1 .. Len(source) /\ source[source[i].to].kind = "PATCH"
        BY <1>0, <2>1, <2>2, ProgramFacts
      <3> QED
        BY <3>1, <3>2
    <2>4. ops[t].kind = source[source[i].to].kind
      BY <1>1, <2>2, <2>3 DEF Resolved
    <2> QED
      BY <2>2, <2>3, <2>4
  <1>4. ASSUME ops[o].kind = "PATCH"
        PROVE  /\ Named(o)
               /\ ops[ops[o].arg].item \in DOMAIN source
               /\ source[ops[ops[o].arg].item].to > ops[ops[o].arg].item
    <2>1. ops[o].item \in DOMAIN source /\ Resolved(o)
      BY <1>4, LaidResolved
    <2> DEFINE i == ops[o].item
               x == ops[o].arg
               k == ops[x].item
    <2>2. x \in alive /\ k \in DOMAIN source /\ source[k].to = i /\ source[i].kind = "PATCH"
      BY <1>4, <2>1 DEF Resolved
    <2> HIDE DEF x
    <2>3. DOMAIN source = 1 .. Len(source) /\ Len(source) \in Nat
      BY <1>0, ProgramFacts
    <2>4. source[k].kind \in Refers /\ source[k].to > k
      <3>1. source[k].kind \in Refers
        <4>1. source[k].to # 0
          BY <2>1, <2>2, <2>3
        <4>2. source[k].kind \in Refers \cup {"TRANSFER_CPY"}
          BY <1>0, <2>2, <4>1, ProgramFacts
        <4>3. source[k].kind # "TRANSFER_CPY"
          BY <1>0, <2>2, ProgramFacts
        <4> QED
          BY <4>2, <4>3
      <3>2. \/ source[k].to \in 1 .. k - 1 /\ source[source[k].to].kind = "LABEL"
            \/ source[k].to \in k + 1 .. Len(source) /\ source[source[k].to].kind = "PATCH"
        BY <1>0, <2>2, <3>1, ProgramFacts
      <3> QED
        BY <2>2, <2>3, <3>1, <3>2
    <2>5. ops[x].kind = source[k].kind /\ ops[x].jmp_addr \in alive
          /\ ops[ops[x].jmp_addr].item = i
      <3>1. k # 0
        BY <2>2, <2>3
      <3>2. Resolved(x)
        BY <1>1, <2>2, <3>1
      <3> QED
        BY <2>2, <2>4, <3>2 DEF Resolved
    <2>6. i # 0
      BY <2>1, <2>3
    <2>7. ops[x].jmp_addr = o
      BY <1>2, <2>5, <2>6
    <2> QED
      BY <2>2, <2>4, <2>7 DEF x, Named
  <1> QED
    BY <1>3, <1>4

LEMMA MarkPatches ==
    ASSUME \A p \in Programs : PatchedIsReached(p), ListIInv, MarkLiveCode
    PROVE  PatchInv'
  <1>0. /\ ListTyped /\ pass = "spills" /\ ops[CODESTART].kind = "CODESTART"
        /\ alive' = alive /\ source \in Programs /\ alive \subseteq Ids /\ ops \in [Ids -> Op]
    BY DEF ListIInv, ListInv, MarkLiveCode, list, ListTyped
  <1>1. PICK n, s : Path(s, n, alive, next, prev) /\ Laid(s, n)
    BY <1>0 DEF ListIInv, ListInv, Shape
  <1>2. \A o \in alive :
          /\ ops[o].kind = "PATCH" =>
                /\ Named(o)
                /\ ops[ops[o].arg].item \in DOMAIN source
                /\ source[ops[ops[o].arg].item].to > ops[ops[o].arg].item
          /\ ops[o].kind \in Refers =>
                Leads(o) /\ ops[ops[o].jmp_addr].kind \in {"LABEL", "PATCH"}
    BY <1>0, <1>1, LaidLeads
  <1>3. CASE Goto("branches", First) /\ UNCHANGED ops
    BY <1>0, <1>2, <1>3 DEF Goto, PatchInv, Named, Leads, IsLabel, Refers
  <1>4. CASE Goto("delete", First) /\
             ops' = [o \in Ids |->
               IF o \in alive
               THEN [ops[o] EXCEPT !.in_use = o \in Marked \/ ops[o].kind \in Directives]
               ELSE ops[o]]
    <2>1. \A o \in Ids :
            /\ ops'[o].kind = ops[o].kind /\ ops'[o].arg = ops[o].arg
            /\ ops'[o].jmp_addr = ops[o].jmp_addr
            /\ o \in alive => ops'[o].in_use = (o \in Marked \/ ops[o].kind \in Directives)
      BY <1>0, <1>4 DEF Op
    <2>2. Closed(Marked)
      <3>1. ASSUME NEW o \in alive, ops[o].kind = "DATA_REF_CODE" PROVE ops[o].jmp_addr # 0
        <4>1. ops[o].jmp_addr \in alive
          BY <1>2, <3>1 DEF Refers, Leads
        <4> QED
          BY <1>0, <4>1, StartFacts
      <3> QED
        BY <1>0, <3>1, MarkedIsClosed
    <2>3. ASSUME NEW q \in alive, ops[q].kind = "PATCH" PROVE Named(q)' /\ ops'[ops'[q].arg].in_use
      <3>1. Named(q) /\ ops[ops[q].arg].item \in Reached(source)
        BY <1>0, <1>2, <2>3 DEF PatchedIsReached
      <3>2. ops[q].arg \in Marked
        BY <1>0, <1>1, <2>2, <3>1, ReachedIsMarked DEF Named
      <3> QED
        BY <1>0, <2>1, <3>1, <3>2 DEF Named
    <2>4. ASSUME NEW b \in alive, ops[b].kind = "BRANCH" PROVE Leads(b)' /\ ops'[ops'[b].jmp_addr].in_use
      <3>1. Leads(b) /\ ops[ops[b].jmp_addr].kind \in {"LABEL", "PATCH"}
        BY <1>2, <2>4 DEF Refers
      <3>2. ops[b].arg \in Ids \cup {0}
        <4>1. ops[b] \in Op
          BY <1>0
        <4> QED
          BY <4>1 DEF Op
      <3> QED
        BY <1>0, <2>1, <3>1, <3>2 DEF Leads, IsLabel, Directives
    <2>5. \A o \in alive : ops'[o].kind = ops[o].kind
      BY <1>0, <2>1
    <2> QED
      BY <1>0, <1>4, <2>3, <2>4, <2>5 DEF Goto, PatchInv
  <1> QED
    BY <1>3, <1>4 DEF MarkLiveCode

LEMMA DeletePatches ==
    ASSUME ListIInv, PatchInv, DeleteOp
    PROVE  PatchInv'
  <1>0. /\ pass = "delete" /\ pass' = "delete" /\ alive' = alive \ {cur} /\ ~ops[cur].in_use
        /\ ops' = ops
    BY DEF DeleteOp, Goto
  <1> QED
    BY <1>0 DEF PatchInv, Named, Leads, IsLabel

LEMMA AdjustPatches ==
    ASSUME ListIInv, PatchInv, AdjustBranch
    PROVE  PatchInv'
  <1>0. /\ ops \in [Ids -> Op] /\ alive \subseteq Ids /\ cur \in alive
        /\ pass = "branches" /\ pass' = "branches" /\ ops[cur].kind = "BRANCH"
    BY DEF ListIInv, ListInv, ListTyped, AdjustBranch, Goto
  <1>1. PICK jump \in Ids \ alive, patch \in Ids \ alive :
          jump # patch /\ ops' = TurnedOps(cur, jump, patch) /\ alive' = alive \cup {jump, patch}
    BY DEF AdjustBranch, Obtainable, Unused
  <1> DEFINE target == ops[cur].jmp_addr
             kept == IsLabel(ops[cur].arg)
  <1>2. \A o \in Ids :
          /\ ops'[o].kind = IF o = jump THEN "JMP" ELSE IF o = patch THEN "PATCH" ELSE ops[o].kind
          /\ ops'[o].arg = IF o = target /\ ~kept THEN jump
                           ELSE IF o = jump THEN ops[cur].arg
                           ELSE IF o = patch THEN cur
                           ELSE IF o = cur THEN patch ELSE ops[o].arg
          /\ ops'[o].jmp_addr = IF o = jump THEN target
                                ELSE IF o = patch THEN 0
                                ELSE IF o = cur THEN patch ELSE ops[o].jmp_addr
    BY <1>0, <1>1, TurnedFacts
  <1>3. Leads(cur) /\ target \in alive /\ (kept => target = ops[cur].arg /\ ops[target].kind = "LABEL")
    BY <1>0 DEF PatchInv, Leads, IsLabel
  <1>4. ASSUME NEW q \in alive', ops'[q].kind = "PATCH" PROVE Named(q)'
    <2>1. CASE q = patch
      BY <1>0, <1>1, <1>2, <1>3, <2>1 DEF Named
    <2>2. CASE q = target /\ ~kept
      BY <1>0, <1>1, <1>2, <1>3, <2>2 DEF Named
    <2>3. CASE q # patch /\ ~(q = target /\ ~kept)
      <3>1. q \in alive /\ ops[q].kind = "PATCH"
        BY <1>1, <1>2, <2>3, <1>4, <1>0
      <3>2. Named(q) /\ q # target
        BY <1>0, <1>3, <2>3, <3>1 DEF PatchInv
      <3>3. q # cur /\ ops[q].arg # cur
        BY <1>0, <3>1, <3>2 DEF Named
      <3> QED
        BY <1>0, <1>1, <1>2, <3>1, <3>2, <3>3 DEF Named
    <2> QED
      BY <2>1, <2>2, <2>3
  <1>5. ASSUME NEW b \in alive', ops'[b].kind = "BRANCH" PROVE Leads(b)'
    <2>1. b \in alive /\ b \in Ids /\ b # jump /\ b # patch /\ ops[b].kind = "BRANCH"
      BY <1>0, <1>1, <1>2, <1>5
    <2>2. ASSUME NEW o, IsLabel(o)', o \in Ids \cup {0} PROVE IsLabel(o) /\ o # jump /\ o # patch
      BY <1>2, <2>2 DEF IsLabel
    <2>3. Leads(b) /\ ops[b].arg \in Ids \cup {0}
      <3>1. ops[b] \in Op
        BY <1>0, <2>1
      <3> QED
        BY <1>0, <2>1, <3>1 DEF PatchInv, Op
    <2>4. ops'[b].jmp_addr \in alive'
      BY <1>1, <1>2, <2>1, <2>3 DEF Leads
    <2>5. ASSUME IsLabel(ops[b].arg)' PROVE ops'[b].arg = ops'[b].jmp_addr
      <3>1. ops'[b].arg \in Ids \cup {0}
        BY <1>1, <1>2, <2>1, <2>3
      <3>2. IsLabel(ops'[b].arg) /\ ops'[b].arg # jump /\ ops'[b].arg # patch
        BY <2>2, <2>5, <3>1 DEF IsLabel
      <3>3. b # cur /\ ops'[b].arg = ops[b].arg
        BY <1>2, <2>1, <3>2
      <3> QED
        BY <1>2, <2>1, <2>3, <3>2, <3>3 DEF Leads
    <2> QED
      BY <2>4, <2>5 DEF Leads
  <1> QED
    BY <1>0, <1>4, <1>5 DEF PatchInv

LEMMA PatchStep ==
    ASSUME \A p \in Programs : PatchedIsReached(p), ListIInv, PatchInv, [Next]_vars
    PROVE  PatchInv' \/ Init'
  <1>1. CASE FreeAndInit
    BY <1>1, FreeStep DEF ListIInv
  <1>2. CASE MarkLiveCode
    BY <1>2, MarkPatches
  <1>3. CASE DeleteOp
    BY <1>3, DeletePatches
  <1>4. CASE AdjustBranch
    BY <1>4, AdjustPatches
  <1>5. CASE AddOp \/ ExpandPatchesAndLabels \/ PrepareSpill \/ NoSpill
             \/ Move \/ PatchLocalAddr \/ AssignFunctions
    <2>1. pass' \in {"build", "spills", "addresses", "done"}
      BY <1>5 DEF AddOp, ExpandPatchesAndLabels, PrepareSpill, NoSpill, Move, PatchLocalAddr,
                  AssignFunctions, Goto
    <2> QED
      BY <2>1 DEF PatchInv
  <1>6. CASE KeepOp \/ Swept \/ LeaveBranch \/ AllocateBuffer \/ CheckRoom \/ RoomForData
    <2>1. /\ ops' = ops /\ alive' = alive
          /\ pass \in {"delete", "branches", "room", "emit"}
          /\ pass' \in {"delete", "branches"} => pass \in {"delete", "branches"}
          /\ pass' = "delete" => pass = "delete"
      BY <1>6 DEF KeepOp, Swept, LeaveBranch, AllocateBuffer, CheckRoom, RoomForData, Goto, list
    <2> QED
      BY <2>1 DEF PatchInv, Named, Leads, IsLabel
  <1>7. CASE Emit
    <2>1. /\ cur \in Ids /\ EmitOp(cur) /\ alive' = alive /\ pass = "emit" /\ pass' = "room"
          /\ ops \in [Ids -> Op] /\ alive \subseteq Ids
      BY <1>7 DEF Emit, list, Goto, ListIInv, ListInv, ListTyped
    <2>2. Notes
      BY <2>1, EmitOpStep DEF ListIInv
    <2> QED
      BY <2>1, <2>2 DEF PatchInv, Named, Notes
  <1>8. CASE UNCHANGED vars
    BY <1>8 DEF vars, PatchInv, Named, Leads, IsLabel
  <1> QED
    BY <1>1, <1>2, <1>3, <1>4, <1>5, <1>6, <1>7, <1>8 DEF Next

(* In whatever order malloc hands memory out again, a PATCH names an       *)
(* operation that was neither freed nor made another one, and that is to   *)
(* lead to it: PatchesItsOwn, for programs all of whose forward jumps are  *)
(* reached.                                                                *)
THEOREM PatchesAreTheirOwn ==
    ASSUME \A p \in Programs : PatchedIsReached(p)
    PROVE  Spec => []PatchesItsOwn
  <1>1. Init => PatchInv
    BY DEF Init, PatchInv
  <1>2. ListIInv /\ PatchInv /\ [Next]_vars => PatchInv' \/ Init'
    BY PatchStep
  <1>3. ListIInv /\ PatchInv => PatchesItsOwn
    BY DEF ListIInv, ListInv, ListTyped, PatchInv, PatchesItsOwn, Named
  <1> QED
    BY <1>1, <1>2, <1>3, ListIsInductive, PTL DEF Spec
=============================================================================
