------------------------ MODULE AllocatedCodeProofs ------------------------
(***************************************************************************)
(* What the register allocator guarantees, and the code it makes, for      *)
(* every function, every set of registers and every choice the scores may  *)
(* make.                                                                   *)
(*                                                                         *)
(* The first part is about the maps: a hardware register has one owner,    *)
(* and the operands of an operation stay where they were put.              *)
(*                                                                         *)
(* The inductive invariant adds to these two what the actions rely on:     *)
(* after a CALL the return registers are free when a RETVAL takes one      *)
(* (ReturnsFree), a CALL does not place operands (OperandLoop), and r_arg  *)
(* is filled for operands only, never ahead of assign_regs (Placed), and   *)
(* only branches are turned around (Turned).                               *)
(*                                                                         *)
(* The second part is about the moves the allocator inserts: executed one  *)
(* after the other from where the map before has the values, they bring    *)
(* every live value to where the map behind wants it, store nothing        *)
(* outdated and load nothing outdated.  Ready speaks of a list of moves,   *)
(* the values they find in registers and in memory, and the map they are   *)
(* to establish; TailReady is what one executed move leaves of it.  Fine   *)
(* says what each operation's own map and moves are to that of the         *)
(* operation before it, Complete that its operands have registers, Agree   *)
(* that branches and jumps lead to maps that are the same or are made so.  *)
(* MInv, with all of it, is inductive.                                     *)
(*                                                                         *)
(* The last part is about the code that runs, and is introduced there.     *)
(***************************************************************************)
EXTENDS AllocatedCode, Iteration, FiniteSetTheorems, SequenceTheorems, TLAPS

(* A map in which no register has two owners or one of the other class. *)
Clean(map) ==
    \A v \in Mapped(map) : Owners(map, map[v]) = {v} /\ SameClass(v, map[v])

ReturnsFree ==
    \A o \in Ops : o < cur /\ prog[o].kind = "CALL" =>
        Owners(regmap[o], RetReg) = {} /\ Owners(regmap[o], FpRetReg) = {}

OperandLoop == operand # 0 => phase = "assign" /\ Kind # "CALL"

Placed ==
    \A o \in Ops : \A v \in VReg : r_arg[o][v] # NoReg =>
        v \in ToSet(prog[o].args) /\ (o < cur \/ (o = cur /\ operand # 0))

Turned ==
    \A o \in inverted : prog[o].kind \in Branches /\ prog[o].jmp # 0 /\ phase # "assign"

IInv == TypeOK /\ OneOwner /\ OperandsStay
        /\ ReturnsFree /\ OperandLoop /\ Placed /\ Turned

-----------------------------------------------------------------------------
(* Functions as the allocator gets them. *)

LEMMA ProgFacts ==
    ASSUME WellFormed(prog)
    PROVE  /\ Len(prog) \in Nat
           /\ Ops = 1 .. Len(prog)
           /\ \A o \in Ops : /\ prog[o] \in Op
                             /\ prog[o].args \in Seq(VReg)
                             /\ Len(prog[o].args) \in Nat
                             /\ DOMAIN prog[o].args = 1 .. Len(prog[o].args)
                             /\ ToSet(prog[o].args) \subseteq VReg
           /\ \A o \in Ops : \A k \in 1 .. Len(prog[o].args) :
                 /\ prog[o].args[k] \in VReg
                 /\ prog[o].args[k] \in ToSet(prog[o].args)
           /\ \A o \in Ops : o # 1 <=> prog[o].kind # "PROLOG"
  <1>1. prog \in Seq(Op)
    BY DEF WellFormed
  <1>2. Len(prog) \in Nat /\ Ops = 1 .. Len(prog)
    BY <1>1 DEF Ops
  <1>3. ASSUME NEW o \in Ops
        PROVE  /\ prog[o] \in Op
               /\ prog[o].args \in Seq(VReg)
               /\ Len(prog[o].args) \in Nat
               /\ DOMAIN prog[o].args = 1 .. Len(prog[o].args)
    <2>1. prog[o] \in Op
      BY <1>1, <1>2, ElementOfSeq
    <2> QED
      BY <2>1 DEF Op
  <1>4. ASSUME NEW o \in Ops, NEW k \in 1 .. Len(prog[o].args)
        PROVE  prog[o].args[k] \in VReg /\ prog[o].args[k] \in ToSet(prog[o].args)
    BY <1>3, ElementOfSeq DEF ToSet
  <1>5. \A o \in Ops : ToSet(prog[o].args) \subseteq VReg
    BY <1>3, <1>4 DEF ToSet
  <1>6. \A o \in Ops : o # 1 <=> prog[o].kind # "PROLOG"
    BY DEF WellFormed, JumpsFormed, Ops
  <1> QED
    BY <1>2, <1>3, <1>4, <1>5, <1>6

(* Where control can go. *)

LEMMA Flow ==
    ASSUME WellFormed(prog), NEW o \in Ops
    PROVE  /\ 1 \in Ops
           /\ prog[o].jmp # 0 => prog[o].jmp \in Ops
           /\ prog[o].kind \in Branches \cup {"BMS", "JMPI"} => prog[o].jmp # 0
           /\ prog[o].kind \notin {"RET", "JMPI", "JMPR"} => o + 1 \in Ops
           /\ prog[o].kind = "JMPR" => Succ(prog, o) \subseteq Ops
  <1>1. Len(prog) \in Nat /\ Ops = 1 .. Len(prog) /\ Len(prog) > 0
        /\ prog[Len(prog)].kind \in {"RET", "JMPI", "JMPR"}
    BY ProgFacts DEF WellFormed
  <1>2. \A k \in Ops : prog[k].jmp # 0 => prog[k].jmp \in Ops
    BY <1>1 DEF WellFormed, JumpsFormed, Ops
  <1>3. \A k \in Ops :
          prog[k].kind \in Branches \cup {"BMS", "JMPI", "REF_CODE"} => prog[k].jmp # 0
    BY DEF WellFormed, JumpsFormed, Ops
  <1>4. ASSUME prog[o].kind = "JMPR" PROVE Succ(prog, o) \subseteq Ops
    BY <1>2, <1>3, <1>4 DEF Succ, Ops
  <1>5. prog[o].kind \notin {"RET", "JMPI", "JMPR"} => o + 1 \in Ops
    BY <1>1
  <1> QED
    BY <1>1, <1>2, <1>3, <1>4, <1>5

(* assign_getarg turns a GETARG into a NOP: the list keeps its form. *)
BecomesNop(p, q) == p = [prog EXCEPT ![q].kind = "NOP"]

LEMMA NopWellFormed ==
    ASSUME WellFormed(prog), NEW q \in Ops, prog[q].kind = "GETARG",
           NEW p, BecomesNop(p, q)
    PROVE  /\ WellFormed(p)
           /\ Len(p) = Len(prog) /\ DOMAIN p = Ops
           /\ \A o \in Ops : /\ p[o].args = prog[o].args /\ p[o].jmp = prog[o].jmp
                             /\ p[o].use = prog[o].use /\ p[o].def = prog[o].def
                             /\ p[o].kind = "CALL" <=> prog[o].kind = "CALL"
                             /\ o # q => p[o] = prog[o]
           /\ p[q].kind = "NOP"
  <1>1. /\ prog \in Seq(Op) /\ Len(prog) \in Nat /\ Ops = 1 .. Len(prog)
        /\ \A o \in Ops : prog[o] \in Op
    BY ProgFacts DEF WellFormed
  <1>2. p \in Seq(Op) /\ Len(p) = Len(prog) /\ DOMAIN p = Ops
    <2>1. [prog[q] EXCEPT !.kind = "NOP"] \in Op
      BY <1>1 DEF Op, Kinds
    <2>2. p = [prog EXCEPT ![q] = [prog[q] EXCEPT !.kind = "NOP"]]
      BY <1>1 DEF BecomesNop
    <2> QED
      BY <1>1, <2>1, <2>2, ExceptSeq
  <1>3. \A o \in Ops : /\ o # q => p[o] = prog[o]
                       /\ p[q] = [prog[q] EXCEPT !.kind = "NOP"]
    BY <1>1 DEF BecomesNop
  <1>4. \A o \in Ops : /\ p[o].args = prog[o].args /\ p[o].jmp = prog[o].jmp
                       /\ p[o].use = prog[o].use /\ p[o].def = prog[o].def
                       /\ p[o].kind = prog[o].kind
                            \/ (p[o].kind = "NOP" /\ prog[o].kind = "GETARG")
    <2>1. /\ p[q].kind = "NOP" /\ p[q].args = prog[q].args /\ p[q].jmp = prog[q].jmp
          /\ p[q].use = prog[q].use /\ p[q].def = prog[q].def
      BY <1>1, <1>3 DEF Op
    <2> QED
      BY <1>3, <2>1
  <1>5. /\ Len(prog) > 0 /\ prog[Len(prog)].kind \in {"RET", "JMPI", "JMPR"}
        /\ \A o \in Ops :
             JumpsFormed(prog, o) /\ OperandsFormed(prog, o) /\ CallsFormed(prog, o)
    BY DEF WellFormed, Ops
  <1>6. p[Len(p)].kind \in {"RET", "JMPI", "JMPR"}
    BY <1>1, <1>2, <1>4, <1>5
  <1>7. ASSUME NEW o \in Ops PROVE JumpsFormed(p, o)
    <2>1. p[o].jmp # 0 => /\ p[o].jmp \in 2 .. Len(p) /\ IsLabel(p[p[o].jmp])
                          /\ p[o].jmp \in Ops /\ p[o].jmp - 1 \in Ops
      BY <1>1, <1>2, <1>4, <1>5, <1>7 DEF JumpsFormed, IsLabel
    <2>2. p[o].kind = "REF_CODE" => p[o].jmp # 0 /\ p[p[o].jmp - 1].kind = "FULL_SPILL"
      <3> SUFFICES ASSUME p[o].kind = "REF_CODE"
                   PROVE  p[o].jmp # 0 /\ p[p[o].jmp - 1].kind = "FULL_SPILL"
        OBVIOUS
      <3>1. prog[o].kind = "REF_CODE" /\ prog[o].jmp = p[o].jmp
        BY <1>4, <1>7
      <3>2. p[o].jmp # 0 /\ prog[p[o].jmp - 1].kind = "FULL_SPILL"
        BY <1>5, <1>7, <3>1 DEF JumpsFormed
      <3>3. p[o].jmp - 1 \in Ops
        BY <2>1, <3>2
      <3> QED
        BY <1>4, <3>2, <3>3
    <2> QED
      BY <2>1, <2>2, <1>4, <1>5, <1>7 DEF JumpsFormed, Branches
  <1>8. ASSUME NEW o \in Ops PROVE OperandsFormed(p, o)
    <2>1. p[1].args = prog[1].args
      BY <1>1, <1>4, <1>5
    <2>2. CASE p[o].kind = "NOP" /\ prog[o].kind = "GETARG"
      <3>1. \A u, v \in prog[o].def : u = v
        BY <2>2, <1>5, <1>8 DEF OperandsFormed
      <3> QED
        BY <2>2, <3>1, <1>4, <1>8 DEF OperandsFormed, NoTarget, Branches
    <2>3. CASE p[o].kind = prog[o].kind
      BY <2>1, <2>3, <1>4, <1>5, <1>8 DEF OperandsFormed
    <2> QED
      BY <2>2, <2>3, <1>4, <1>8
  <1>9. ASSUME NEW o \in Ops PROVE CallsFormed(p, o)
    <2>1. o # 1 => o - 1 \in Ops
      BY <1>1, <1>9
    <2>2. o + 1 \in Ops \/ o = Len(prog)
      BY <1>1, <1>9
    <2>3. p[o].kind \in {"PREPARE", "PUTARG", "FPUTARG"} =>
            p[o + 1].kind \in {"PUTARG", "FPUTARG", "CALL"}
      BY <2>2, <1>4, <1>5, <1>9 DEF CallsFormed
    <2> QED
      BY <2>1, <2>3, <1>4, <1>5, <1>9 DEF CallsFormed
  <1>10. \A o \in Ops : p[o].kind = "CALL" <=> prog[o].kind = "CALL"
    BY <1>4
  <1> QED
    <2>1. p[q].kind = "NOP" /\ \A o \in Ops : o # q => p[o] = prog[o]
      BY <1>1, <1>3 DEF Op
    <2>2. WellFormed(p)
      BY <1>2, <1>5, <1>6, <1>7, <1>8, <1>9 DEF WellFormed
    <2> QED
      BY <2>1, <2>2, <1>1, <1>2, <1>4, <1>10

-----------------------------------------------------------------------------
(* Register maps. *)

LEMMA EmptyMapClean == EmptyMap \in Map /\ Clean(EmptyMap)
  BY RegisterAssumption DEF EmptyMap, Map, Clean, Mapped

LEMMA WithoutClean ==
    ASSUME NEW map \in Map, Clean(map), NEW V
    PROVE  /\ Without(map, V) \in Map
           /\ Clean(Without(map, V))
           /\ \A v \in VReg : v \notin V => Without(map, V)[v] = map[v]
           /\ \A h \in HReg : Owners(Without(map, V), h) = Owners(map, h) \ V
  BY RegisterAssumption DEF Without, Map, Clean, Mapped, Owners, SameClass

(* A virtual register moves to a register of its class nobody is in. *)
LEMMA MovedClean ==
    ASSUME NEW map \in Map, Clean(map), NEW v \in VReg, NEW h \in HReg,
           Owners(map, h) = {}, SameClass(v, h)
    PROVE  /\ [map EXCEPT ![v] = h] \in Map
           /\ Clean([map EXCEPT ![v] = h])
  BY RegisterAssumption DEF Map, Clean, Mapped, Owners, SameClass

(* Lists of moves. *)
LEMMA ListOfSet ==
    ASSUME NEW S, IsFiniteSet(S)
    PROVE  /\ SetToSeq(S) \in Seq(S)
  <1>1. Cardinality(S) \in Nat /\ ExistsBijection(1 .. Cardinality(S), S)
    BY FS_CardinalityType
  <1>2. PICK f : f \in Bijection(1 .. Cardinality(S), S)
    BY <1>1 DEF ExistsBijection
  <1>3. f \in [1 .. Cardinality(S) -> S] /\ IsInjective(f)
    BY <1>2 DEF Bijection, Injection, IsInjective
  <1>4. SetToSeq(S) \in [1 .. Cardinality(S) -> S]
    BY <1>3 DEF SetToSeq
  <1> QED
    BY <1>1, <1>4

LEMMA MovesTyped ==
    ASSUME NEW map \in Map, NEW V, V \subseteq Mapped(map)
    PROVE  Unload(V, map) \in Seq(Move) /\ Load(V, map) \in Seq(Move)
  <1>1. V \subseteq VReg /\ IsFiniteSet(V) /\ \A v \in V : map[v] \in HReg
    BY RegisterAssumption, FS_Subset DEF Mapped, Map
  <1> DEFINE U == {Ureg(v, map[v]) : v \in V}
             L == {Lreg(v, map[v]) : v \in V}
  <1>2. U \subseteq Move /\ L \subseteq Move
    BY <1>1 DEF Ureg, Lreg, Move
  <1>3. IsFiniteSet(U) /\ IsFiniteSet(L)
    <2>1. [v \in V |-> Ureg(v, map[v])] \in Surjection(V, U)
      BY DEF Surjection
    <2>2. [v \in V |-> Lreg(v, map[v])] \in Surjection(V, L)
      BY DEF Surjection
    <2> HIDE DEF U, L
    <2> QED
      BY <2>1, <2>2, <1>1, FS_Surjection
  <1> HIDE DEF U, L
  <1>4. SetToSeq(U) \in Seq(Move) /\ SetToSeq(L) \in Seq(Move)
    BY <1>2, <1>3, ListOfSet, SeqMonotonic
  <1> QED
    BY <1>4 DEF Unload, Load, U, L

-----------------------------------------------------------------------------
(* The arguments of a function. *)

LEMMA RankTyped ==
    ASSUME NEW params \in Seq(VReg), NEW i \in DOMAIN params
    PROVE  Rank(params, i) \in Nat
  <1> DEFINE R == {j \in 1 .. i : params[j] \in Fp <=> params[i] \in Fp}
  <1>1. i \in Int /\ IsFiniteSet(1 .. i) /\ R \in SUBSET (1 .. i)
    BY FS_Interval
  <1>2. IsFiniteSet(R)
    BY <1>1, FS_Subset
  <1> QED
    BY <1>2, FS_CardinalityType DEF Rank

(* Two arguments of one class have different ranks. *)
LEMMA RankIncreases ==
    ASSUME NEW params \in Seq(VReg), NEW i \in DOMAIN params, NEW k \in DOMAIN params,
           i < k, params[i] \in Fp <=> params[k] \in Fp
    PROVE  Rank(params, i) # Rank(params, k)
  <1> DEFINE R(n) == {j \in 1 .. n : params[j] \in Fp <=> params[n] \in Fp}
  <1>1. /\ i \in 1 .. k /\ k \in Nat \ {0}
        /\ R(k) \in SUBSET (1 .. k) /\ R(i) \in SUBSET R(k)
        /\ k \in R(k) /\ k \notin R(i)
    BY LenProperties
  <1>2. IsFiniteSet(1 .. k)
    BY <1>1, FS_Interval
  <1> HIDE DEF R
  <1>3. IsFiniteSet(R(k))
    BY <1>1, <1>2, FS_Subset
  <1>4. Cardinality(R(i)) # Cardinality(R(k))
    BY <1>1, <1>3, FS_Subset
  <1> QED
    BY <1>4 DEF Rank, R

(* assign_regs_for_args gives every argument a register of its own. *)
LEMMA ParamMapClean ==
    ASSUME NEW params \in Seq(VReg), IsInjective(params)
    PROVE  ParamMap(params) \in Map /\ Clean(ParamMap(params))
  <1> DEFINE Passed(v) == \E i \in DOMAIN params :
                            params[i] = v /\ Rank(params, i) \in DOMAIN ArgRegsOf(v)
             At(v) == CHOOSE i \in DOMAIN params : params[i] = v
             h(v) == ArgRegsOf(v)[Rank(params, At(v))]
  <1>1. ASSUME NEW v \in VReg, Passed(v)
        PROVE  /\ At(v) \in DOMAIN params /\ params[At(v)] = v
               /\ Rank(params, At(v)) \in DOMAIN ArgRegsOf(v)
    BY <1>1 DEF IsInjective
  <1>2. ASSUME NEW v \in VReg, Passed(v)
        PROVE  h(v) \in HReg /\ SameClass(v, h(v))
    <2>1. CASE v \in Fp
      BY <2>1, <1>1, <1>2, RegisterAssumption, ElementOfSeq DEF ArgRegsOf, SameClass
    <2>2. CASE v \notin Fp
      BY <2>2, <1>1, <1>2, RegisterAssumption, ElementOfSeq DEF ArgRegsOf, SameClass
    <2> QED
      BY <2>1, <2>2
  <1>3. ASSUME NEW v \in VReg, NEW u \in VReg, Passed(v), Passed(u), h(v) = h(u)
        PROVE  v = u
    <2>1. v \in Fp <=> u \in Fp
      BY <1>2, <1>3 DEF SameClass
    <2>2. Rank(params, At(v)) = Rank(params, At(u))
      BY <2>1, <1>1, <1>3, RegisterAssumption DEF ArgRegsOf, IsInjective
    <2>3. At(v) \in Nat /\ At(u) \in Nat
      BY <1>1, <1>3, LenProperties
    <2>4. At(v) = At(u)
      BY <2>1, <2>2, <2>3, <1>1, <1>3, RankIncreases
    <2> QED
      BY <2>4, <1>1, <1>3
  <1>4. ParamMap(params) = [v \in VReg |-> IF Passed(v) THEN h(v) ELSE NoReg]
    BY DEF ParamMap
  <1> HIDE DEF Passed, At, h
  <1>5. ParamMap(params) \in Map
    BY <1>2, <1>4 DEF Map
  <1>6. Mapped(ParamMap(params)) = {v \in VReg : Passed(v)}
    BY <1>2, <1>4, RegisterAssumption DEF Mapped
  <1>7. Clean(ParamMap(params))
    BY <1>2, <1>3, <1>4, <1>6, RegisterAssumption DEF Clean, Owners
  <1> QED
    BY <1>5, <1>7

-----------------------------------------------------------------------------
(* Giving the operation its map and moves. *)

LEMMA Initially == Init => IInv
  <1> SUFFICES ASSUME Init PROVE IInv
    OBVIOUS
  <1>1. WellFormed(prog)
    BY ProgramsAssumption DEF Init
  <1>2. Len(prog) \in Nat \ {0} /\ Ops = 1 .. Len(prog)
    BY <1>1, ProgFacts DEF WellFormed
  <1>3. \A o \in Ops : Succ(prog, o) \subseteq Ops
    BY <1>1, <1>2, ProgFacts DEF WellFormed, JumpsFormed, Succ, Ops, Branches
  <1>4. live_in \in [Ops -> SUBSET VReg] /\ live_out \in [Ops -> SUBSET VReg]
    <2>1. LiveIn(prog) \in [Ops -> SUBSET VReg]
      BY DEF LiveIn, Ops
    <2>2. LiveOut(prog) \in [Ops -> SUBSET VReg]
      BY <2>1, <1>3 DEF LiveOut, Ops
    <2> QED
      BY <2>1, <2>2 DEF Init
  <1>5. TypeOK
    BY <1>1, <1>2, <1>4, EmptyMapClean, EmptySeq DEF Init, TypeOK, Ops
  <1>6. OneOwner
    BY EmptyMapClean DEF Init, OneOwner, Clean, Ops
  <1> QED
    BY <1>2, <1>5, <1>6 DEF Init, IInv, OperandsStay, ReturnsFree, OperandLoop,
                            Placed, Turned, EmptyMap, Ops

LEMMA GiveTyped ==
    ASSUME TypeOK, phase = "assign", cur <= Len(prog),
           NEW map \in Map, NEW moves \in Seq(Move), NEW k \in 1 .. (Len(Args) + 1),
           Give(map, moves, k), WellFormed(prog'), Len(prog') = Len(prog),
           \A o \in Ops : prog'[o].args = prog[o].args,
           r_arg' \in [Ops -> Map]
    PROVE  /\ TypeOK' /\ cur \in Ops /\ Ops' = Ops
           /\ regmap' = [regmap EXCEPT ![cur] = map]
           /\ \/ cur' = cur /\ operand' = k /\ operand' # 0 /\ k <= Len(Args)
              \/ cur' = cur + 1 /\ operand' = 0
           /\ phase' = phase /\ inverted' = inverted
  <1>1. /\ Len(prog) \in Nat /\ Ops = 1 .. Len(prog) /\ cur \in Ops
        /\ Len(Args) \in Nat
    BY ProgFacts DEF TypeOK, Args
  <1>2. Ops' = Ops
    <2>1. prog' \in Seq(Op)
      BY DEF WellFormed
    <2>2. DOMAIN prog' = 1 .. Len(prog')
      BY <2>1, LenProperties
    <2> QED
      BY <2>2, <1>1 DEF Ops
  <1>3. /\ regmap' = [regmap EXCEPT ![cur] = map]
        /\ \/ cur' = cur /\ operand' = k /\ operand' # 0 /\ k <= Len(Args)
           \/ cur' = cur + 1 /\ operand' = 0
        /\ before' = [before EXCEPT ![cur] = before[cur] \o moves]
        /\ UNCHANGED <<live_in, live_out, phase, inverted, detour>>
    BY <1>1 DEF Give
  <1>4. before[cur] \o moves \in Seq(Move)
    BY <1>1, ConcatProperties DEF TypeOK
  <1>5. regmap' \in [Ops -> Map] /\ before' \in [Ops -> Seq(Move)]
    BY <1>1, <1>3, <1>4 DEF TypeOK
  <1>6. operand' # 0 => cur' <= Len(prog') /\ operand' <= Len(Args')
    BY <1>1, <1>2, <1>3 DEF Args
  <1>7. cur' \in 1 .. (Len(prog') + 1) /\ operand' \in Nat
    BY <1>1, <1>2, <1>3
  <1> QED
    BY <1>1, <1>2, <1>3, <1>5, <1>6, <1>7 DEF TypeOK

(* The invariant after a step of assign_regs whose map is clean, and which *)
(* put registers into r_arg for operands only, as the map has them.        *)
LEMMA GiveKeeps ==
    ASSUME IInv, phase = "assign", cur <= Len(prog),
           NEW map \in Map, NEW moves \in Seq(Move), NEW k \in 1 .. (Len(Args) + 1),
           Give(map, moves, k), WellFormed(prog'), Len(prog') = Len(prog),
           \A o \in Ops : /\ prog'[o].args = prog[o].args
                          /\ prog'[o].kind = "CALL" <=> prog[o].kind = "CALL",
           r_arg' \in [Ops -> Map],
           \A o \in Ops \ {cur} : r_arg'[o] = r_arg[o],
           \A v \in VReg : r_arg'[cur][v] # NoReg =>
             v \in ToSet(Args) /\ map[v] = r_arg'[cur][v],
           Clean(map),
           Kind = "CALL" => /\ k = Skip
                            /\ Owners(map, RetReg) = {} /\ Owners(map, FpRetReg) = {}
    PROVE  IInv'
  <1> DEFINE after == [regmap EXCEPT ![cur] = map]
  <1>1. /\ TypeOK' /\ cur \in Ops /\ Ops' = Ops /\ regmap' = after
        /\ \/ cur' = cur /\ operand' = k /\ operand' # 0 /\ k <= Len(Args)
           \/ cur' = cur + 1 /\ operand' = 0
        /\ phase' = phase /\ inverted' = inverted
    BY GiveTyped DEF IInv
  <1>2. /\ Len(prog) \in Nat /\ Ops = 1 .. Len(prog) /\ Len(Args) \in Nat
        /\ regmap \in [Ops -> Map]
    BY <1>1, ProgFacts DEF IInv, TypeOK, Args
  <1>3. /\ regmap'[cur] = map
        /\ \A o \in Ops \ {cur} : regmap'[o] = regmap[o]
    BY <1>1, <1>2
  <1>4. OneOwner'
    <2>1. \A o \in Ops : Clean(regmap[o])
      BY DEF IInv, OneOwner, Clean
    <2>2. \A o \in Ops : Clean(regmap'[o])
      BY <2>1, <1>3
    <2> QED
      BY <2>2, <1>1 DEF OneOwner, Clean, Mapped, Owners
  <1>5. OperandsStay'
    BY <1>1, <1>3 DEF IInv, OperandsStay
  <1>6. ReturnsFree'
    <2> SUFFICES ASSUME NEW o \in Ops, o < cur', prog'[o].kind = "CALL"
                 PROVE  Owners(regmap'[o], RetReg) = {} /\ Owners(regmap'[o], FpRetReg) = {}
      BY <1>1 DEF ReturnsFree, Owners
    <2>1. CASE o = cur
      <3>1. Kind = "CALL"
        BY <2>1 DEF Kind
      <3> QED
        BY <3>1, <2>1, <1>3
    <2>2. CASE o < cur
      <3>1. prog[o].kind = "CALL" /\ o # cur
        BY <2>2, <1>1, <1>2
      <3>2. Owners(regmap[o], RetReg) = {} /\ Owners(regmap[o], FpRetReg) = {}
        BY <3>1, <2>2 DEF IInv, ReturnsFree
      <3> QED
        BY <3>1, <3>2, <1>3
    <2> QED
      BY <2>1, <2>2, <1>1, <1>2
  <1>7. OperandLoop'
    BY <1>1, <1>2 DEF OperandLoop, Kind, Skip
  <1>8. Placed'
    <2> SUFFICES ASSUME NEW o \in Ops, NEW v \in VReg, r_arg'[o][v] # NoReg
                 PROVE  /\ v \in ToSet(prog'[o].args)
                        /\ o < cur' \/ (o = cur' /\ operand' # 0)
      BY <1>1 DEF Placed
    <2>1. CASE o = cur
      BY <2>1, <1>1, <1>2 DEF Args
    <2>2. CASE o # cur
      BY <2>2, <1>1, <1>2 DEF IInv, Placed
    <2> QED
      BY <2>1, <2>2
  <1>9. Turned'
    BY <1>1 DEF IInv, Turned
  <1> QED
    BY <1>1, <1>4, <1>5, <1>6, <1>7, <1>8, <1>9 DEF IInv

(* The same for a step that begins an operation and places no operand. *)
LEMMA BeginKeeps ==
    ASSUME IInv, phase = "assign", operand = 0, cur <= Len(prog),
           NEW map \in Map, NEW moves \in Seq(Move), NEW k \in {1, Skip},
           Give(map, moves, k), UNCHANGED <<prog, r_arg>>, Clean(map),
           Kind = "CALL" => /\ k = Skip
                            /\ Owners(map, RetReg) = {} /\ Owners(map, FpRetReg) = {}
    PROVE  IInv'
  <1>1. /\ WellFormed(prog) /\ cur \in Ops /\ Len(Args) \in Nat
        /\ r_arg \in [Ops -> Map]
    BY ProgFacts DEF IInv, TypeOK, Args
  <1>2. prog' = prog /\ r_arg' = r_arg /\ WellFormed(prog') /\ Len(prog') = Len(prog)
    BY <1>1
  <1>3. \A v \in VReg : r_arg[cur][v] = NoReg
    BY <1>1 DEF IInv, Placed, TypeOK
  <1>4. k \in 1 .. (Len(Args) + 1)
    BY <1>1 DEF Skip
  <1> QED
    BY <1>1, <1>2, <1>3, <1>4, GiveKeeps

(* What an operation inherits from the one before it. *)
LEMMA InheritedFacts ==
    ASSUME IInv, phase = "assign", cur <= Len(prog), Kind # "PROLOG"
    PROVE  /\ cur \in Ops /\ cur - 1 \in Ops
           /\ WellFormed(prog) /\ CallsFormed(prog, cur) /\ OperandsFormed(prog, cur)
           /\ Inherited \in Map /\ Clean(Inherited)
           /\ prog[cur - 1].kind = "CALL" =>
                Owners(Inherited, RetReg) = {} /\ Owners(Inherited, FpRetReg) = {}
  <1>1. WellFormed(prog) /\ cur \in 1 .. Len(prog) /\ Ops = 1 .. Len(prog)
    BY ProgFacts DEF IInv, TypeOK
  <1>2. cur # 1
    BY <1>1, ProgFacts DEF Kind
  <1>3. cur \in Ops /\ cur - 1 \in Ops /\ cur - 1 < cur
    BY <1>1, <1>2
  <1>4. CallsFormed(prog, cur) /\ OperandsFormed(prog, cur)
    BY <1>1, <1>3 DEF WellFormed, Ops
  <1>5. Inherited \in Map /\ Clean(Inherited)
    BY <1>3 DEF IInv, TypeOK, OneOwner, Clean, Inherited
  <1>6. prog[cur - 1].kind = "CALL" =>
          Owners(Inherited, RetReg) = {} /\ Owners(Inherited, FpRetReg) = {}
    BY <1>3 DEF IInv, ReturnsFree, Inherited
  <1> QED
    BY <1>1, <1>3, <1>4, <1>5, <1>6

-----------------------------------------------------------------------------
(* One lemma per kind of step. *)

LEMMA PrologStep == IInv /\ AssignProlog => IInv'
  <1> SUFFICES ASSUME IInv, AssignProlog PROVE IInv'
    OBVIOUS
  <1>1. /\ phase = "assign" /\ operand = 0 /\ cur <= Len(prog) /\ Kind = "PROLOG"
        /\ Give(ParamMap(Args), <<>>, Skip) /\ UNCHANGED <<prog, r_arg>>
    BY DEF AssignProlog, Beginning
  <1>2. cur \in Ops /\ WellFormed(prog)
    BY <1>1, ProgFacts DEF IInv, TypeOK
  <1>3. Args \in Seq(VReg) /\ IsInjective(Args)
    BY <1>1, <1>2, ProgFacts DEF WellFormed, OperandsFormed, Kind, Args, Ops
  <1>4. ParamMap(Args) \in Map /\ Clean(ParamMap(Args))
    BY <1>3, ParamMapClean
  <1>5. <<>> \in Seq(Move)
    BY EmptySeq
  <1> QED
    BY <1>1, <1>4, <1>5, BeginKeeps

LEMMA PlainStep == IInv /\ (AssignPlain \/ AssignPutArg \/ AssignGetArg) => IInv'
  <1> SUFFICES ASSUME IInv, AssignPlain \/ AssignPutArg \/ AssignGetArg PROVE IInv'
    OBVIOUS
  <1>1. /\ phase = "assign" /\ operand = 0 /\ cur <= Len(prog)
        /\ Kind # "PROLOG" /\ Kind # "CALL" /\ UNCHANGED <<prog, r_arg>>
        /\ Give(Inherited, <<>>, 1) \/ Give(Inherited, <<>>, Skip)
    BY DEF AssignPlain, AssignPutArg, AssignGetArg, Beginning, Branches
  <1>2. Inherited \in Map /\ Clean(Inherited) /\ <<>> \in Seq(Move)
    BY <1>1, InheritedFacts, EmptySeq
  <1> QED
    BY <1>1, <1>2, BeginKeeps

LEMMA GetArgFastStep == IInv /\ AssignGetArgFast => IInv'
  <1> SUFFICES ASSUME IInv, AssignGetArgFast PROVE IInv'
    OBVIOUS
  <1> DEFINE x == CHOOSE u \in prog[cur].use : TRUE
             d == Args[1]
             h == Inherited[x]
             map == [Inherited EXCEPT ![x] = NoReg, ![d] = h]
  <1>1. /\ phase = "assign" /\ operand = 0 /\ cur <= Len(prog) /\ Kind = "GETARG"
        /\ h # NoReg /\ Give(map, <<>>, Skip)
        /\ r_arg' = [r_arg EXCEPT ![cur][d] = h]
        /\ prog' = [prog EXCEPT ![cur].kind = "NOP"]
    BY DEF AssignGetArgFast, Beginning, TakesOver
  <1>2. /\ cur \in Ops /\ WellFormed(prog) /\ OperandsFormed(prog, cur)
        /\ Inherited \in Map /\ Clean(Inherited)
    BY <1>1, InheritedFacts
  <1>3. /\ Len(Args) = 1 /\ d \in VReg /\ d \in ToSet(Args)
        /\ x \in VReg /\ (x \in Fp <=> d \in Fp)
    <2>1. /\ Len(Args) = 1
          /\ \E v \in ToSet(prog[1].args) :
               prog[cur].use = {v} /\ (v \in Fp <=> d \in Fp)
      BY <1>1, <1>2 DEF OperandsFormed, Kind, Args
    <2>2. d \in VReg /\ d \in ToSet(Args)
      BY <2>1, <1>2, ProgFacts DEF Args
    <2>3. ToSet(prog[1].args) \subseteq VReg
      BY <1>2, ProgFacts
    <2> QED
      BY <2>1, <2>2, <2>3
  <1> HIDE DEF x, d
  <1>4. h \in HReg /\ SameClass(x, h) /\ Owners(Inherited, h) = {x}
    BY <1>1, <1>2, <1>3 DEF Map, Clean, Mapped
  <1>5. map \in Map /\ Clean(map) /\ map[d] = h
    BY <1>2, <1>3, <1>4, RegisterAssumption DEF Map, Clean, Mapped, Owners, SameClass
  <1>6. /\ WellFormed(prog') /\ Len(prog') = Len(prog)
        /\ \A o \in Ops : /\ prog'[o].args = prog[o].args
                          /\ prog'[o].kind = "CALL" <=> prog[o].kind = "CALL"
    <2>1. BecomesNop(prog', cur)
      BY <1>1 DEF BecomesNop
    <2>2. WellFormed(prog) /\ cur \in Ops /\ prog[cur].kind = "GETARG"
      BY <1>1, <1>2 DEF Kind
    <2> QED
      BY <2>1, <2>2, NopWellFormed
  <1>7. /\ r_arg \in [Ops -> Map] /\ \A v \in VReg : r_arg[cur][v] = NoReg
    BY <1>1, <1>2 DEF IInv, TypeOK, Placed
  <1>8. /\ r_arg' \in [Ops -> Map]
        /\ \A o \in Ops \ {cur} : r_arg'[o] = r_arg[o]
        /\ \A v \in VReg : r_arg'[cur][v] # NoReg =>
             v \in ToSet(Args) /\ map[v] = r_arg'[cur][v]
    BY <1>1, <1>2, <1>3, <1>4, <1>5, <1>7 DEF Map
  <1>9. <<>> \in Seq(Move) /\ Skip \in 1 .. (Len(Args) + 1) /\ Kind # "CALL"
    BY <1>1, <1>3, EmptySeq DEF Skip
  <1> HIDE DEF map
  <1> QED
    BY <1>1, <1>5, <1>6, <1>8, <1>9, GiveKeeps

(* prepare_registers_for_call, its first part. *)
LEMMA RetRegClearedClean ==
    ASSUME NEW o \in Ops, NEW map \in Map, Clean(map),
           NEW ret \in RetRegCleared(o, map)
    PROVE  ret[1] \in Map /\ Clean(ret[1]) /\ ret[2] \in Seq(Move)
  <1> DEFINE r == CHOOSE v \in Owners(map, RetReg) : TRUE
             takers == {h \in CalleeSaved \ Fp : Owners(map, h) = {}}
  <1>1. \/ ret = <<map, <<>>>>
        \/ /\ Owners(map, RetReg) # {}
           /\ \E h \in takers : ret = <<[map EXCEPT ![r] = h], <<Rename(h, RetReg)>>>>
        \/ Owners(map, RetReg) # {} /\ ret = <<map, <<Ureg(r, RetReg)>>>>
    BY DEF RetRegCleared
  <1>2. Owners(map, RetReg) # {} =>
          r \in VReg /\ map[r] = RetReg /\ SameClass(r, RetReg)
    BY RegisterAssumption DEF Owners, Clean, Mapped
  <1> HIDE DEF r
  <1>3. CASE ret = <<map, <<>>>>
    BY <1>3, EmptySeq
  <1>4. ASSUME Owners(map, RetReg) # {}, NEW h \in takers,
               ret = <<[map EXCEPT ![r] = h], <<Rename(h, RetReg)>>>>
        PROVE  ret[1] \in Map /\ Clean(ret[1]) /\ ret[2] \in Seq(Move)
    <2>1. h \in HReg /\ SameClass(r, h) /\ Owners(map, h) = {}
      BY <1>2, <1>4, RegisterAssumption DEF SameClass
    <2>2. Rename(h, RetReg) \in Move
      BY <2>1, RegisterAssumption DEF Rename, Move
    <2>3. [map EXCEPT ![r] = h] \in Map /\ Clean([map EXCEPT ![r] = h])
      BY <2>1, <1>2, <1>4, MovedClean
    <2>4. /\ ret[1] = [map EXCEPT ![r] = h]
          /\ ret[2] = <<Rename(h, RetReg)>>
      BY <1>4
    <2> QED
      BY <2>2, <2>3, <2>4
  <1>5. CASE Owners(map, RetReg) # {} /\ ret = <<map, <<Ureg(r, RetReg)>>>>
    <2>1. Ureg(r, RetReg) \in Move
      BY <1>2, <1>5, RegisterAssumption DEF Ureg, Move
    <2> QED
      BY <2>1, <1>5
  <1> QED
    BY <1>1, <1>3, <1>4, <1>5

LEMMA PassingTyped ==
    ASSUME NEW o
    PROVE  Passing(o) \subseteq HReg
  <1>1. \A q \in DOMAIN GpArgRegs : GpArgRegs[q] \in HReg
    BY RegisterAssumption, ElementOfSeq
  <1>2. \A q \in DOMAIN FpArgRegs : FpArgRegs[q] \in HReg
    BY RegisterAssumption, ElementOfSeq
  <1> QED
    BY <1>1, <1>2 DEF Passing, FirstRegs

LEMMA PrepareStep == IInv /\ AssignPrepare => IInv'
  <1> SUFFICES ASSUME IInv, AssignPrepare PROVE IInv'
    OBVIOUS
  <1>1. /\ phase = "assign" /\ operand = 0 /\ cur <= Len(prog) /\ Kind = "PREPARE"
        /\ UNCHANGED <<prog, r_arg>>
    BY DEF AssignPrepare, Beginning
  <1>2. cur \in Ops /\ Inherited \in Map /\ Clean(Inherited)
    BY <1>1, InheritedFacts
  <1>3. PICK ret \in RetRegCleared(cur, Inherited) :
          LET map    == ret[1]
              gone   == {v \in VReg : map[v] \in Passing(cur)}
              unload == {v \in gone : v \in live_out[cur] /\ map[v] # FpRetReg}
          IN Give(Without(map, gone),
                  ret[2] \o FpRetSync(map) \o Unload(unload, map), Skip)
    BY DEF AssignPrepare
  <1> DEFINE map    == ret[1]
             gone   == {v \in VReg : map[v] \in Passing(cur)}
             unload == {v \in gone : v \in live_out[cur] /\ map[v] # FpRetReg}
             moves  == ret[2] \o FpRetSync(map) \o Unload(unload, map)
  <1>4. map \in Map /\ Clean(map) /\ ret[2] \in Seq(Move)
    BY <1>2, RetRegClearedClean
  <1>5. Without(map, gone) \in Map /\ Clean(Without(map, gone))
    BY <1>4, WithoutClean
  <1>6. /\ Owners(map, FpRetReg) \subseteq Mapped(map)
        /\ unload \subseteq Mapped(map)
    BY PassingTyped, RegisterAssumption DEF Owners, Mapped
  <1>7. FpRetSync(map) \in Seq(Move) /\ Unload(unload, map) \in Seq(Move)
    BY <1>4, <1>6, MovesTyped DEF FpRetSync
  <1>8. moves \in Seq(Move)
    BY <1>4, <1>7, ConcatProperties
  <1>9. Give(Without(map, gone), moves, Skip)
    BY <1>3
  <1> HIDE DEF map, gone, moves
  <1> QED
    BY <1>1, <1>5, <1>8, <1>9, BeginKeeps

LEMMA CallStep == IInv /\ AssignCall => IInv'
  <1> SUFFICES ASSUME IInv, AssignCall PROVE IInv'
    OBVIOUS
  <1> DEFINE gone == Owners(Inherited, RetReg) \cup Owners(Inherited, FpRetReg)
  <1>1. /\ phase = "assign" /\ operand = 0 /\ cur <= Len(prog) /\ Kind = "CALL"
        /\ Give(Without(Inherited, gone), <<>>, Skip) /\ UNCHANGED <<prog, r_arg>>
    BY DEF AssignCall, Beginning
  <1>2. Inherited \in Map /\ Clean(Inherited)
    BY <1>1, InheritedFacts
  <1>3. Without(Inherited, gone) \in Map /\ Clean(Without(Inherited, gone))
    BY <1>2, WithoutClean
  <1>4. /\ Owners(Without(Inherited, gone), RetReg) = {}
        /\ Owners(Without(Inherited, gone), FpRetReg) = {}
    BY <1>2, WithoutClean, RegisterAssumption
  <1>5. <<>> \in Seq(Move)
    BY EmptySeq
  <1> HIDE DEF gone
  <1> QED
    BY <1>1, <1>3, <1>4, <1>5, BeginKeeps

LEMMA RetValStep == IInv /\ AssignRetVal => IInv'
  <1> SUFFICES ASSUME IInv, AssignRetVal PROVE IInv'
    OBVIOUS
  <1> DEFINE h == IF Kind = "RETVAL" THEN RetReg ELSE FpRetReg
             d == Args[1]
             map == [Inherited EXCEPT ![d] = h]
  <1>1. /\ phase = "assign" /\ operand = 0 /\ cur <= Len(prog)
        /\ Kind \in {"RETVAL", "FRETVAL"}
        /\ Give(map, <<>>, Skip) /\ prog' = prog
        /\ r_arg' = [r_arg EXCEPT ![cur][d] = h]
    BY DEF AssignRetVal, Beginning
  <1>2. /\ cur \in Ops /\ WellFormed(prog) /\ CallsFormed(prog, cur)
        /\ Inherited \in Map /\ Clean(Inherited)
        /\ prog[cur - 1].kind = "CALL" =>
             Owners(Inherited, RetReg) = {} /\ Owners(Inherited, FpRetReg) = {}
    BY <1>1, InheritedFacts
  <1>3. /\ prog[cur - 1].kind = "CALL" /\ Len(Args) = 1
        /\ d \in Fp <=> Kind = "FRETVAL"
    BY <1>1, <1>2 DEF CallsFormed, Kind, Args
  <1>4. d \in VReg /\ d \in ToSet(Args)
    BY <1>2, <1>3, ProgFacts DEF Args
  <1>5. h \in HReg /\ SameClass(d, h) /\ Owners(Inherited, h) = {}
    BY <1>1, <1>2, <1>3, RegisterAssumption DEF SameClass
  <1> HIDE DEF h, d
  <1>6. map \in Map /\ Clean(map) /\ map[d] = h
    BY <1>2, <1>4, <1>5, MovedClean DEF Map
  <1>7. /\ r_arg \in [Ops -> Map] /\ \A v \in VReg : r_arg[cur][v] = NoReg
    BY <1>1, <1>2 DEF IInv, TypeOK, Placed
  <1>8. /\ r_arg' \in [Ops -> Map]
        /\ \A o \in Ops \ {cur} : r_arg'[o] = r_arg[o]
        /\ \A v \in VReg : r_arg'[cur][v] # NoReg =>
             v \in ToSet(Args) /\ map[v] = r_arg'[cur][v]
    BY <1>1, <1>2, <1>4, <1>5, <1>6, <1>7 DEF Map
  <1>9. <<>> \in Seq(Move) /\ Skip \in 1 .. (Len(Args) + 1) /\ Kind # "CALL"
    BY <1>1, <1>3, EmptySeq DEF Skip
  <1>10. WellFormed(prog') /\ Len(prog') = Len(prog) /\ prog' = prog
    BY <1>1, <1>2
  <1> HIDE DEF map
  <1> QED
    BY <1>1, <1>6, <1>8, <1>9, <1>10, GiveKeeps

LEMMA SpillStep ==
    IInv /\ (AssignJmpr \/ AssignFullSpill \/ AssignForceSpill) => IInv'
  <1> SUFFICES ASSUME IInv, AssignJmpr \/ AssignFullSpill \/ AssignForceSpill
               PROVE  IInv'
    OBVIOUS
  <1>1. /\ phase = "assign" /\ operand = 0 /\ cur <= Len(prog)
        /\ Kind # "PROLOG" /\ Kind # "CALL" /\ UNCHANGED <<prog, r_arg>>
    BY DEF AssignJmpr, AssignFullSpill, AssignForceSpill, Beginning
  <1>2. Inherited \in Map /\ Clean(Inherited) /\ <<>> \in Seq(Move)
    BY <1>1, InheritedFacts, EmptySeq
  <1>3. CASE AssignJmpr
    <2> DEFINE moves == Unload(Mapped(Inherited) \cap live_out[cur], Inherited)
    <2>1. moves \in Seq(Move)
      BY <1>2, MovesTyped
    <2>2. Give(Inherited, moves, 1)
      BY <1>3 DEF AssignJmpr
    <2> HIDE DEF moves
    <2> QED
      BY <2>1, <2>2, <1>1, <1>2, BeginKeeps
  <1>4. CASE AssignFullSpill
    <2> DEFINE gone  == Mapped(Inherited) \cap live_out[cur]
               map   == Without(Inherited, gone)
               moves == IF InUse(cur) THEN Unload(gone, Inherited) ELSE <<>>
    <2>1. moves \in Seq(Move)
      BY <1>2, MovesTyped
    <2>2. map \in Map /\ Clean(map)
      BY <1>2, WithoutClean
    <2>3. Give(map, moves, Skip)
      BY <1>4 DEF AssignFullSpill
    <2> HIDE DEF map, moves
    <2> QED
      BY <2>1, <2>2, <2>3, <1>1, BeginKeeps
  <1>5. CASE AssignForceSpill
    <2> DEFINE gone  == ToSet(Args) \cap Mapped(Inherited)
               map   == Without(Inherited, gone)
               moves == Unload(gone, Inherited)
    <2>1. moves \in Seq(Move)
      BY <1>2, MovesTyped
    <2>2. map \in Map /\ Clean(map)
      BY <1>2, WithoutClean
    <2>3. Give(map, moves, Skip)
      BY <1>5 DEF AssignForceSpill
    <2> HIDE DEF map, moves
    <2> QED
      BY <2>1, <2>2, <2>3, <1>1, BeginKeeps
  <1> QED
    BY <1>3, <1>4, <1>5

(* What the loop over the operands knows. *)
LEMMA OperandFacts ==
    ASSUME IInv, AtOperand
    PROVE  /\ phase = "assign" /\ cur <= Len(prog) /\ cur \in Ops /\ Kind # "CALL"
           /\ WellFormed(prog) /\ Len(Args) \in Nat /\ operand \in 1 .. Len(Args)
           /\ Args[operand] \in VReg /\ Args[operand] \in ToSet(Args)
           /\ r_arg \in [Ops -> Map]
           /\ regmap[cur] \in Map /\ Clean(regmap[cur])
           /\ \A v \in VReg : r_arg[cur][v] # NoReg =>
                v \in ToSet(Args) /\ regmap[cur][v] = r_arg[cur][v]
  <1>1. /\ WellFormed(prog) /\ cur \in Ops /\ cur <= Len(prog)
        /\ operand \in Nat \ {0} /\ operand <= Len(Args)
        /\ phase = "assign" /\ Kind # "CALL"
        /\ r_arg \in [Ops -> Map] /\ regmap \in [Ops -> Map]
    BY ProgFacts DEF IInv, TypeOK, OperandLoop, AtOperand
  <1>2. Len(Args) \in Nat /\ operand \in 1 .. Len(Args)
    BY <1>1, ProgFacts DEF Args
  <1>3. Args[operand] \in VReg /\ Args[operand] \in ToSet(Args)
    BY <1>1, <1>2, ProgFacts DEF Args
  <1>4. regmap[cur] \in Map /\ Clean(regmap[cur])
    BY <1>1 DEF IInv, OneOwner, Clean
  <1>5. \A v \in VReg : r_arg[cur][v] # NoReg =>
          v \in ToSet(Args) /\ regmap[cur][v] = r_arg[cur][v]
    BY <1>1 DEF IInv, Placed, OperandsStay, Args
  <1> QED
    BY <1>1, <1>2, <1>3, <1>4, <1>5

LEMMA AssociatedStep == IInv /\ OperandAssociated => IInv'
  <1> SUFFICES ASSUME IInv, OperandAssociated PROVE IInv'
    OBVIOUS
  <1> DEFINE v == Args[operand]
             map == regmap[cur]
  <1>1. /\ AtOperand /\ Give(map, <<>>, operand + 1) /\ prog' = prog
        /\ r_arg' = [r_arg EXCEPT ![cur][v] = map[v]]
    BY DEF OperandAssociated
  <1>2. /\ phase = "assign" /\ cur <= Len(prog) /\ cur \in Ops /\ Kind # "CALL"
        /\ WellFormed(prog) /\ Len(Args) \in Nat /\ operand \in 1 .. Len(Args)
        /\ v \in VReg /\ v \in ToSet(Args)
        /\ r_arg \in [Ops -> Map] /\ map \in Map /\ Clean(map)
        /\ \A u \in VReg : r_arg[cur][u] # NoReg =>
             u \in ToSet(Args) /\ map[u] = r_arg[cur][u]
    BY <1>1, OperandFacts
  <1> HIDE DEF v, map
  <1>3. /\ r_arg' \in [Ops -> Map]
        /\ \A o \in Ops \ {cur} : r_arg'[o] = r_arg[o]
        /\ \A u \in VReg : r_arg'[cur][u] # NoReg =>
             u \in ToSet(Args) /\ map[u] = r_arg'[cur][u]
    BY <1>1, <1>2 DEF Map
  <1>4. <<>> \in Seq(Move) /\ operand + 1 \in 1 .. (Len(Args) + 1)
    BY <1>2, EmptySeq
  <1>5. WellFormed(prog') /\ Len(prog') = Len(prog)
    BY <1>1, <1>2
  <1> QED
    BY <1>1, <1>2, <1>3, <1>4, <1>5, GiveKeeps

(* associate_register with make_free_reg: nothing the candidate displaces  *)
(* is an operand of the operation.                                         *)
LEMMA ToRegisterStep == IInv /\ OperandToRegister => IInv'
  <1> SUFFICES ASSUME IInv, OperandToRegister PROVE IInv'
    OBVIOUS
  <1> DEFINE v == Args[operand]
             map == regmap[cur]
             after(h) == [Without(map, Owners(map, h)) EXCEPT ![v] = h]
             moves(h) == Unload(Displaced(cur, map, h), map)
                           \o (IF v \in live_in[cur] THEN <<Lreg(v, h)>> ELSE <<>>)
  <1>1. AtOperand /\ map[v] = NoReg /\ prog' = prog
    BY DEF OperandToRegister
  <1>2. PICK h \in Candidates(cur, v, map) :
          /\ Give(after(h), moves(h), operand + 1)
          /\ r_arg' = [r_arg EXCEPT ![cur][v] = h]
    BY DEF OperandToRegister
  <1>3. /\ phase = "assign" /\ cur <= Len(prog) /\ cur \in Ops /\ Kind # "CALL"
        /\ WellFormed(prog) /\ Len(Args) \in Nat /\ operand \in 1 .. Len(Args)
        /\ v \in VReg /\ v \in ToSet(Args)
        /\ r_arg \in [Ops -> Map] /\ map \in Map /\ Clean(map)
        /\ \A u \in VReg : r_arg[cur][u] # NoReg =>
             u \in ToSet(Args) /\ map[u] = r_arg[cur][u]
    BY <1>1, OperandFacts
  <1>4. h \in HReg /\ SameClass(v, h) /\ Owners(map, h) \cap ToSet(Args) = {}
    BY <1>2 DEF Candidates, Pinned, Args
  <1> HIDE DEF v, map
  <1> DEFINE rest == Without(map, Owners(map, h))
  <1>5. /\ rest \in Map /\ Clean(rest) /\ Owners(rest, h) = {}
        /\ \A u \in VReg : u \notin Owners(map, h) => rest[u] = map[u]
    BY <1>3, <1>4, WithoutClean
  <1>6. after(h) \in Map /\ Clean(after(h))
    BY <1>3, <1>4, <1>5, MovedClean
  <1>7. moves(h) \in Seq(Move)
    <2>1. Displaced(cur, map, h) \subseteq Mapped(map)
      BY <1>4, RegisterAssumption DEF Displaced, Owners, Mapped
    <2>2. Unload(Displaced(cur, map, h), map) \in Seq(Move)
      BY <2>1, <1>3, MovesTyped
    <2>3. Lreg(v, h) \in Move
      BY <1>3, <1>4 DEF Lreg, Move
    <2> QED
      BY <2>2, <2>3, ConcatProperties
  <1>8. \A u \in VReg \ {v} : r_arg[cur][u] # NoReg => after(h)[u] = r_arg[cur][u]
    BY <1>3, <1>4, <1>5
  <1>9. /\ r_arg' \in [Ops -> Map]
        /\ \A o \in Ops \ {cur} : r_arg'[o] = r_arg[o]
        /\ \A u \in VReg : r_arg'[cur][u] # NoReg =>
             u \in ToSet(Args) /\ after(h)[u] = r_arg'[cur][u]
    BY <1>2, <1>3, <1>4, <1>5, <1>8 DEF Map
  <1>10. /\ operand + 1 \in 1 .. (Len(Args) + 1)
         /\ WellFormed(prog') /\ Len(prog') = Len(prog)
    BY <1>1, <1>3
  <1> HIDE DEF after, moves
  <1> QED
    BY <1>1, <1>2, <1>3, <1>6, <1>7, <1>9, <1>10, GiveKeeps

LEMMA ReconcileTyped ==
    ASSUME regmap \in [Ops -> Map], NEW o \in Ops, NEW t \in Ops
    PROVE  Reconcile(o, t) \in Seq(Move)
  <1> DEFINE differ == {v \in VReg : regmap[o][v] # regmap[t][v]}
  <1>1. /\ differ \cap Mapped(regmap[o]) \cap live_in[t] \subseteq Mapped(regmap[o])
        /\ differ \cap Mapped(regmap[t]) \cap live_out[o] \subseteq Mapped(regmap[t])
    OBVIOUS
  <1>2. /\ Unload(differ \cap Mapped(regmap[o]) \cap live_in[t], regmap[o]) \in Seq(Move)
        /\ Load(differ \cap Mapped(regmap[t]) \cap live_out[o], regmap[t]) \in Seq(Move)
    BY <1>1, MovesTyped
  <1> QED
    BY <1>2, ConcatProperties DEF Reconcile

LEMMA AdjustStep ==
    IInv /\ (StartAdjusting \/ AdjustBranches \/ AdjustJumps) => IInv'
  <1> SUFFICES ASSUME IInv, StartAdjusting \/ AdjustBranches \/ AdjustJumps
               PROVE  IInv'
    OBVIOUS
  <1>1. /\ UNCHANGED <<prog, live_in, live_out, cur, operand, regmap, r_arg>>
        /\ Ops' = Ops /\ WellFormed(prog) /\ Ops = 1 .. Len(prog)
        /\ phase' \in {"branches", "jumps", "allocated"}
    BY ProgFacts DEF IInv, TypeOK, StartAdjusting, AdjustBranches, AdjustJumps, Ops
  <1>2. operand = 0
    <2>1. CASE StartAdjusting
      BY <2>1, <1>1 DEF IInv, TypeOK, StartAdjusting
    <2>2. CASE AdjustBranches \/ AdjustJumps
      BY <2>2 DEF IInv, OperandLoop, AdjustBranches, AdjustJumps
    <2> QED
      BY <2>1, <2>2
  <1>3. \A o \in Ops : prog[o].jmp # 0 => prog[o].jmp \in Ops
    BY <1>1 DEF WellFormed, JumpsFormed, Ops
  <1>4. \A o \in Ops : prog[o].kind \in Branches \cup {"JMPI"} => prog[o].jmp # 0
    BY <1>1 DEF WellFormed, JumpsFormed, Ops
  <1>5. inverted' \subseteq Ops /\ Turned'
    BY <1>1, <1>4 DEF IInv, TypeOK, Turned, StartAdjusting, AdjustBranches, AdjustJumps
  <1>6. before' \in [Ops -> Seq(Move)] /\ detour' \in [Ops -> Seq(Move)]
    <2>1. CASE StartAdjusting \/ AdjustBranches
      BY <2>1 DEF IInv, TypeOK, StartAdjusting, AdjustBranches
    <2>2. CASE AdjustJumps
      <3>1. \A o \in Ops : \A t \in Ops : Reconcile(o, t) \in Seq(Move)
        BY ReconcileTyped DEF IInv, TypeOK
      <3>2. \A o \in Ops : before[o] \in Seq(Move)
        BY DEF IInv, TypeOK
      <3>3. \A o \in Ops : prog[o].kind = "JMPI" =>
              before[o] \o Reconcile(o, prog[o].jmp) \in Seq(Move)
        BY <3>1, <3>2, <1>3, <1>4, ConcatProperties
      <3>4. \A o \in Ops : o \in inverted => Reconcile(o, prog[o].jmp) \in Seq(Move)
        BY <3>1, <1>3 DEF IInv, Turned
      <3>5. <<>> \in Seq(Move)
        BY EmptySeq
      <3>6. /\ before' = [o \in Ops |->
                  IF prog[o].kind = "JMPI"
                  THEN before[o] \o Reconcile(o, prog[o].jmp) ELSE before[o]]
            /\ detour' = [o \in Ops |->
                  IF o \in inverted THEN Reconcile(o, prog[o].jmp) ELSE <<>>]
        BY <2>2 DEF AdjustJumps
      <3> QED
        BY <3>2, <3>3, <3>4, <3>5, <3>6
    <2> QED
      BY <2>1, <2>2
  <1>7. TypeOK'
    BY <1>1, <1>2, <1>5, <1>6 DEF IInv, TypeOK
  <1>8. OneOwner' /\ OperandsStay'
    BY <1>1 DEF IInv, OneOwner, OperandsStay, Mapped, Owners
  <1>9. ReturnsFree' /\ OperandLoop' /\ Placed'
    BY <1>1, <1>2 DEF IInv, ReturnsFree, OperandLoop, Placed, Owners
  <1> QED
    BY <1>5, <1>7, <1>8, <1>9 DEF IInv

LEMMA Stutter == IInv /\ UNCHANGED allocVars => IInv'
  <1> SUFFICES ASSUME IInv, UNCHANGED allocVars PROVE IInv'
    OBVIOUS
  <1>1. /\ UNCHANGED <<prog, live_in, live_out, phase, cur, operand, regmap, r_arg,
                       before, inverted, detour>>
        /\ Ops' = Ops
    BY DEF allocVars, Ops
  <1>2. TypeOK'
    BY <1>1 DEF IInv, TypeOK, Args
  <1>3. OneOwner' /\ OperandsStay'
    BY <1>1 DEF IInv, OneOwner, OperandsStay, Mapped, Owners
  <1>4. ReturnsFree' /\ OperandLoop' /\ Placed' /\ Turned'
    BY <1>1 DEF IInv, ReturnsFree, OperandLoop, Placed, Turned, Owners, Kind
  <1> QED
    BY <1>2, <1>3, <1>4 DEF IInv

LEMMA Inductive == IInv /\ [Next]_allocVars => IInv'
  BY PrologStep, PlainStep, GetArgFastStep, PrepareStep, CallStep, RetValStep,
     SpillStep, AssociatedStep, ToRegisterStep, AdjustStep, Stutter DEF Next

LEMMA Invariance == Spec => []IInv
  BY Initially, Inductive, PTL DEF Spec

-----------------------------------------------------------------------------
(* The theorems. *)

(***************************************************************************)
(* The maps and moves of every operation are well formed; in particular    *)
(* every move of the allocator names a register.                           *)
(***************************************************************************)
THEOREM TypeCorrect == Spec => []TypeOK
  <1>1. IInv => TypeOK
    BY DEF IInv
  <1> QED
    BY <1>1, Invariance, PTL

(***************************************************************************)
(* Running the generated code leaves what the allocator produced alone: a  *)
(* run of the whole system is, for the allocator, one of its own.          *)
(***************************************************************************)
THEOREM SystemImplementsAllocator == SystemSpec => Spec
  <1>1. SystemInit => Init
    BY DEF SystemInit
  <1>2. ASSUME [SystemNext]_vars PROVE [Next]_allocVars
    <2>1. CASE Allocate
      BY <2>1 DEF Allocate
    <2>2. CASE RunNext
      BY <2>2 DEF RunNext, Enter, StoreSlot, LoadSlot, RenameReg, Moved, ExecOp,
                  ExecPrepare, ExecCall, TakeBranch, Leave, FallThrough, Jump,
                  JumpToAddress, Return
    <2>3. CASE UNCHANGED vars
      BY <2>3 DEF vars
    <2> QED
      BY <1>2, <2>1, <2>2, <2>3 DEF SystemNext
  <1> QED
    BY <1>1, <1>2, PTL DEF SystemSpec, Spec

(***************************************************************************)
(* A hardware register never has two owners, whatever function is          *)
(* allocated and whichever registers the scores prefer: not after a        *)
(* GETARG that takes over a register, a rename before a call, a return     *)
(* value or a victim of make_free_reg.                                     *)
(***************************************************************************)
THEOREM SingleOwner == SystemSpec => []OneOwner
  <1>1. IInv => OneOwner
    BY DEF IInv
  <1> QED
    BY <1>1, Invariance, SystemImplementsAllocator, PTL

(***************************************************************************)
(* The register put into r_arg for an operand still belongs to it when all *)
(* operands are placed: make_free_reg never takes a register from another  *)
(* operand of the same operation.                                          *)
(***************************************************************************)
THEOREM OperandsKeepRegisters == SystemSpec => []OperandsStay
  <1>1. IInv => OperandsStay
    BY DEF IInv
  <1> QED
    BY <1>1, Invariance, SystemImplementsAllocator, PTL

-----------------------------------------------------------------------------
(* The moves. *)

WritesTo(move, h) ==
    \/ move.move = "LREG" /\ move.h = h
    \/ move.move = "RENAMEREG" /\ move.to = h

Saves(move, v) == move.move = "UREG" /\ move.v = v

(* No move before the i-th writes to h. *)
Untouched(m, i, h) == \A j \in DOMAIN m : j < i => ~WritesTo(m[j], h)

Arrive(m, map, L, R) ==
    \A v \in L : map[v] # NoReg =>
        \/ v \in R[map[v]] /\ Untouched(m, Len(m) + 1, map[v])
        \/ \E j \in DOMAIN m : m[j] = Lreg(v, map[v])
        \/ \E j \in DOMAIN m : /\ j = 1 /\ m[j].move = "RENAMEREG"
                               /\ m[j].to = map[v] /\ v \in R[m[j].h]

Stay(m, map, L, S, I) ==
    \A v \in L : map[v] = NoReg \/ v \in S =>
        v \in I \/ \E j \in DOMAIN m : Saves(m[j], v)

StoresRight(m, L, R) ==
    \A j \in DOMAIN m : m[j].move = "UREG" /\ m[j].v \in L =>
        m[j].v \in R[m[j].h] /\ Untouched(m, j, m[j].h)

LoadsRight(m, L, I) ==
    \A j \in DOMAIN m : m[j].move = "LREG" /\ m[j].v \in L =>
        m[j].v \in I \/ \E k \in DOMAIN m : k < j /\ Saves(m[k], m[j].v)

Fits(m, map) ==
    \A j \in DOMAIN m : /\ m[j].move = "LREG" => map[m[j].v] = m[j].h
                        /\ m[j].move = "RENAMEREG" => j = 1

Ready(m, map, L, S, R, I) ==
    /\ Arrive(m, map, L, R)
    /\ Stay(m, map, L, S, I)
    /\ StoresRight(m, L, R)
    /\ LoadsRight(m, L, I)
    /\ Fits(m, map)

(* Where a map has the values. *)
Held(map) == [h \in HReg |-> Owners(map, h)]
Stored(map) == VReg \ Mapped(map)

-----------------------------------------------------------------------------
(* Lists of moves. *)

IsStores(m, V, map) ==
    /\ m \in Seq(Move)
    /\ \A j \in DOMAIN m : m[j].move = "UREG" /\ m[j].v \in V /\ m[j].h = map[m[j].v]
    /\ \A v \in V : \E j \in DOMAIN m : Saves(m[j], v)

IsLoads(m, V, map) ==
    /\ m \in Seq(Move)
    /\ \A j \in DOMAIN m : m[j].move = "LREG" /\ m[j].v \in V /\ m[j].h = map[m[j].v]
    /\ \A v \in V : \E j \in DOMAIN m : m[j] = Lreg(v, map[v])

LEMMA WholeList ==
    ASSUME NEW S, IsFiniteSet(S)
    PROVE  /\ SetToSeq(S) \in Seq(S)
           /\ \A x \in S : \E i \in DOMAIN SetToSeq(S) : SetToSeq(S)[i] = x
  <1> DEFINE N == Cardinality(S)
  <1>1. N \in Nat /\ ExistsBijection(1 .. N, S)
    BY FS_CardinalityType
  <1>2. PICK f : f \in Bijection(1 .. N, S)
    BY <1>1 DEF ExistsBijection
  <1>3. f \in [1 .. N -> S] /\ IsInjective(f)
    BY <1>2 DEF Bijection, Injection, IsInjective
  <1>4. SetToSeq(S) \in [1 .. N -> S] /\ IsInjective(SetToSeq(S))
    BY <1>3 DEF SetToSeq
  <1>5. SetToSeq(S) \in Seq(S) /\ DOMAIN SetToSeq(S) = 1 .. N
    BY <1>1, <1>4
  <1>6. SetToSeq(S) \in Injection(1 .. N, S)
    BY <1>4, <1>5 DEF Injection, IsInjective
  <1>7. Cardinality(1 .. N) = N
    BY <1>1, FS_Interval
  <1>8. SetToSeq(S) \in Surjection(1 .. N, S)
    BY <1>6, <1>7, FS_Injection
  <1> QED
    BY <1>5, <1>8 DEF Surjection

LEMMA StoresAndLoads ==
    ASSUME NEW map \in Map, NEW V, V \subseteq Mapped(map)
    PROVE  IsStores(Unload(V, map), V, map) /\ IsLoads(Load(V, map), V, map)
  <1>1. V \subseteq VReg /\ IsFiniteSet(V) /\ \A v \in V : map[v] \in HReg
    BY RegisterAssumption, FS_Subset DEF Mapped, Map
  <1> DEFINE U == {Ureg(v, map[v]) : v \in V}
             L == {Lreg(v, map[v]) : v \in V}
  <1>2. /\ \A x \in U : x.move = "UREG" /\ x.v \in V /\ x.h = map[x.v]
        /\ \A v \in V : Ureg(v, map[v]) \in U /\ Saves(Ureg(v, map[v]), v)
    BY DEF Ureg, Saves
  <1>3. /\ \A x \in L : x.move = "LREG" /\ x.v \in V /\ x.h = map[x.v]
        /\ \A v \in V : Lreg(v, map[v]) \in L
    BY DEF Lreg
  <1>4. IsFiniteSet(U) /\ IsFiniteSet(L)
    <2>1. [v \in V |-> Ureg(v, map[v])] \in Surjection(V, U)
      BY DEF Surjection
    <2>2. [v \in V |-> Lreg(v, map[v])] \in Surjection(V, L)
      BY DEF Surjection
    <2> HIDE DEF U, L
    <2> QED
      BY <2>1, <2>2, <1>1, FS_Surjection
  <1>5. Unload(V, map) = SetToSeq(U) /\ Load(V, map) = SetToSeq(L)
    BY DEF Unload, Load
  <1> HIDE DEF U, L
  <1>6. /\ \A i \in DOMAIN SetToSeq(U) : SetToSeq(U)[i] \in U
        /\ \A x \in U : \E i \in DOMAIN SetToSeq(U) : SetToSeq(U)[i] = x
    BY <1>4, WholeList, ElementOfSeq, LenProperties
  <1>7. /\ \A i \in DOMAIN SetToSeq(L) : SetToSeq(L)[i] \in L
        /\ \A x \in L : \E i \in DOMAIN SetToSeq(L) : SetToSeq(L)[i] = x
    BY <1>4, WholeList, ElementOfSeq, LenProperties
  <1>8. IsStores(SetToSeq(U), V, map)
    <2>1. SetToSeq(U) \in Seq(Move)
      BY <1>5, MovesTyped
    <2> QED
      BY <2>1, <1>2, <1>6 DEF IsStores
  <1>9. IsLoads(SetToSeq(L), V, map)
    <2>1. SetToSeq(L) \in Seq(Move)
      BY <1>5, MovesTyped
    <2> QED
      BY <2>1, <1>3, <1>7 DEF IsLoads
  <1> QED
    BY <1>5, <1>8, <1>9

(* Nothing to be done. *)
LEMMA ReadyNow ==
    ASSUME NEW map, NEW L, NEW S, NEW R, NEW I
    PROVE  Ready(<<>>, map, L, S, R, I) <=>
             \A v \in L : /\ map[v] # NoReg => v \in R[map[v]]
                          /\ map[v] = NoReg \/ v \in S => v \in I
  BY DEF Ready, Arrive, Stay, StoresRight, LoadsRight, Fits, Untouched

LEMMA ReadyMonotone ==
    ASSUME NEW m \in Seq(Move), NEW map \in Map, NEW L, NEW S, NEW R, NEW I, NEW R2, NEW I2,
           NEW K, NEW T, Ready(m, map, L, S, R, I), K \subseteq L, T \subseteq S,
           \A h \in HReg : R[h] \cap K \subseteq R2[h], I \cap K \subseteq I2,
           K \subseteq VReg
    PROVE  Ready(m, map, K, T, R2, I2)
  <1>1. \A j \in DOMAIN m : m[j].h \in HReg
    <2>1. \A j \in DOMAIN m : m[j] \in Move
      BY ElementOfSeq, LenProperties
    <2> QED
      BY <2>1 DEF Move
  <1>2. Arrive(m, map, K, R2)
    BY <1>1 DEF Ready, Arrive, Map
  <1>3. Stay(m, map, K, T, I2)
    BY DEF Ready, Stay
  <1>4. StoresRight(m, K, R2)
    BY <1>1 DEF Ready, StoresRight
  <1>5. LoadsRight(m, K, I2)
    BY DEF Ready, LoadsRight
  <1> QED
    BY <1>2, <1>3, <1>4, <1>5 DEF Ready

(* Stores forget what need not stay in registers. *)
LEMMA StoresReady ==
    ASSUME NEW map \in Map, NEW V, V \subseteq Mapped(map), NEW m, IsStores(m, V, map),
           NEW gone, NEW L, NEW S, L \subseteq VReg,
           L \cap gone \cap Mapped(map) \subseteq V, L \cap S \cap Mapped(map) \subseteq V
    PROVE  Ready(m, Without(map, gone), L, S, Held(map), Stored(map))
  <1>1. \A h \in HReg, n \in Int : Untouched(m, n, h)
    BY DEF Untouched, IsStores, WritesTo
  <1>2. \A v \in VReg : map[v] # NoReg => map[v] \in HReg /\ v \in Held(map)[map[v]]
    BY DEF Map, Held, Owners
  <1>3. Len(m) \in Nat
    BY LenProperties DEF IsStores
  <1>4. Arrive(m, Without(map, gone), L, Held(map))
    BY <1>1, <1>2, <1>3 DEF Arrive, Without
  <1>5. Stay(m, Without(map, gone), L, S, Stored(map))
    BY DEF Stay, Without, IsStores, Stored, Mapped
  <1>6. \A j \in DOMAIN m : j \in Int
    BY LenProperties DEF IsStores
  <1>7. StoresRight(m, L, Held(map))
    BY <1>1, <1>2, <1>6 DEF StoresRight, IsStores, Mapped
  <1>8. LoadsRight(m, L, Stored(map)) /\ Fits(m, Without(map, gone))
    BY DEF LoadsRight, Fits, IsStores
  <1> QED
    BY <1>4, <1>5, <1>7, <1>8 DEF Ready

(* Loads bring what is in memory to registers of its own. *)
LEMMA LoadsReady ==
    ASSUME NEW from \in Map, NEW map \in Map, Clean(map), NEW V, V \subseteq Mapped(map),
           NEW m, IsLoads(m, V, map), NEW L, L \subseteq VReg,
           \A v \in L : IF v \in V THEN from[v] = NoReg ELSE from[v] = map[v]
    PROVE  Ready(m, map, L, {}, Held(from), Stored(from))
  <1>1. \A v \in VReg : from[v] # NoReg => from[v] \in HReg /\ v \in Held(from)[from[v]]
    BY DEF Map, Held, Owners
  <1>2. ASSUME NEW v \in L, v \notin V, map[v] # NoReg
        PROVE  Untouched(m, Len(m) + 1, map[v])
    <2>1. Owners(map, map[v]) = {v}
      BY <1>2 DEF Clean, Mapped
    <2>2. \A u \in V : map[u] # map[v]
      BY <2>1, <1>2 DEF Owners, Mapped
    <2> QED
      BY <2>2 DEF Untouched, IsLoads, WritesTo
  <1>3. Arrive(m, map, L, Held(from))
    BY <1>1, <1>2 DEF Arrive, IsLoads
  <1>4. Stay(m, map, L, {}, Stored(from))
    BY DEF Stay, Stored, Mapped
  <1>5. StoresRight(m, L, Held(from)) /\ Fits(m, map)
    BY DEF StoresRight, Fits, IsLoads
  <1>6. LoadsRight(m, L, Stored(from))
    BY DEF LoadsRight, IsLoads, Stored, Mapped
  <1> QED
    BY <1>3, <1>4, <1>5, <1>6 DEF Ready

(* Moves one after the other.  What the later ones store is not loaded by  *)
(* the earlier ones, and what those load is not put out.                   *)
LEMMA ReadyThen ==
    ASSUME NEW m \in Seq(Move), NEW n \in Seq(Move), NEW mid \in Map, NEW map \in Map,
           NEW L, NEW S, NEW T, NEW R, NEW I, L \subseteq VReg,
           Ready(m, mid, L, S, R, I), Ready(n, map, L, T, Held(mid), Stored(mid)),
           \A j \in DOMAIN n : n[j].move # "RENAMEREG",
           \A j \in DOMAIN m, k \in DOMAIN n :
              n[k].move = "UREG" /\ n[k].v \in L =>
                /\ m[j].move = "LREG" => m[j].v # n[k].v
                /\ m[j].move = "RENAMEREG" => m[j].to # n[k].h,
           \A j \in DOMAIN m : m[j].move = "LREG" => map[m[j].v] = mid[m[j].v]
    PROVE  Ready(m \o n, map, L, S \cup T, R, I)
  <1> DEFINE mn == m \o n
  <1>1. /\ Len(m) \in Nat /\ Len(n) \in Nat /\ Len(mn) = Len(m) + Len(n)
        /\ DOMAIN m = 1 .. Len(m) /\ DOMAIN n = 1 .. Len(n)
        /\ DOMAIN mn = 1 .. Len(m) + Len(n)
        /\ \A j \in DOMAIN mn : mn[j] = IF j <= Len(m) THEN m[j] ELSE n[j - Len(m)]
    BY ConcatProperties, LenProperties
  <1>2. /\ \A j \in DOMAIN m : j \in DOMAIN mn /\ mn[j] = m[j]
        /\ \A j \in DOMAIN n : Len(m) + j \in DOMAIN mn /\ mn[Len(m) + j] = n[j]
        /\ \A j \in DOMAIN mn : \/ j \in DOMAIN m /\ mn[j] = m[j]
                                \/ /\ j > Len(m) /\ j - Len(m) \in DOMAIN n
                                   /\ mn[j] = n[j - Len(m)]
    BY <1>1
  <1>3. /\ \A j \in DOMAIN m : m[j] \in Move
        /\ \A j \in DOMAIN n : n[j] \in Move
    BY ElementOfSeq, LenProperties
  <1> HIDE DEF mn
  <1>4. ASSUME NEW h, NEW k \in DOMAIN n, Untouched(m, Len(m) + 1, h), Untouched(n, k, h)
        PROVE  Untouched(mn, Len(m) + k, h)
    BY <1>1, <1>2, <1>4 DEF Untouched
  <1>5. ASSUME NEW h, Untouched(m, Len(m) + 1, h), Untouched(n, Len(n) + 1, h)
        PROVE  Untouched(mn, Len(mn) + 1, h)
    BY <1>1, <1>2, <1>5 DEF Untouched
  <1>6. ASSUME NEW v \in VReg, NEW h \in HReg, v \in Held(mid)[h]
        PROVE  mid[v] = h /\ mid[v] # NoReg
    BY <1>6, RegisterAssumption DEF Held, Owners
  <1>7. Arrive(mn, map, L, R)
    <2> SUFFICES ASSUME NEW v \in L, map[v] # NoReg
                 PROVE  \/ v \in R[map[v]] /\ Untouched(mn, Len(mn) + 1, map[v])
                        \/ \E j \in DOMAIN mn : mn[j] = Lreg(v, map[v])
                        \/ \E j \in DOMAIN mn : /\ j = 1 /\ mn[j].move = "RENAMEREG"
                                                /\ mn[j].to = map[v] /\ v \in R[mn[j].h]
      BY DEF Arrive
    <2>1. map[v] \in HReg
      BY DEF Map
    <2>2. \/ v \in Held(mid)[map[v]] /\ Untouched(n, Len(n) + 1, map[v])
          \/ \E j \in DOMAIN n : n[j] = Lreg(v, map[v])
      BY DEF Ready, Arrive
    <2>3. CASE \E j \in DOMAIN n : n[j] = Lreg(v, map[v])
      BY <2>3, <1>2
    <2>4. CASE v \in Held(mid)[map[v]] /\ Untouched(n, Len(n) + 1, map[v])
      <3>1. mid[v] = map[v] /\ mid[v] # NoReg
        BY <2>1, <2>4, <1>6
      <3>2. \/ v \in R[mid[v]] /\ Untouched(m, Len(m) + 1, mid[v])
            \/ \E j \in DOMAIN m : m[j] = Lreg(v, mid[v])
            \/ \E j \in DOMAIN m : /\ j = 1 /\ m[j].move = "RENAMEREG"
                                   /\ m[j].to = mid[v] /\ v \in R[m[j].h]
        BY <3>1 DEF Ready, Arrive
      <3> QED
        BY <3>1, <3>2, <2>4, <1>2, <1>5
    <2> QED
      BY <2>2, <2>3, <2>4
  <1>8. Stay(mn, map, L, S \cup T, I)
    <2> SUFFICES ASSUME NEW v \in L, map[v] = NoReg \/ v \in S \cup T
                 PROVE  v \in I \/ \E j \in DOMAIN mn : Saves(mn[j], v)
      BY DEF Stay
    <2>1. CASE v \in S
      BY <2>1, <1>2 DEF Ready, Stay
    <2>2. CASE v \notin S
      <3>1. v \in Stored(mid) \/ \E j \in DOMAIN n : Saves(n[j], v)
        BY <2>2 DEF Ready, Stay
      <3>2. CASE v \in Stored(mid)
        <4>1. mid[v] = NoReg
          BY <3>2 DEF Stored, Mapped
        <4> QED
          BY <4>1, <1>2 DEF Ready, Stay
      <3> QED
        BY <3>1, <3>2, <1>2
    <2> QED
      BY <2>1, <2>2
  <1>9. StoresRight(mn, L, R)
    <2> SUFFICES ASSUME NEW j \in DOMAIN mn, mn[j].move = "UREG", mn[j].v \in L
                 PROVE  mn[j].v \in R[mn[j].h] /\ Untouched(mn, j, mn[j].h)
      BY DEF StoresRight
    <2>1. CASE j \in DOMAIN m /\ mn[j] = m[j]
      <3>1. m[j].v \in R[m[j].h] /\ Untouched(m, j, m[j].h)
        BY <2>1 DEF Ready, StoresRight
      <3>2. Untouched(mn, j, m[j].h)
        BY <3>1, <2>1, <1>1, <1>2 DEF Untouched
      <3> QED
        BY <3>1, <3>2, <2>1
    <2>2. CASE j > Len(m) /\ j - Len(m) \in DOMAIN n /\ mn[j] = n[j - Len(m)]
      <3> DEFINE k == j - Len(m)
                 v == n[k].v
                 h == n[k].h
      <3>1. v \in Held(mid)[h] /\ Untouched(n, k, h) /\ h \in HReg
        BY <2>2, <1>3 DEF Ready, StoresRight, Move
      <3>2. mid[v] = h /\ mid[v] # NoReg /\ v \in L
        BY <3>1, <2>2, <1>6
      <3>3. \A i \in DOMAIN m : m[i] # Lreg(v, h) /\ (m[i].move = "RENAMEREG" => m[i].to # h)
        BY <2>2 DEF Lreg
      <3>4. v \in R[h] /\ Untouched(m, Len(m) + 1, h)
        BY <3>2, <3>3 DEF Ready, Arrive
      <3>5. Untouched(mn, Len(m) + k, h)
        BY <3>1, <3>4, <2>2, <1>4
      <3>6. Len(m) + k = j
        BY <1>1, <2>2
      <3> QED
        BY <3>4, <3>5, <3>6, <2>2
    <2> QED
      BY <2>1, <2>2, <1>2
  <1>10. LoadsRight(mn, L, I)
    <2> SUFFICES ASSUME NEW j \in DOMAIN mn, mn[j].move = "LREG", mn[j].v \in L
                 PROVE  mn[j].v \in I \/ \E k \in DOMAIN mn : k < j /\ Saves(mn[k], mn[j].v)
      BY DEF LoadsRight
    <2>1. CASE j \in DOMAIN m /\ mn[j] = m[j]
      BY <2>1, <1>2 DEF Ready, LoadsRight
    <2>2. CASE j > Len(m) /\ j - Len(m) \in DOMAIN n /\ mn[j] = n[j - Len(m)]
      <3> DEFINE v == n[j - Len(m)].v
      <3>1. \/ v \in Stored(mid)
            \/ \E k \in DOMAIN n : k < j - Len(m) /\ Saves(n[k], v)
        BY <2>2 DEF Ready, LoadsRight
      <3>2. CASE v \in Stored(mid)
        <4>1. mid[v] = NoReg
          BY <3>2 DEF Stored, Mapped
        <4>2. v \in I \/ \E k \in DOMAIN m : Saves(m[k], v)
          BY <4>1, <2>2 DEF Ready, Stay
        <4>3. \A k \in DOMAIN m : k < j
          BY <1>1, <2>2
        <4> QED
          BY <4>2, <4>3, <2>2, <1>2
      <3>3. CASE \E k \in DOMAIN n : k < j - Len(m) /\ Saves(n[k], v)
        <4>1. PICK k \in DOMAIN n : k < j - Len(m) /\ Saves(n[k], v)
          BY <3>3
        <4>2. Len(m) + k \in DOMAIN mn /\ mn[Len(m) + k] = n[k] /\ Len(m) + k < j
          BY <4>1, <1>1, <1>2
        <4> QED
          BY <4>1, <4>2, <2>2
      <3> QED
        BY <3>1, <3>2, <3>3
    <2> QED
      BY <2>1, <2>2, <1>2
  <1>11. Fits(mn, map)
    BY <1>1, <1>2 DEF Ready, Fits
  <1> QED
    BY <1>7, <1>8, <1>9, <1>10, <1>11 DEF Ready, mn

(* One move done: the others are ready in the state it leaves. *)
LEMMA TailFacts ==
    ASSUME NEW m \in Seq(Move), m # <<>>
    PROVE  /\ Head(m) = m[1] /\ 1 \in DOMAIN m /\ m[1] \in Move
           /\ Tail(m) \in Seq(Move) /\ Len(Tail(m)) = Len(m) - 1
           /\ \A j \in DOMAIN Tail(m) : j + 1 \in DOMAIN m /\ Tail(m)[j] = m[j + 1]
           /\ \A j \in DOMAIN m : j = 1 \/ (j - 1 \in DOMAIN Tail(m) /\ Tail(m)[j - 1] = m[j])
           /\ \A j \in DOMAIN m : j \in Nat \ {0} /\ j <= Len(m)
           /\ \A j \in DOMAIN Tail(m) : j \in Nat \ {0}
  <1>1. /\ Len(m) \in Nat \ {0} /\ DOMAIN m = 1 .. Len(m)
        /\ Tail(m) \in Seq(Move) /\ Len(Tail(m)) = Len(m) - 1
        /\ DOMAIN Tail(m) = 1 .. Len(m) - 1
        /\ \A j \in 1 .. Len(m) - 1 : Tail(m)[j] = m[j + 1]
    BY HeadTailProperties, LenProperties, EmptySeq
  <1>2. m[1] \in Move /\ Head(m) = m[1]
    BY <1>1, ElementOfSeq
  <1> QED
    BY <1>1, <1>2

LEMMA UntouchedTail ==
    ASSUME NEW m \in Seq(Move), m # <<>>, NEW h
    PROVE  /\ \A j \in DOMAIN Tail(m) :
                 Untouched(m, j + 1, h) => Untouched(Tail(m), j, h) /\ ~WritesTo(m[1], h)
           /\ Untouched(m, Len(m) + 1, h) =>
                 Untouched(Tail(m), Len(Tail(m)) + 1, h) /\ ~WritesTo(m[1], h)
           /\ (\A j \in DOMAIN Tail(m) : ~WritesTo(Tail(m)[j], h)) =>
                 Untouched(Tail(m), Len(Tail(m)) + 1, h)
  <1>1. ASSUME NEW j \in DOMAIN Tail(m), Untouched(m, j + 1, h)
        PROVE  Untouched(Tail(m), j, h) /\ ~WritesTo(m[1], h)
    <2>1. 1 < j + 1 /\ 1 \in DOMAIN m
      BY TailFacts
    <2>2. ASSUME NEW k \in DOMAIN Tail(m), k < j PROVE ~WritesTo(Tail(m)[k], h)
      <3>1. k + 1 \in DOMAIN m /\ k + 1 < j + 1 /\ Tail(m)[k] = m[k + 1]
        BY <2>2, TailFacts
      <3> QED
        BY <3>1, <1>1 DEF Untouched
    <2> QED
      BY <2>1, <2>2, <1>1 DEF Untouched
  <1>2. ASSUME Untouched(m, Len(m) + 1, h)
        PROVE  Untouched(Tail(m), Len(Tail(m)) + 1, h) /\ ~WritesTo(m[1], h)
    <2>1. 1 < Len(m) + 1 /\ 1 \in DOMAIN m
      BY TailFacts, LenProperties, EmptySeq
    <2>2. ASSUME NEW k \in DOMAIN Tail(m) PROVE ~WritesTo(Tail(m)[k], h)
      <3>1. k + 1 \in DOMAIN m /\ k + 1 < Len(m) + 1 /\ Tail(m)[k] = m[k + 1]
        BY TailFacts, LenProperties
      <3> QED
        BY <3>1, <1>2 DEF Untouched
    <2> QED
      BY <2>1, <2>2, <1>2 DEF Untouched
  <1> QED
    BY <1>1, <1>2 DEF Untouched

LEMMA HeadCurrent ==
    ASSUME NEW m \in Seq(Move), m # <<>>, NEW map, NEW L, NEW S, NEW R, NEW I,
           Ready(m, map, L, S, R, I)
    PROVE  /\ Head(m).move = "UREG" /\ Head(m).v \in L => Head(m).v \in R[Head(m).h]
           /\ Head(m).move = "LREG" /\ Head(m).v \in L => Head(m).v \in I
  <1>1. Head(m) = m[1] /\ 1 \in DOMAIN m /\ \A j \in DOMAIN m : ~(j < 1)
    BY TailFacts
  <1> QED
    BY <1>1 DEF Ready, StoresRight, LoadsRight

LEMMA TailReady ==
    ASSUME NEW m \in Seq(Move), m # <<>>, NEW map \in Map, Clean(map),
           NEW L, L \subseteq VReg, NEW S,
           NEW R \in [HReg -> SUBSET VReg], NEW I, Ready(m, map, L, S, R, I),
           NEW R2, NEW I2,
           \/ /\ m[1].move = "UREG" /\ R2 = R
              /\ I2 = IF m[1].v \in R[m[1].h] THEN I \cup {m[1].v} ELSE I \ {m[1].v}
           \/ /\ m[1].move = "LREG" /\ I2 = I
              /\ R2 = [R EXCEPT ![m[1].h] = {m[1].v} \cap I]
           \/ /\ m[1].move = "RENAMEREG" /\ I2 = I
              /\ R2 = [R EXCEPT ![m[1].to] = R[m[1].h]]
    PROVE  Ready(Tail(m), map, L, S, R2, I2)
  <1> DEFINE t == Tail(m)
  <1>1. /\ 1 \in DOMAIN m /\ m[1] \in Move
        /\ \A j \in DOMAIN t : j + 1 \in DOMAIN m /\ t[j] = m[j + 1]
        /\ \A j \in DOMAIN m : j = 1 \/ (j - 1 \in DOMAIN t /\ t[j - 1] = m[j])
        /\ \A j \in DOMAIN m : j \in Nat \ {0}
        /\ \A j \in DOMAIN t : j \in Nat \ {0}
        /\ \A j \in DOMAIN m : m[j] \in Move
    BY TailFacts, ElementOfSeq, LenProperties
  <1>2. /\ Arrive(m, map, L, R) /\ Stay(m, map, L, S, I) /\ StoresRight(m, L, R)
        /\ LoadsRight(m, L, I) /\ Fits(m, map)
    BY DEF Ready
  <1>3. \A h \in HReg : ~WritesTo(m[1], h) => R2[h] = R[h]
    BY DEF WritesTo
  <1>4. \A v \in L : ~Saves(m[1], v) => (v \in I <=> v \in I2)
    BY DEF Saves
  <1>5. \A v \in L : Saves(m[1], v) => v \in I2
    BY <1>1, <1>2 DEF Saves, StoresRight
  <1>6. ASSUME NEW v \in L, NEW h \in HReg, map[v] = h,
               m[1].move = "LREG", m[1].v = v, m[1].h = h
        PROVE  v \in R2[h]
    <2>1. \A k \in DOMAIN m : ~(k < 1)
      BY <1>1
    <2>2. v \in I
      BY <2>1, <1>1, <1>2, <1>6 DEF LoadsRight
    <2> QED
      BY <2>2, <1>6
  <1>7. ASSUME NEW v \in VReg, map[v] # NoReg,
               NEW j \in DOMAIN t, WritesTo(t[j], map[v])
        PROVE  t[j] = Lreg(v, map[v])
    <2>1. j + 1 \in DOMAIN m /\ t[j] = m[j + 1] /\ j + 1 # 1 /\ t[j] \in Move
      BY <1>1
    <2>2. t[j].move = "LREG" /\ t[j].h = map[v] /\ map[t[j].v] = t[j].h
      BY <2>1, <1>2, <1>7 DEF Fits, WritesTo
    <2>3. t[j].v \in VReg /\ t[j] = Lreg(t[j].v, t[j].h)
      BY <2>1, <2>2 DEF Move, Lreg
    <2>4. t[j].v = v
      BY <2>2, <2>3, <1>7 DEF Clean, Mapped, Owners
    <2> QED
      BY <2>2, <2>3, <2>4
  <1>8. ASSUME NEW v \in L, map[v] # NoReg, v \in R2[map[v]]
        PROVE  \/ v \in R2[map[v]] /\ Untouched(t, Len(t) + 1, map[v])
               \/ \E j \in DOMAIN t : t[j] = Lreg(v, map[v])
    <2>1. CASE \A j \in DOMAIN t : ~WritesTo(t[j], map[v])
      BY <2>1, <1>8, UntouchedTail
    <2>2. CASE \E j \in DOMAIN t : WritesTo(t[j], map[v])
      BY <2>2, <1>7, <1>8
    <2> QED
      BY <2>1, <2>2
  <1>9. Arrive(t, map, L, R2)
    <2> SUFFICES ASSUME NEW v \in L, map[v] # NoReg
                 PROVE  \/ v \in R2[map[v]] /\ Untouched(t, Len(t) + 1, map[v])
                        \/ \E j \in DOMAIN t : t[j] = Lreg(v, map[v])
      BY DEF Arrive
    <2>0. map[v] \in HReg
      BY DEF Map
    <2>1. CASE v \in R[map[v]] /\ Untouched(m, Len(m) + 1, map[v])
      BY <2>0, <2>1, <1>3, UntouchedTail
    <2>2. CASE \E j \in DOMAIN m : m[j] = Lreg(v, map[v])
      <3>1. PICK j \in DOMAIN m : m[j] = Lreg(v, map[v])
        BY <2>2
      <3>2. CASE j = 1
        <4>1. v \in R2[map[v]]
          BY <2>0, <3>1, <3>2, <1>6 DEF Lreg
        <4> QED
          BY <4>1, <1>8
      <3>3. CASE j # 1
        BY <3>1, <3>3, <1>1
      <3> QED
        BY <3>2, <3>3
    <2>3. CASE \E j \in DOMAIN m : /\ j = 1 /\ m[j].move = "RENAMEREG"
                                   /\ m[j].to = map[v] /\ v \in R[m[j].h]
      <3>1. v \in R2[map[v]]
        BY <2>0, <2>3
      <3> QED
        BY <3>1, <1>8
    <2> QED
      BY <2>1, <2>2, <2>3, <1>2 DEF Arrive
  <1>10. Stay(t, map, L, S, I2)
    <2> SUFFICES ASSUME NEW v \in L, map[v] = NoReg \/ v \in S
                 PROVE  v \in I2 \/ \E j \in DOMAIN t : Saves(t[j], v)
      BY DEF Stay
    <2>1. v \in I \/ \E j \in DOMAIN m : Saves(m[j], v)
      BY <1>2 DEF Stay
    <2> QED
      BY <2>1, <1>1, <1>4, <1>5
  <1>11. StoresRight(t, L, R2)
    <2> SUFFICES ASSUME NEW j \in DOMAIN t, t[j].move = "UREG", t[j].v \in L
                 PROVE  t[j].v \in R2[t[j].h] /\ Untouched(t, j, t[j].h)
      BY DEF StoresRight
    <2>1. j + 1 \in DOMAIN m /\ t[j] = m[j + 1] /\ t[j].h \in HReg
      BY <1>1 DEF Move
    <2>2. t[j].v \in R[t[j].h] /\ Untouched(m, j + 1, t[j].h)
      BY <2>1, <1>2 DEF StoresRight
    <2> QED
      BY <2>1, <2>2, <1>3, UntouchedTail
  <1>12. LoadsRight(t, L, I2)
    <2> SUFFICES ASSUME NEW j \in DOMAIN t, t[j].move = "LREG", t[j].v \in L
                 PROVE  t[j].v \in I2 \/ \E k \in DOMAIN t : k < j /\ Saves(t[k], t[j].v)
      BY DEF LoadsRight
    <2>1. j + 1 \in DOMAIN m /\ t[j] = m[j + 1]
      BY <1>1
    <2>2. t[j].v \in I \/ \E k \in DOMAIN m : k < j + 1 /\ Saves(m[k], t[j].v)
      BY <2>1, <1>2 DEF LoadsRight
    <2>3. CASE t[j].v \in I
      BY <2>3, <1>4, <1>5
    <2>4. CASE \E k \in DOMAIN m : k < j + 1 /\ Saves(m[k], t[j].v)
      <3>1. PICK k \in DOMAIN m : k < j + 1 /\ Saves(m[k], t[j].v)
        BY <2>4
      <3>2. CASE k = 1
        BY <3>1, <3>2, <1>5
      <3>3. CASE k # 1
        <4>1. k - 1 \in DOMAIN t /\ t[k - 1] = m[k] /\ k - 1 < j
          BY <3>1, <3>3, <1>1
        <4> QED
          BY <4>1, <3>1
      <3> QED
        BY <3>2, <3>3
    <2> QED
      BY <2>2, <2>3, <2>4
  <1>13. Fits(t, map)
    BY <1>1, <1>2 DEF Fits
  <1> QED
    BY <1>9, <1>10, <1>11, <1>12, <1>13 DEF Ready, Arrive

-----------------------------------------------------------------------------
(* Liveness: LiveIn, a recursive function, solves the equations.           *)

LiveEqs ==
    \A o \in Ops :
        /\ live_in[o] = prog[o].use \cup (live_out[o] \ prog[o].def)
        /\ live_out[o] = UNION {live_in[s] : s \in Succ(prog, o)}

UsesOf == [o \in Ops |-> prog[o].use]
DefsOf == [o \in Ops |-> prog[o].def]
SuccsOf == [o \in Ops |-> Succ(prog, o)]

LEMMA SuccFacts ==
    ASSUME WellFormed(prog)
    PROVE  /\ Len(prog) \in Nat /\ Ops = 1 .. Len(prog)
           /\ UsesOf \in [1 .. Len(prog) -> SUBSET VReg]
           /\ SuccsOf \in [1 .. Len(prog) -> SUBSET (1 .. Len(prog))]
  <1>1. Len(prog) \in Nat \ {0} /\ Ops = 1 .. Len(prog)
    BY ProgFacts DEF WellFormed
  <1>2. \A o \in Ops : Succ(prog, o) \subseteq Ops
    BY <1>1, ProgFacts DEF WellFormed, JumpsFormed, Succ, Ops, Branches
  <1>3. \A o \in Ops : prog[o].use \in SUBSET VReg
    BY ProgFacts DEF Op
  <1> QED
    BY <1>1, <1>2, <1>3 DEF UsesOf, SuccsOf

LEMMA LiveInIsChain ==
    ASSUME WellFormed(prog)
    PROVE  \E R : /\ ReadChain(R, Len(prog), UsesOf, DefsOf, SuccsOf)
                  /\ LiveIn(prog) = [o \in Ops |-> VReg \cap R[Len(prog)][o]]
  <1> DEFINE N == Len(prog)
             Defined(R) == R = [k \in 0 .. N |->
               IF k = 0 THEN [o \in DOMAIN prog |-> prog[o].use]
               ELSE [o \in DOMAIN prog |-> prog[o].use \cup
                       ((UNION {R[k - 1][s] : s \in Succ(prog, o)}) \ prog[o].def)]]
             R == CHOOSE R : Defined(R)
  <1>1. \A r : ReadStep(N, UsesOf, DefsOf, SuccsOf, r) =
                 [o \in DOMAIN prog |-> prog[o].use \cup
                    ((UNION {r[s] : s \in Succ(prog, o)}) \ prog[o].def)]
    BY SuccFacts DEF ReadStep, UsesOf, DefsOf, SuccsOf, Ops
  <1>2. ASSUME NEW Q PROVE IsReads(Q, N, UsesOf, DefsOf, SuccsOf) <=> Defined(Q)
    <2>1. ASSUME NEW k \in 0 .. N
          PROVE  (IF k = 0 THEN UsesOf ELSE ReadStep(N, UsesOf, DefsOf, SuccsOf, Q[k - 1])) =
                 (IF k = 0 THEN [o \in DOMAIN prog |-> prog[o].use]
                  ELSE [o \in DOMAIN prog |-> prog[o].use \cup
                          ((UNION {Q[k - 1][s] : s \in Succ(prog, o)}) \ prog[o].def)])
      BY <1>1, Zenon DEF UsesOf, Ops
    <2> QED
      BY <2>1, Zenon DEF IsReads
  <1>3. \E Q : Defined(Q)
    <2>1. N \in Nat /\ UsesOf \in [1 .. N -> SUBSET VReg] /\ SuccsOf \in [1 .. N -> SUBSET (1 .. N)]
      BY SuccFacts
    <2> HIDE DEF N
    <2>2. \E Q : IsReads(Q, N, UsesOf, DefsOf, SuccsOf)
      BY <2>1, ReadsExist
    <2> QED
      BY <1>2, <2>2
  <1>4. LiveIn(prog) = [o \in Ops |-> VReg \cap R[N][o]]
    BY DEF LiveIn, Ops
  <1>5. Defined(R)
    <2> HIDE DEF Defined
    <2> QED
      BY <1>3
  <1>6. ReadChain(R, N, UsesOf, DefsOf, SuccsOf)
    <2>1. IsReads(R, N, UsesOf, DefsOf, SuccsOf)
      BY <1>2, <1>5
    <2> HIDE DEF R
    <2> QED
      BY <2>1, SuccFacts, ReadsAreChain
  <1> QED
    BY <1>4, <1>6

LEMMA LiveInSolves ==
    ASSUME WellFormed(prog), live_in = LiveIn(prog), live_out = LiveOut(prog)
    PROVE  LiveEqs
  <1> DEFINE N == Len(prog)
  <1>1. PICK R : /\ ReadChain(R, N, UsesOf, DefsOf, SuccsOf)
                 /\ LiveIn(prog) = [o \in Ops |-> VReg \cap R[N][o]]
    BY LiveInIsChain
  <1>2. R[N] \in [1 .. N -> SUBSET VReg]
    BY <1>1, SuccFacts, ReadChainTyped
  <1>3. R[N] = ReadStep(N, UsesOf, DefsOf, SuccsOf, R[N])
    <2>1. /\ N \in Nat /\ UsesOf \in [1 .. N -> SUBSET VReg]
          /\ SuccsOf \in [1 .. N -> SUBSET (1 .. N)]
      BY SuccFacts
    <2>2. ReadChain(R, N, UsesOf, DefsOf, SuccsOf)
      BY <1>1
    <2> HIDE DEF N
    <2> QED
      BY <2>1, <2>2, ReadChainSettles
  <1>4. \A o \in Ops : live_in[o] = R[N][o]
    BY <1>1, <1>2, SuccFacts
  <1>5. \A o \in Ops : live_out[o] = UNION {live_in[s] : s \in Succ(prog, o)}
    BY DEF LiveOut, Ops
  <1>6. ASSUME NEW o \in Ops
        PROVE  live_in[o] = prog[o].use \cup (live_out[o] \ prog[o].def)
    <2>1. o \in 1 .. N /\ Succ(prog, o) \subseteq Ops
      BY SuccFacts DEF SuccsOf
    <2>2. R[N][o] = UsesOf[o] \cup ((UNION {R[N][s] : s \in SuccsOf[o]}) \ DefsOf[o])
      BY <1>3, <2>1 DEF ReadStep
    <2>3. SuccsOf[o] = Succ(prog, o)
      BY <2>1 DEF SuccsOf
    <2>4. live_out[o] = UNION {live_in[s] : s \in SuccsOf[o]} /\ SuccsOf[o] \subseteq Ops
      BY <1>5, <2>1, <2>3
    <2> DEFINE r == R[N]
    <2>5. \A s \in Ops : live_in[s] = r[s]
      BY <1>4
    <2> HIDE DEF r
    <2>6. \A v : v \in UNION {r[s] : s \in SuccsOf[o]} <=> v \in live_out[o]
      BY <2>4, <2>5
    <2>7. UNION {r[s] : s \in SuccsOf[o]} = live_out[o]
      BY <2>6
    <2> QED
      BY <1>4, <2>2, <2>7 DEF UsesOf, DefsOf, r
  <1> QED
    BY <1>5, <1>6 DEF LiveEqs

-----------------------------------------------------------------------------
(* Calls: PREPARE, PUTARGs and CALL are next to each other.                *)

CallAt(p, q, c) ==
    /\ q < c /\ p[q].kind = "PREPARE" /\ p[c].kind = "CALL"
    /\ \A k \in (q + 1) .. (c - 1) : p[k].kind \in {"PUTARG", "FPUTARG"}

LEMMA CallExists ==
    ASSUME NEW p, WellFormed(p), NEW q \in DOMAIN p, p[q].kind = "PREPARE"
    PROVE  \E c \in DOMAIN p : CallAt(p, q, c)
  <1> DEFINE T == {k \in (q + 1) .. Len(p) : p[k].kind \notin {"PUTARG", "FPUTARG"}}
  <1>1. Len(p) \in Nat \ {0} /\ DOMAIN p = 1 .. Len(p)
    BY LenProperties DEF WellFormed
  <1>2. p[Len(p)].kind \in {"RET", "JMPI", "JMPR"} /\ \A o \in DOMAIN p : CallsFormed(p, o)
    BY DEF WellFormed
  <1>3. T \subseteq Nat /\ Len(p) \in T
    BY <1>1, <1>2
  <1>4. PICK c \in T : \A k \in T : c <= k
    BY <1>3, LeastElement
  <1>5. c \in DOMAIN p /\ c - 1 \in DOMAIN p /\ q < c /\ q <= c - 1 /\ c \in Nat /\ q \in Nat
    BY <1>1, <1>4
  <1>6. \A k \in (q + 1) .. (c - 1) : p[k].kind \in {"PUTARG", "FPUTARG"}
    BY <1>1, <1>4, <1>5
  <1>7. p[c - 1].kind \in {"PREPARE", "PUTARG", "FPUTARG"}
    BY <1>5, <1>6
  <1>8. p[c].kind = "CALL"
    <2>1. p[(c - 1) + 1].kind \in {"PUTARG", "FPUTARG", "CALL"}
      BY <1>2, <1>5, <1>7 DEF CallsFormed
    <2>2. (c - 1) + 1 = c /\ p[c].kind \notin {"PUTARG", "FPUTARG"}
      BY <1>4, <1>5
    <2> QED
      BY <2>1, <2>2
  <1> QED
    BY <1>5, <1>6, <1>8 DEF CallAt

LEMMA CallArgs ==
    ASSUME NEW p, NEW q \in Nat, NEW c \in Nat, CallAt(p, q, c), c <= Len(p), Len(p) \in Nat
    PROVE  /\ PutArgs(p, q) = [k \in 1 .. (c - q - 1) |-> q + k]
           /\ PrepareOf(p, c) = q \/ q = 0
  <1>1. ASSUME NEW b \in q .. Len(p), p[b].kind = "CALL",
               \A k \in q .. (b - 1) : p[k].kind # "CALL"
        PROVE  b = c
    BY <1>1 DEF CallAt
  <1>2. c \in q .. Len(p) /\ p[c].kind = "CALL" /\ \A k \in q .. (c - 1) : p[k].kind # "CALL"
    <2>1. \A k \in q .. (c - 1) : k = q \/ k \in (q + 1) .. (c - 1)
      OBVIOUS
    <2> QED
      BY <2>1 DEF CallAt
  <1>3. c = CHOOSE b \in q .. Len(p) : /\ p[b].kind = "CALL"
                                       /\ \A k \in q .. (b - 1) : p[k].kind # "CALL"
    BY <1>1, <1>2
  <1>4. ASSUME NEW b \in 1 .. c, p[b].kind = "PREPARE",
               \A k \in (b + 1) .. c : p[k].kind # "PREPARE"
        PROVE  b = q \/ q = 0
    BY <1>4 DEF CallAt
  <1>5. q # 0 => q \in 1 .. c /\ p[q].kind = "PREPARE"
                   /\ \A k \in (q + 1) .. c : p[k].kind # "PREPARE"
    <2>1. \A k \in (q + 1) .. c : k = c \/ k \in (q + 1) .. (c - 1)
      OBVIOUS
    <2> QED
      BY <2>1 DEF CallAt
  <1>6. PrepareOf(p, c) = q \/ q = 0
    BY <1>4, <1>5 DEF PrepareOf
  <1> QED
    BY <1>3, <1>6 DEF PutArgs

(* What a call passes does not depend on the operations turned into NOPs.  *)
LEMMA PassingSame ==
    ASSUME WellFormed(prog), WellFormed(prog'), Len(prog') = Len(prog),
           NEW o \in Ops, prog[o].kind = "PREPARE",
           \A k \in Ops : prog'[k].kind = prog[k].kind \/ (prog[k].kind = "GETARG" /\ prog'[k].kind = "NOP")
    PROVE  Passing(o)' = Passing(o)
  <1>1. Len(prog) \in Nat /\ Ops = 1 .. Len(prog) /\ Ops' = Ops /\ Ops = DOMAIN prog
    <2>1. DOMAIN prog' = 1 .. Len(prog')
      BY LenProperties DEF WellFormed
    <2> QED
      BY <2>1, ProgFacts DEF Ops
  <1>2. PICK c \in Ops : CallAt(prog, o, c)
    BY <1>1, CallExists
  <1>3. CallAt(prog', o, c)
    <2>1. \A k \in (o + 1) .. (c - 1) : k \in Ops
      BY <1>1
    <2> QED
      BY <2>1, <1>2 DEF CallAt
  <1> DEFINE A == [k \in 1 .. (c - o - 1) |-> o + k]
  <1>4. PutArgs(prog, o) = A /\ PutArgs(prog', o) = A
    BY <1>1, <1>2, <1>3, CallArgs
  <1>5. \A k \in ToSet(A) : k \in Ops /\ prog'[k].kind = prog[k].kind
    <2>1. \A k \in ToSet(A) : k \in (o + 1) .. (c - 1)
      BY <1>1 DEF ToSet
    <2>2. \A k \in (o + 1) .. (c - 1) : k \in Ops /\ prog[k].kind \in {"PUTARG", "FPUTARG"}
      BY <1>1, <1>2 DEF CallAt
    <2> QED
      BY <2>1, <2>2
  <1> HIDE DEF A
  <1>6. \A kind : {k \in ToSet(A) : prog'[k].kind = kind} = {k \in ToSet(A) : prog[k].kind = kind}
    BY <1>5
  <1>7. \A kind : ArgCount(prog', o, kind) = ArgCount(prog, o, kind)
    BY <1>4, <1>6 DEF ArgCount
  <1> QED
    BY <1>7 DEF Passing

-----------------------------------------------------------------------------
(* What the allocator has established for an operation it is done with.    *)

Placing == {"OP", "GETARG", "GETARG_CONV", "BRANCH", "OVERFLOW", "BMS", "JMPR",
            "REF_CODE", "RET"}

(* The operations no moves are put before. *)
Still == {"NOP", "CALL", "RETVAL", "FRETVAL", "PUTARG", "FPUTARG", "JMPI"}

Returning(map) == {v \in VReg : map[v] \in {RetReg, FpRetReg}}

(* The live values a NOP does not take over, and those that must also be   *)
(* in memory.                                                              *)
Needs(op, in) == IF op.kind = "NOP" THEN in \ op.use ELSE in

Kept(op, map, out) == CASE op.kind = "JMPR" -> out
                        [] op.kind = "PREPARE" -> Returning(map)
                        [] OTHER -> {}

Surviving(op, from) == IF op.kind = "CALL" THEN Returning(from) ELSE {}

FallsInto(op, prev) == op.kind = "FULL_SPILL" => prev.kind \notin {"RET", "JMPI", "JMPR"}

Fine(op, prev, from, map, m, in, out) ==
    /\ op.kind \in {"PUTARG", "FPUTARG", "JMPI"} \/ IsLabel(op) => map = from
    /\ op.kind = "CALL" => map = Without(from, Returning(from))
    /\ op.kind = "FULL_SPILL" => Mapped(map) \cap out = {}
    /\ op.kind \in Still \/ IsLabel(op) => m = <<>>
    /\ op.kind \in Placing => \A j \in DOMAIN m :
         m[j].move # "RENAMEREG" /\ (m[j].move = "LREG" => m[j].v \in ToSet(op.args))
    /\ FallsInto(op, prev) =>
         Ready(m, map, Needs(op, in), Kept(op, map, out), Held(from),
               Stored(from) \cup Surviving(op, from))

Complete(op, given, from, out) ==
    /\ op.kind \in Placing \cup {"RETVAL", "FRETVAL"} =>
         \A v \in ToSet(op.args) : given[v] # NoReg
    /\ op.kind = "NOP" => \E x, d \in VReg :
         /\ op.use = {x} /\ op.def = {d} /\ op.args = <<d>>
         /\ x \notin out /\ given[d] # NoReg /\ from[x] = given[d]

Done(o) == o < cur \/ (o = cur /\ operand # 0)

Pending == \A o \in Ops : o = 1 \/ ~Done(o) => before[o] = <<>>

Settled ==
    \A o \in Ops \ {1} : Done(o) /\ (phase = "allocated" => prog[o].kind # "JMPI") =>
        Fine(prog[o], prog[o - 1], regmap[o - 1], regmap[o], before[o],
             live_in[o], live_out[o])

Vacated ==
    \A o \in Ops : Done(o) /\ prog[o].kind = "PREPARE" =>
        \A v \in VReg : regmap[o][v] \notin Passing(o)

Completed ==
    \A o \in Ops \ {1} : o < cur =>
        Complete(prog[o], r_arg[o], regmap[o - 1], live_out[o])

Partial ==
    operand # 0 => /\ Kind \in Placing
                   /\ \A i \in 1 .. operand - 1 : r_arg[cur][Args[i]] # NoReg

Ended == phase # "assign" => cur = Len(prog) + 1

Joined(m, map, from, in) == Ready(m, map, in, {}, Held(from), Stored(from))

Agree ==
    /\ phase \in {"jumps", "allocated"} =>
         \A o \in Ops : prog[o].kind \in Branches /\ o \notin inverted =>
             SameMaps(o, prog[o].jmp)
    /\ phase = "allocated" => \A o \in Ops :
         /\ prog[o].kind = "JMPI" =>
              Joined(before[o], regmap[prog[o].jmp], regmap[o - 1], live_in[prog[o].jmp])
         /\ o \in inverted =>
              Joined(detour[o], regmap[prog[o].jmp], regmap[o], live_in[prog[o].jmp])

MInv == LiveEqs /\ Pending /\ Settled /\ Vacated /\ Completed /\ Partial /\ Ended /\ Agree

-----------------------------------------------------------------------------
(* The invariant after a step of assign_regs. *)

LEMMA LiveEqsKept ==
    ASSUME WellFormed(prog), LiveEqs, UNCHANGED <<live_in, live_out>>,
           DOMAIN prog' = Ops,
           \A o \in Ops : /\ prog'[o].jmp = prog[o].jmp
                          /\ prog'[o].use = prog[o].use /\ prog'[o].def = prog[o].def
                          /\ prog'[o].kind = prog[o].kind
                               \/ (prog[o].kind = "GETARG" /\ prog'[o].kind = "NOP")
    PROVE  LiveEqs'
  <1>1. ASSUME NEW o \in Ops PROVE Succ(prog', o) = Succ(prog, o)
    <2>1. {i \in DOMAIN prog' : prog'[i].kind = "REF_CODE"}
            = {i \in DOMAIN prog : prog[i].kind = "REF_CODE"}
      BY DEF Ops
    <2>2. {prog'[k].jmp : k \in {i \in DOMAIN prog' : prog'[i].kind = "REF_CODE"}}
            = {prog[k].jmp : k \in {i \in DOMAIN prog : prog[i].kind = "REF_CODE"}}
      BY <2>1 DEF Ops
    <2>3. /\ prog'[o].jmp = prog[o].jmp
          /\ prog'[o].kind = prog[o].kind
               \/ (prog[o].kind = "GETARG" /\ prog'[o].kind = "NOP")
      OBVIOUS
    <2> QED
      BY <2>2, <2>3 DEF Succ
  <1>2. Ops' = Ops
    BY DEF Ops
  <1> QED
    BY <1>1, <1>2 DEF LiveEqs
(* A step of assign_regs changes the operation it is at, at most, and of   *)
(* that only the kind of a GETARG.                                         *)
SameList ==
    /\ WellFormed(prog') /\ Len(prog') = Len(prog)
    /\ \A o \in Ops : /\ prog'[o].args = prog[o].args /\ prog'[o].jmp = prog[o].jmp
                      /\ prog'[o].use = prog[o].use /\ prog'[o].def = prog[o].def
                      /\ prog'[o].kind = prog[o].kind
                           \/ (prog[o].kind = "GETARG" /\ prog'[o].kind = "NOP")
                      /\ o # cur => prog'[o] = prog[o]

NowFine(map, moves) ==
    IF cur = 1 THEN moves = <<>>
    ELSE Fine(prog'[cur], prog[cur - 1], regmap[cur - 1], map, before[cur] \o moves,
              live_in[cur], live_out[cur])

NowComplete(k) ==
    IF k <= Len(Args)
    THEN prog'[cur].kind \in Placing /\ \A i \in 1 .. k - 1 : r_arg'[cur][Args[i]] # NoReg
    ELSE cur # 1 => Complete(prog'[cur], r_arg'[cur], regmap[cur - 1], live_out[cur])

LEMMA GiveSettles ==
    ASSUME IInv, MInv, phase = "assign", cur <= Len(prog),
           NEW map \in Map, NEW moves \in Seq(Move), NEW k \in 1 .. (Len(Args) + 1),
           Give(map, moves, k), SameList,
           \A o \in Ops \ {cur} : r_arg'[o] = r_arg[o],
           NowFine(map, moves), NowComplete(k),
           Kind = "PREPARE" => \A v \in VReg : map[v] \notin Passing(cur)
    PROVE  MInv'
  <1>1. /\ Len(prog) \in Nat /\ Ops = 1 .. Len(prog) /\ cur \in Ops /\ Len(Args) \in Nat
        /\ operand \in Nat /\ WellFormed(prog) /\ before \in [Ops -> Seq(Move)]
        /\ regmap \in [Ops -> Map] /\ cur \in Nat
    BY ProgFacts DEF IInv, TypeOK, Args
  <1>2. Ops' = Ops /\ DOMAIN prog' = Ops
    <2>1. DOMAIN prog' = 1 .. Len(prog')
      BY LenProperties DEF SameList, WellFormed
    <2> QED
      BY <2>1, <1>1 DEF Ops, SameList
  <1>3. /\ \/ cur' = cur /\ operand' = k /\ operand' # 0 /\ k <= Len(Args)
           \/ cur' = cur + 1 /\ operand' = 0 /\ ~(k <= Len(Args))
        /\ UNCHANGED <<live_in, live_out, phase, inverted, detour>>
    BY <1>1 DEF Give
  <1>4. /\ regmap'[cur] = map /\ before'[cur] = before[cur] \o moves
        /\ \A o \in Ops \ {cur} : regmap'[o] = regmap[o] /\ before'[o] = before[o]
    BY <1>1 DEF Give
  <1>5. \A o \in Ops : /\ Done(o)' <=> o <= cur
                       /\ o # cur => (Done(o)' <=> Done(o))
    BY <1>1, <1>3 DEF Done
  <1>6. LiveEqs'
    BY <1>1, <1>2, <1>3, LiveEqsKept DEF SameList, MInv
  <1>7. Pending'
    <2>1. cur = 1 => before'[cur] = <<>>
      BY <1>1, <1>4, ConcatEmptySeq, EmptySeq DEF NowFine, MInv, Pending
    <2> QED
      BY <2>1, <1>1, <1>2, <1>4, <1>5 DEF MInv, Pending
  <1>8. Settled'
    <2> SUFFICES ASSUME NEW o \in Ops \ {1}, Done(o)'
                 PROVE  Fine(prog'[o], prog'[o - 1], regmap'[o - 1], regmap'[o], before'[o],
                             live_in[o], live_out[o])
      BY <1>2, <1>3 DEF Settled
    <2>1. o - 1 \in Ops
      BY <1>1
    <2>2. CASE o = cur
      <3>1. o - 1 # cur
        BY <2>2, <1>1
      <3>2. prog'[o - 1] = prog[o - 1] /\ regmap'[o - 1] = regmap[o - 1]
        BY <2>1, <3>1, <1>4 DEF SameList
      <3> QED
        BY <3>2, <2>2, <1>4 DEF NowFine
    <2>3. CASE o # cur
      <3>1. Done(o) /\ o < cur /\ o - 1 # cur
        BY <2>3, <1>1, <1>5
      <3>2. /\ prog'[o] = prog[o] /\ prog'[o - 1] = prog[o - 1]
            /\ regmap'[o] = regmap[o] /\ regmap'[o - 1] = regmap[o - 1]
            /\ before'[o] = before[o]
        BY <2>1, <2>3, <3>1, <1>4 DEF SameList
      <3>3. Fine(prog[o], prog[o - 1], regmap[o - 1], regmap[o], before[o],
                 live_in[o], live_out[o])
        BY <3>1 DEF MInv, Settled
      <3> QED
        BY <3>2, <3>3
    <2> QED
      BY <2>2, <2>3
  <1>9. Vacated'
    <2> SUFFICES ASSUME NEW o \in Ops, Done(o)', prog'[o].kind = "PREPARE",
                        NEW v \in VReg
                 PROVE  regmap'[o][v] \notin Passing(o)'
      BY <1>2 DEF Vacated
    <2>1. prog[o].kind = "PREPARE"
      BY DEF SameList
    <2>2. Passing(o)' = Passing(o)
      BY <2>1, <1>1, PassingSame DEF SameList
    <2>3. CASE o = cur
      BY <2>1, <2>2, <2>3, <1>4 DEF Kind
    <2>4. CASE o # cur
      BY <2>1, <2>2, <2>4, <1>4, <1>5 DEF MInv, Vacated
    <2> QED
      BY <2>3, <2>4
  <1>10. Completed'
    <2> SUFFICES ASSUME NEW o \in Ops \ {1}, o < cur'
                 PROVE  Complete(prog'[o], r_arg'[o], regmap'[o - 1], live_out[o])
      BY <1>2, <1>3 DEF Completed
    <2>1. o - 1 \in Ops /\ o - 1 # cur /\ regmap'[o - 1] = regmap[o - 1]
      BY <1>1, <1>3, <1>4
    <2>2. CASE o = cur
      BY <2>1, <2>2, <1>1, <1>3 DEF NowComplete
    <2>3. CASE o # cur
      <3>1. prog'[o] = prog[o] /\ r_arg'[o] = r_arg[o] /\ o < cur
        BY <2>3, <1>1, <1>3 DEF SameList
      <3> QED
        BY <2>1, <3>1 DEF MInv, Completed
    <2> QED
      BY <2>2, <2>3
  <1>11. Partial'
    <2> SUFFICES ASSUME operand' # 0
                 PROVE  /\ prog'[cur'].kind \in Placing
                        /\ \A i \in 1 .. operand' - 1 : r_arg'[cur'][prog'[cur'].args[i]] # NoReg
      BY DEF Partial, Kind, Args
    <2>1. cur' = cur /\ operand' = k /\ k <= Len(Args)
      BY <1>3
    <2> QED
      BY <2>1, <1>1 DEF NowComplete, SameList, Args
  <1>12. Ended' /\ Agree'
    BY <1>3 DEF Ended, Agree
  <1> QED
    BY <1>6, <1>7, <1>8, <1>9, <1>10, <1>11, <1>12 DEF MInv
LEMMA CurFacts ==
    ASSUME IInv, MInv, phase = "assign", cur <= Len(prog), Kind # "PROLOG"
    PROVE  /\ cur # 1 /\ cur \in Ops /\ Inherited = regmap[cur - 1] /\ Inherited \in Map
           /\ WellFormed(prog) /\ OperandsFormed(prog, cur) /\ Clean(Inherited)
           /\ Args \in Seq(VReg) /\ Len(Args) \in Nat /\ ToSet(Args) \subseteq VReg
           /\ live_in[cur] = prog[cur].use \cup (live_out[cur] \ prog[cur].def)
           /\ live_in[cur] \subseteq VReg /\ live_out[cur] \subseteq VReg
           /\ operand = 0 => \A m \in Seq(Move) : before[cur] \o m = m
  <1>1. /\ cur \in Ops /\ cur - 1 \in Ops /\ WellFormed(prog) /\ OperandsFormed(prog, cur)
        /\ Inherited \in Map /\ Clean(Inherited)
    BY InheritedFacts
  <1>2. cur # 1
    BY <1>1, ProgFacts
  <1>3. operand = 0 => before[cur] = <<>>
    BY <1>1 DEF IInv, TypeOK, MInv, Pending, Done
  <1>4. \A m \in Seq(Move) : <<>> \o m = m
    BY ConcatEmptySeq
  <1>5. live_in[cur] = prog[cur].use \cup (live_out[cur] \ prog[cur].def)
    BY <1>1 DEF MInv, LiveEqs
  <1>6. live_in[cur] \subseteq VReg /\ live_out[cur] \subseteq VReg
    BY <1>1 DEF IInv, TypeOK
  <1> QED
    BY <1>1, <1>2, <1>3, <1>4, <1>5, <1>6, ProgFacts DEF Inherited, Args

LEMMA ListUnchanged ==
    ASSUME WellFormed(prog), prog' = prog
    PROVE  SameList
  <1>1. WellFormed(prog') /\ Len(prog') = Len(prog)
    OBVIOUS
  <1>2. \A o \in Ops : /\ prog'[o].args = prog[o].args /\ prog'[o].jmp = prog[o].jmp
                       /\ prog'[o].use = prog[o].use /\ prog'[o].def = prog[o].def
                       /\ prog'[o].kind = prog[o].kind /\ prog'[o] = prog[o]
    OBVIOUS
  <1> QED
    BY <1>1, <1>2, Zenon DEF SameList

LEMMA BeginSettles ==
    ASSUME IInv, MInv, phase = "assign", operand = 0, cur <= Len(prog), Kind # "PROLOG",
           NEW map \in Map, NEW moves \in Seq(Move), NEW k \in {1, Skip},
           Give(map, moves, k), UNCHANGED <<prog, r_arg>>,
           Fine(prog[cur], prog[cur - 1], Inherited, map, moves, live_in[cur], live_out[cur]),
           Kind = "PREPARE" => \A v \in VReg : map[v] \notin Passing(cur),
           Kind \notin {"NOP", "RETVAL", "FRETVAL"},
           IF k = Skip THEN Kind \notin Placing \/ Args = <<>> ELSE Kind \in Placing
    PROVE  MInv'
  <1>1. /\ cur # 1 /\ cur \in Ops /\ Inherited = regmap[cur - 1] /\ WellFormed(prog)
        /\ Args \in Seq(VReg) /\ Len(Args) \in Nat /\ before[cur] \o moves = moves
    BY CurFacts
  <1>2. SameList
    BY <1>1, ListUnchanged
  <1>3. NowFine(map, moves)
    BY <1>1 DEF NowFine
  <1>4. k \in 1 .. (Len(Args) + 1)
    BY <1>1 DEF Skip
  <1>5. NowComplete(k)
    <2>1. CASE k <= Len(Args)
      BY <2>1, <1>1 DEF NowComplete, Kind, Skip
    <2>2. CASE ~(k <= Len(Args))
      <3>1. Kind \in Placing => ToSet(Args) = {}
        <4>1. Kind \in Placing => Args = <<>>
          BY <2>2, <1>1 DEF Skip
        <4> QED
          BY <4>1 DEF ToSet
      <3> QED
        BY <2>2, <3>1 DEF NowComplete, Complete, Kind, Args
    <2> QED
      BY <2>1, <2>2
  <1> QED
    BY <1>1, <1>2, <1>3, <1>4, <1>5, GiveSettles

(* Nothing moves: the map is the inherited one. *)
LEMMA InheritedReady ==
    ASSUME NEW map \in Map, NEW L, L \subseteq VReg
    PROVE  Ready(<<>>, map, L, {}, Held(map), Stored(map))
  <1>1. \A v \in L : /\ map[v] # NoReg => v \in Held(map)[map[v]]
                     /\ map[v] = NoReg => v \in Stored(map)
    BY DEF Map, Held, Stored, Owners, Mapped
  <1> QED
    BY <1>1, ReadyNow

LEMMA PrologSettles == IInv /\ MInv /\ AssignProlog => MInv'
  <1> SUFFICES ASSUME IInv, MInv, AssignProlog PROVE MInv'
    OBVIOUS
  <1>1. /\ phase = "assign" /\ operand = 0 /\ cur <= Len(prog) /\ Kind = "PROLOG"
        /\ Give(ParamMap(Args), <<>>, Skip) /\ UNCHANGED <<prog, r_arg>>
    BY DEF AssignProlog, Beginning
  <1>2. /\ cur \in Ops /\ WellFormed(prog) /\ Args \in Seq(VReg) /\ Len(Args) \in Nat
    BY <1>1, ProgFacts DEF IInv, TypeOK, Args
  <1>3. cur = 1
    BY <1>1, <1>2, ProgFacts DEF Kind
  <1>4. ParamMap(Args) \in Map
    <2>1. OperandsFormed(prog, cur)
      BY <1>2 DEF WellFormed, Ops
    <2>2. IsInjective(Args)
      BY <2>1, <1>1 DEF OperandsFormed, Kind, Args
    <2> QED
      BY <2>2, <1>2, ParamMapClean
  <1>5. NowFine(ParamMap(Args), <<>>) /\ NowComplete(Skip) /\ Skip \in 1 .. (Len(Args) + 1)
    BY <1>1, <1>2, <1>3 DEF NowFine, NowComplete, Skip
  <1>6. SameList
    BY <1>1, <1>2, ListUnchanged
  <1> QED
    BY <1>1, <1>2, <1>4, <1>5, <1>6, EmptySeq, GiveSettles

LEMMA PlainSettles == IInv /\ MInv /\ (AssignPlain \/ AssignPutArg \/ AssignGetArg) => MInv'
  <1> SUFFICES ASSUME IInv, MInv, AssignPlain \/ AssignPutArg \/ AssignGetArg PROVE MInv'
    OBVIOUS
  <1>1. /\ phase = "assign" /\ operand = 0 /\ cur <= Len(prog) /\ UNCHANGED <<prog, r_arg>>
        /\ \/ Kind \in (Placing \ {"JMPR"}) \cup {"JMPI"} /\ Give(Inherited, <<>>, 1)
           \/ Kind \in {"PUTARG", "FPUTARG"} /\ Give(Inherited, <<>>, Skip)
    BY DEF AssignPlain, AssignPutArg, AssignGetArg, Beginning, Branches, Placing
  <1>2. Kind # "PROLOG" /\ Kind \notin {"PREPARE", "NOP", "RETVAL", "FRETVAL", "CALL",
                                        "FULL_SPILL", "JMPR"}
    BY <1>1 DEF Placing
  <1>3. /\ Inherited \in Map /\ live_in[cur] \subseteq VReg
        /\ OperandsFormed(prog, cur) /\ Args \in Seq(VReg) /\ Len(Args) \in Nat
    BY <1>1, <1>2, CurFacts
  <1>4. Fine(prog[cur], prog[cur - 1], Inherited, Inherited, <<>>, live_in[cur], live_out[cur])
    <2>1. Ready(<<>>, Inherited, live_in[cur], {}, Held(Inherited), Stored(Inherited))
      BY <1>3, InheritedReady
    <2>2. /\ Needs(prog[cur], live_in[cur]) = live_in[cur]
          /\ Kept(prog[cur], Inherited, live_out[cur]) = {}
          /\ Surviving(prog[cur], Inherited) = {}
      BY <1>2 DEF Needs, Kept, Surviving, Kind
    <2>3. Stored(Inherited) \cup {} = Stored(Inherited)
      OBVIOUS
    <2> QED
      BY <2>1, <2>2, <2>3, <1>2 DEF Fine, Kind
  <1>5. Kind = "JMPI" => Args = <<>>
    BY <1>3 DEF OperandsFormed, Kind, Args
  <1>6. CASE Kind \in {"PUTARG", "FPUTARG"} /\ Give(Inherited, <<>>, Skip)
    <2>1. Kind \notin Placing
      BY <1>6 DEF Placing
    <2> QED
      BY <1>1, <1>2, <1>3, <1>4, <1>6, <2>1, EmptySeq, BeginSettles
  <1>7. CASE Kind \in (Placing \ {"JMPR"}) \cup {"JMPI"} /\ Give(Inherited, <<>>, 1)
    <2>1. IF 1 = Skip THEN Kind \notin Placing \/ Args = <<>> ELSE Kind \in Placing
      BY <1>3, <1>5, <1>7 DEF Skip
    <2> QED
      BY <1>1, <1>2, <1>3, <1>4, <1>7, <2>1, EmptySeq, BeginSettles
  <1> QED
    BY <1>1, <1>6, <1>7

LEMMA CallSettles == IInv /\ MInv /\ AssignCall => MInv'
  <1> SUFFICES ASSUME IInv, MInv, AssignCall PROVE MInv'
    OBVIOUS
  <1> DEFINE gone == Owners(Inherited, RetReg) \cup Owners(Inherited, FpRetReg)
  <1>1. /\ phase = "assign" /\ operand = 0 /\ cur <= Len(prog) /\ Kind = "CALL"
        /\ Give(Without(Inherited, gone), <<>>, Skip) /\ UNCHANGED <<prog, r_arg>>
    BY DEF AssignCall, Beginning
  <1>2. Inherited \in Map /\ live_in[cur] \subseteq VReg
    BY <1>1, CurFacts
  <1>3. gone = Returning(Inherited)
    BY DEF Owners, Returning
  <1> HIDE DEF gone
  <1>4. Without(Inherited, gone) \in Map
    BY <1>2 DEF Map, Without
  <1>5. Fine(prog[cur], prog[cur - 1], Inherited, Without(Inherited, gone), <<>>,
             live_in[cur], live_out[cur])
    <2>1. \A v \in live_in[cur] :
            /\ Without(Inherited, gone)[v] # NoReg =>
                 v \in Held(Inherited)[Without(Inherited, gone)[v]]
            /\ Without(Inherited, gone)[v] = NoReg =>
                 v \in Stored(Inherited) \cup Returning(Inherited)
      BY <1>2, <1>3 DEF Without, Held, Stored, Owners, Mapped, Map
    <2>2. Ready(<<>>, Without(Inherited, gone), live_in[cur], {}, Held(Inherited),
                Stored(Inherited) \cup Returning(Inherited))
      BY <2>1, ReadyNow
    <2> QED
      BY <2>2, <1>1, <1>3 DEF Fine, Needs, Kept, Surviving, Kind, IsLabel, Placing
  <1>6. Kind \notin Placing
    BY <1>1 DEF Placing
  <1> QED
    BY <1>1, <1>4, <1>5, <1>6, EmptySeq, BeginSettles
LEMMA OneArgument ==
    ASSUME NEW s \in Seq(VReg), Len(s) = 1
    PROVE  s[1] \in VReg /\ s = <<s[1]>> /\ ToSet(s) = {s[1]}
  <1>1. DOMAIN s = {1} /\ s[1] \in VReg
    BY LenProperties, ElementOfSeq
  <1> QED
    BY <1>1 DEF ToSet

LEMMA RetValSettles == IInv /\ MInv /\ AssignRetVal => MInv'
  <1> SUFFICES ASSUME IInv, MInv, AssignRetVal PROVE MInv'
    OBVIOUS
  <1> DEFINE h == IF Kind = "RETVAL" THEN RetReg ELSE FpRetReg
             d == Args[1]
             map == [Inherited EXCEPT ![d] = h]
  <1>1. /\ phase = "assign" /\ operand = 0 /\ cur <= Len(prog)
        /\ Kind \in {"RETVAL", "FRETVAL"} /\ Kind # "PROLOG"
        /\ Give(map, <<>>, Skip) /\ prog' = prog
        /\ r_arg' = [r_arg EXCEPT ![cur][d] = h]
    BY DEF AssignRetVal, Beginning
  <1>2. /\ cur # 1 /\ cur \in Ops /\ Inherited = regmap[cur - 1] /\ Inherited \in Map
        /\ WellFormed(prog) /\ OperandsFormed(prog, cur) /\ Args \in Seq(VReg)
        /\ live_in[cur] = prog[cur].use \cup (live_out[cur] \ prog[cur].def)
        /\ live_in[cur] \subseteq VReg /\ before[cur] \o <<>> = <<>>
    BY <1>1, CurFacts, EmptySeq
  <1>3. Len(Args) = 1 /\ h \in HReg
    BY <1>1, <1>2, RegisterAssumption DEF WellFormed, CallsFormed, Kind, Args, Ops
  <1>4. d \in VReg /\ ToSet(Args) = {d}
    BY <1>2, <1>3, OneArgument
  <1>5. prog[cur].use = {} /\ prog[cur].def = {d}
    BY <1>1, <1>2, <1>4 DEF OperandsFormed, Kind, Args
  <1> HIDE DEF h, d
  <1>6. map \in Map
    BY <1>2, <1>3, <1>4 DEF Map
  <1>7. \A v \in live_in[cur] : map[v] = Inherited[v]
    BY <1>2, <1>4, <1>5 DEF Map
  <1>8. Ready(<<>>, map, live_in[cur], {}, Held(Inherited), Stored(Inherited))
    <2> HIDE DEF map
    <2>1. \A v \in live_in[cur] : /\ map[v] # NoReg => v \in Held(Inherited)[map[v]]
                                  /\ map[v] = NoReg => v \in Stored(Inherited)
      BY <1>2, <1>7 DEF Map, Held, Stored, Owners, Mapped
    <2> QED
      BY <2>1, ReadyNow
  <1>9. NowFine(map, <<>>)
    <2> HIDE DEF map
    <2>1. /\ Needs(prog[cur], live_in[cur]) = live_in[cur]
          /\ Kept(prog[cur], map, live_out[cur]) = {}
          /\ Surviving(prog[cur], Inherited) = {} /\ Stored(Inherited) \cup {} = Stored(Inherited)
      BY <1>1 DEF Needs, Kept, Surviving, Kind
    <2> QED
      BY <2>1, <1>1, <1>2, <1>8 DEF NowFine, Fine, Kind, IsLabel, Placing
  <1>10. NowComplete(Skip)
    <2>1. r_arg'[cur][d] = h
      BY <1>1, <1>2, <1>4 DEF IInv, TypeOK, Map
    <2> QED
      BY <2>1, <1>1, <1>3, <1>4, RegisterAssumption
         DEF NowComplete, Complete, Kind, Args, Skip
  <1>11. SameList /\ \A o \in Ops \ {cur} : r_arg'[o] = r_arg[o]
    BY <1>1, <1>2, ListUnchanged DEF IInv, TypeOK
  <1>12. Skip \in 1 .. (Len(Args) + 1)
    BY <1>3 DEF Skip
  <1> HIDE DEF map
  <1> QED
    BY <1>1, <1>6, <1>9, <1>10, <1>11, <1>12, EmptySeq, GiveSettles

LEMMA GetArgFastSettles == IInv /\ MInv /\ AssignGetArgFast => MInv'
  <1> SUFFICES ASSUME IInv, MInv, AssignGetArgFast PROVE MInv'
    OBVIOUS
  <1> DEFINE x == CHOOSE u \in prog[cur].use : TRUE
             d == Args[1]
             h == Inherited[x]
             map == [Inherited EXCEPT ![x] = NoReg, ![d] = h]
  <1>1. /\ phase = "assign" /\ operand = 0 /\ cur <= Len(prog) /\ Kind = "GETARG"
        /\ h # NoReg /\ x \notin live_out[cur] /\ Give(map, <<>>, Skip)
        /\ r_arg' = [r_arg EXCEPT ![cur][d] = h]
        /\ BecomesNop(prog', cur)
    BY DEF AssignGetArgFast, Beginning, TakesOver, BecomesNop
  <1>2. /\ cur # 1 /\ cur \in Ops /\ Inherited = regmap[cur - 1] /\ Inherited \in Map
        /\ WellFormed(prog) /\ OperandsFormed(prog, cur) /\ Args \in Seq(VReg)
        /\ live_in[cur] = prog[cur].use \cup (live_out[cur] \ prog[cur].def)
        /\ live_in[cur] \subseteq VReg /\ before[cur] \o <<>> = <<>>
    BY <1>1, CurFacts, EmptySeq
  <1>3. /\ Len(Args) = 1 /\ d \in VReg /\ Args = <<d>> /\ prog[cur].def = {d}
        /\ x \in VReg /\ prog[cur].use = {x}
    <2>1. /\ Len(Args) = 1 /\ prog[cur].def = ToSet(Args)
          /\ \E v \in ToSet(prog[1].args) : prog[cur].use = {v}
      BY <1>1, <1>2 DEF OperandsFormed, Kind, Args
    <2>2. ToSet(prog[1].args) \subseteq VReg
      BY <1>2, ProgFacts DEF WellFormed
    <2> QED
      BY <2>1, <2>2, <1>2, OneArgument
  <1> HIDE DEF x, d
  <1>4. h \in HReg
    BY <1>1, <1>2, <1>3 DEF Map
  <1>5. map \in Map
    BY <1>2, <1>3, <1>4 DEF Map
  <1>6. \A v \in live_in[cur] \ {x} : map[v] = Inherited[v]
    BY <1>2, <1>3 DEF Map
  <1>7. Ready(<<>>, map, live_in[cur] \ {x}, {}, Held(Inherited), Stored(Inherited))
    <2> HIDE DEF map
    <2>1. \A v \in live_in[cur] \ {x} : /\ map[v] # NoReg => v \in Held(Inherited)[map[v]]
                                        /\ map[v] = NoReg => v \in Stored(Inherited)
      BY <1>2, <1>6 DEF Map, Held, Stored, Owners, Mapped
    <2> QED
      BY <2>1, ReadyNow
  <1>8. /\ WellFormed(prog') /\ Len(prog') = Len(prog) /\ prog'[cur].kind = "NOP"
        /\ prog'[cur].use = {x} /\ prog'[cur].def = {d} /\ prog'[cur].args = <<d>>
        /\ \A o \in Ops : /\ prog'[o].args = prog[o].args /\ prog'[o].jmp = prog[o].jmp
                          /\ prog'[o].use = prog[o].use /\ prog'[o].def = prog[o].def
                          /\ o # cur => prog'[o] = prog[o]
    <2>1. prog[cur].kind = "GETARG"
      BY <1>1 DEF Kind
    <2> QED
      BY <2>1, <1>1, <1>2, <1>3, NopWellFormed DEF Args
  <1>9. SameList
    <2>1. prog[cur].kind = "GETARG"
      BY <1>1 DEF Kind
    <2> QED
      BY <2>1, <1>8 DEF SameList
  <1>10. NowFine(map, <<>>)
    <2> HIDE DEF map
    <2>1. /\ Needs(prog'[cur], live_in[cur]) = live_in[cur] \ {x}
          /\ Kept(prog'[cur], map, live_out[cur]) = {}
          /\ Surviving(prog'[cur], Inherited) = {}
          /\ Stored(Inherited) \cup {} = Stored(Inherited)
      BY <1>8 DEF Needs, Kept, Surviving
    <2> QED
      BY <2>1, <1>2, <1>7, <1>8 DEF NowFine, Fine, IsLabel, Placing
  <1>11. NowComplete(Skip)
    <2>1. r_arg'[cur][d] = h
      BY <1>1, <1>2, <1>3 DEF IInv, TypeOK, Map
    <2> QED
      BY <2>1, <1>1, <1>2, <1>3, <1>8 DEF NowComplete, Complete, Skip, Placing
  <1>12. \A o \in Ops \ {cur} : r_arg'[o] = r_arg[o]
    BY <1>1, <1>2 DEF IInv, TypeOK
  <1>13. Skip \in 1 .. (Len(Args) + 1)
    BY <1>3 DEF Skip
  <1> HIDE DEF map
  <1> QED
    BY <1>1, <1>5, <1>9, <1>10, <1>11, <1>12, <1>13, EmptySeq, GiveSettles

LEMMA SpillSettles ==
    IInv /\ MInv /\ (AssignJmpr \/ AssignFullSpill \/ AssignForceSpill) => MInv'
  <1> SUFFICES ASSUME IInv, MInv, AssignJmpr \/ AssignFullSpill \/ AssignForceSpill
               PROVE  MInv'
    OBVIOUS
  <1>1. /\ phase = "assign" /\ operand = 0 /\ cur <= Len(prog) /\ UNCHANGED <<prog, r_arg>>
        /\ Kind \in {"JMPR", "FULL_SPILL", "FORCE_SPILL"} /\ Kind # "PROLOG"
    BY DEF AssignJmpr, AssignFullSpill, AssignForceSpill, Beginning
  <1>2. /\ Inherited \in Map /\ live_in[cur] \subseteq VReg /\ OperandsFormed(prog, cur)
        /\ live_in[cur] = prog[cur].use \cup (live_out[cur] \ prog[cur].def)
        /\ live_out[cur] \subseteq VReg /\ Args \in Seq(VReg) /\ Len(Args) \in Nat
    BY <1>1, CurFacts
  <1>3. Kind # "PREPARE" /\ Kind \notin {"NOP", "RETVAL", "FRETVAL", "CALL"} \cup Still
        /\ ~IsLabel(prog[cur])
    BY <1>1 DEF Still, IsLabel, Kind
  <1>4. /\ Needs(prog[cur], live_in[cur]) = live_in[cur]
        /\ Surviving(prog[cur], Inherited) = {}
        /\ Stored(Inherited) \cup {} = Stored(Inherited)
        /\ \A map : Kept(prog[cur], map, live_out[cur]) =
                      IF Kind = "JMPR" THEN live_out[cur] ELSE {}
    BY <1>1 DEF Needs, Kept, Surviving, Kind
  <1>5. ASSUME NEW gone, gone \subseteq Mapped(Inherited)
        PROVE  /\ IsStores(Unload(gone, Inherited), gone, Inherited)
               /\ Unload(gone, Inherited) \in Seq(Move) /\ Without(Inherited, gone) \in Map
    BY <1>2, <1>5, StoresAndLoads DEF IsStores, Without, Map
  <1>6. CASE AssignJmpr
    <2> DEFINE V == Mapped(Inherited) \cap live_out[cur]
               moves == Unload(V, Inherited)
    <2>1. IsStores(moves, V, Inherited) /\ moves \in Seq(Move) /\ Kind = "JMPR"
          /\ Give(Inherited, moves, 1)
      BY <1>5, <1>6 DEF AssignJmpr, Beginning
    <2> HIDE DEF moves
    <2>2. Without(Inherited, {}) = Inherited
      BY <1>2 DEF Without, Map
    <2>3. Ready(moves, Without(Inherited, {}), live_in[cur], live_out[cur],
                Held(Inherited), Stored(Inherited))
      BY <2>1, <1>2, StoresReady
    <2>4. \A j \in DOMAIN moves : moves[j].move = "UREG"
      BY <2>1 DEF IsStores
    <2>5. Fine(prog[cur], prog[cur - 1], Inherited, Inherited, moves,
               live_in[cur], live_out[cur])
      BY <2>1, <2>2, <2>3, <2>4, <1>3, <1>4 DEF Fine, Kind
    <2>6. IF 1 = Skip THEN Kind \notin Placing \/ Args = <<>> ELSE Kind \in Placing
      BY <2>1, <1>2 DEF Skip, Placing
    <2> QED
      BY <2>1, <2>5, <2>6, <1>1, <1>2, <1>3, BeginSettles
  <1>7. ASSUME NEW gone, gone \subseteq Mapped(Inherited), Kind # "JMPR",
               Kind = "FULL_SPILL" => gone = Mapped(Inherited) \cap live_out[cur],
               NEW moves, moves = Unload(gone, Inherited)
                            \/ (moves = <<>> /\ ~FallsInto(prog[cur], prog[cur - 1])),
               Give(Without(Inherited, gone), moves, Skip)
        PROVE  MInv'
    <2>1. IsStores(Unload(gone, Inherited), gone, Inherited) /\ moves \in Seq(Move)
          /\ Without(Inherited, gone) \in Map
      BY <1>5, <1>7, EmptySeq
    <2>2. Ready(Unload(gone, Inherited), Without(Inherited, gone), live_in[cur], {},
                Held(Inherited), Stored(Inherited))
      BY <2>1, <1>2, <1>7, StoresReady
    <2>3. Kind = "FULL_SPILL" => Mapped(Without(Inherited, gone)) \cap live_out[cur] = {}
      BY <1>7 DEF Mapped, Without
    <2>4. Kind \notin Placing
      BY <1>1, <1>7 DEF Placing
    <2>5. Fine(prog[cur], prog[cur - 1], Inherited, Without(Inherited, gone), moves,
               live_in[cur], live_out[cur])
      BY <2>2, <2>3, <2>4, <1>1, <1>3, <1>4, <1>7 DEF Fine, Kind, Still
    <2> QED
      BY <2>1, <2>4, <2>5, <1>1, <1>3, <1>7, BeginSettles
  <1>8. CASE AssignFullSpill
    <2> DEFINE gone == Mapped(Inherited) \cap live_out[cur]
               moves == IF InUse(cur) THEN Unload(gone, Inherited) ELSE <<>>
    <2>1. Give(Without(Inherited, gone), moves, Skip) /\ Kind = "FULL_SPILL"
      BY <1>8 DEF AssignFullSpill, Beginning
    <2>2. moves = Unload(gone, Inherited) \/ (moves = <<>> /\ ~FallsInto(prog[cur], prog[cur - 1]))
      BY <2>1 DEF FallsInto, InUse, Kind
    <2> HIDE DEF moves
    <2> QED
      BY <2>1, <2>2, <1>7
  <1>9. CASE AssignForceSpill
    <2> DEFINE gone == ToSet(Args) \cap Mapped(Inherited)
    <2>1. Give(Without(Inherited, gone), Unload(gone, Inherited), Skip) /\ Kind = "FORCE_SPILL"
      BY <1>9 DEF AssignForceSpill, Beginning
    <2> HIDE DEF gone
    <2>2. gone \subseteq Mapped(Inherited)
      BY DEF gone
    <2> QED
      BY <2>1, <2>2, <1>7
  <1> QED
    BY <1>6, <1>8, <1>9
LEMMA WithoutNone ==
    ASSUME NEW map \in Map
    PROVE  Without(map, {}) = map
  BY DEF Without, Map

LEMMA OneMove ==
    ASSUME NEW move \in Move
    PROVE  /\ <<move>> \in Seq(Move) /\ Len(<<move>>) = 1 /\ DOMAIN <<move>> = {1}
           /\ <<move>>[1] = move
  OBVIOUS

LEMMA StoresTogether ==
    ASSUME NEW map, NEW V, NEW W, NEW m, NEW n, IsStores(m, V, map), IsStores(n, W, map)
    PROVE  IsStores(m \o n, V \cup W, map)
  <1>1. /\ m \o n \in Seq(Move) /\ Len(m) \in Nat /\ Len(n) \in Nat
        /\ DOMAIN m = 1 .. Len(m) /\ DOMAIN n = 1 .. Len(n)
        /\ DOMAIN (m \o n) = 1 .. Len(m) + Len(n)
        /\ \A i \in 1 .. Len(m) + Len(n) :
             (m \o n)[i] = IF i <= Len(m) THEN m[i] ELSE n[i - Len(m)]
    BY ConcatProperties, LenProperties DEF IsStores
  <1>2. \A j \in DOMAIN (m \o n) : \/ j \in DOMAIN m /\ (m \o n)[j] = m[j]
                                   \/ j - Len(m) \in DOMAIN n /\ (m \o n)[j] = n[j - Len(m)]
    BY <1>1
  <1>3. /\ \A j \in DOMAIN m : j \in DOMAIN (m \o n) /\ (m \o n)[j] = m[j]
        /\ \A j \in DOMAIN n : Len(m) + j \in DOMAIN (m \o n) /\ (m \o n)[Len(m) + j] = n[j]
    BY <1>1
  <1>4. \A j \in DOMAIN (m \o n) : /\ (m \o n)[j].move = "UREG" /\ (m \o n)[j].v \in V \cup W
                                   /\ (m \o n)[j].h = map[(m \o n)[j].v]
    BY <1>2 DEF IsStores
  <1>5. \A v \in V \cup W : \E j \in DOMAIN (m \o n) : Saves((m \o n)[j], v)
    <2>1. ASSUME NEW v \in V PROVE \E j \in DOMAIN (m \o n) : Saves((m \o n)[j], v)
      BY <1>3 DEF IsStores
    <2>2. ASSUME NEW v \in W PROVE \E j \in DOMAIN (m \o n) : Saves((m \o n)[j], v)
      BY <1>3 DEF IsStores
    <2> QED
      BY <2>1, <2>2
  <1> QED
    BY <1>1, <1>4, <1>5 DEF IsStores

(* The first part of prepare_registers_for_call.                           *)
LEMMA RetRegReady ==
    ASSUME NEW o \in Ops, live_in[o] \subseteq VReg, NEW map \in Map, Clean(map),
           NEW ret \in RetRegCleared(o, map)
    PROVE  /\ Ready(ret[2], ret[1], live_in[o], Owners(ret[1], RetReg), Held(map), Stored(map))
           /\ \A j \in DOMAIN ret[2] :
                /\ ret[2][j].move # "LREG"
                /\ ret[2][j].move = "RENAMEREG" => ret[2][j].to \in CalleeSaved \ Fp
  <1> DEFINE r == CHOOSE v \in Owners(map, RetReg) : TRUE
             alive == r \in live_in[o] \cup live_out[o]
             takers == {h \in CalleeSaved \ Fp : Owners(map, h) = {}}
             L == live_in[o]
  <1>1. \/ ret = <<map, <<>>>> /\ (Owners(map, RetReg) = {} \/ ~alive)
        \/ /\ Owners(map, RetReg) # {}
           /\ \E h \in takers : ret = <<[map EXCEPT ![r] = h], <<Rename(h, RetReg)>>>>
        \/ Owners(map, RetReg) # {} /\ ret = <<map, <<Ureg(r, RetReg)>>>>
    BY DEF RetRegCleared
  <1>2. Owners(map, RetReg) # {} =>
          r \in VReg /\ map[r] = RetReg /\ Owners(map, RetReg) = {r}
    BY RegisterAssumption DEF Owners, Clean, Mapped
  <1>3. /\ \A v \in VReg : map[v] # NoReg => map[v] \in HReg /\ v \in Held(map)[map[v]]
        /\ \A v \in VReg : map[v] = NoReg => v \in Stored(map)
    BY DEF Map, Held, Stored, Owners, Mapped
  <1> HIDE DEF r
  <1>4. CASE ret = <<map, <<>>>> /\ (Owners(map, RetReg) = {} \/ ~alive)
    <2>1. \A v \in L : /\ map[v] # NoReg => v \in Held(map)[map[v]]
                       /\ map[v] = NoReg \/ v \in Owners(map, RetReg) => v \in Stored(map)
      BY <1>2, <1>3, <1>4
    <2>2. Ready(<<>>, map, L, Owners(map, RetReg), Held(map), Stored(map))
      BY <2>1, ReadyNow
    <2> QED
      BY <2>2, <1>4
  <1>5. ASSUME Owners(map, RetReg) # {}, NEW h \in takers,
               ret = <<[map EXCEPT ![r] = h], <<Rename(h, RetReg)>>>>
        PROVE  /\ Ready(ret[2], ret[1], L, Owners(ret[1], RetReg), Held(map), Stored(map))
               /\ \A j \in DOMAIN ret[2] :
                    /\ ret[2][j].move # "LREG"
                    /\ ret[2][j].move = "RENAMEREG" => ret[2][j].to \in CalleeSaved \ Fp
    <2> DEFINE move == Rename(h, RetReg)
               after == [map EXCEPT ![r] = h]
    <2>1. h \in HReg /\ h # RetReg /\ h # NoReg /\ Owners(map, h) = {} /\ RetReg \in HReg
      BY <1>5, RegisterAssumption
    <2>2. move \in Move /\ move.move = "RENAMEREG" /\ move.to = h /\ move.h = RetReg
      BY <2>1 DEF Rename, Move
    <2>3. /\ <<move>> \in Seq(Move) /\ Len(<<move>>) = 1 /\ DOMAIN <<move>> = {1}
          /\ <<move>>[1] = move
      BY <2>2, OneMove
    <2>4. \A v \in VReg : after[v] = IF v = r THEN h ELSE map[v]
      BY DEF Map
    <2>5. ret[1] = after /\ ret[2] = <<move>>
      BY <1>5
    <2> HIDE DEF move, after
    <2>6. Arrive(<<move>>, after, L, Held(map))
      <3> SUFFICES ASSUME NEW v \in L, after[v] # NoReg
                   PROVE  \/ v \in Held(map)[after[v]] /\ Untouched(<<move>>, 2, after[v])
                          \/ \E j \in DOMAIN <<move>> :
                               /\ j = 1 /\ <<move>>[j].move = "RENAMEREG"
                               /\ <<move>>[j].to = after[v] /\ v \in Held(map)[<<move>>[j].h]
        BY <2>3 DEF Arrive
      <3>1. CASE v = r
        BY <3>1, <2>2, <2>3, <2>4, <1>2, <1>3, <1>5, RegisterAssumption
      <3>2. CASE v # r
        <4>1. after[v] = map[v] /\ v \in Held(map)[map[v]] /\ map[v] # h
          BY <3>2, <2>1, <2>4, <1>3 DEF Owners
        <4> QED
          BY <4>1, <2>2, <2>3 DEF Untouched, WritesTo
      <3> QED
        BY <3>1, <3>2
    <2>7. Stay(<<move>>, after, L, Owners(after, RetReg), Stored(map))
      <3>1. Owners(after, RetReg) = {}
        BY <2>1, <2>4, <1>2, <1>5 DEF Owners
      <3>2. \A v \in L : after[v] = NoReg => v \in Stored(map)
        BY <2>1, <2>4, <1>3
      <3> QED
        BY <3>1, <3>2 DEF Stay
    <2>8. /\ StoresRight(<<move>>, L, Held(map)) /\ LoadsRight(<<move>>, L, Stored(map))
          /\ Fits(<<move>>, after)
      BY <2>2, <2>3 DEF StoresRight, LoadsRight, Fits
    <2> QED
      BY <2>2, <2>3, <2>5, <2>6, <2>7, <2>8, <1>5 DEF Ready
  <1>6. CASE Owners(map, RetReg) # {} /\ ret = <<map, <<Ureg(r, RetReg)>>>>
    <2> DEFINE move == Ureg(r, RetReg)
    <2>1. move \in Move /\ move.move = "UREG" /\ move.v = r /\ move.h = RetReg
      BY <1>2, <1>6, RegisterAssumption DEF Ureg, Move
    <2>2. /\ <<move>> \in Seq(Move) /\ DOMAIN <<move>> = {1} /\ <<move>>[1] = move
      BY <2>1, OneMove
    <2>3. ret[1] = map /\ ret[2] = <<move>>
      BY <1>6
    <2> HIDE DEF move
    <2>4. IsStores(<<move>>, {r}, map)
      BY <2>1, <2>2, <1>2, <1>6 DEF IsStores, Saves
    <2>5. {r} \subseteq Mapped(map) /\ Owners(map, RetReg) = {r}
      BY <1>2, <1>6, RegisterAssumption DEF Mapped
    <2>6. Ready(<<move>>, Without(map, {}), L, Owners(map, RetReg), Held(map), Stored(map))
      BY <2>4, <2>5, StoresReady
    <2> QED
      BY <2>1, <2>2, <2>3, <2>6, WithoutNone
  <1> QED
    BY <1>1, <1>4, <1>5, <1>6
LEMMA PassingNotSaved ==
    ASSUME NEW o
    PROVE  Passing(o) \cap (CalleeSaved \ Fp) = {}
  <1>1. \A q \in DOMAIN GpArgRegs : GpArgRegs[q] \notin CalleeSaved
    BY RegisterAssumption DEF ToSet
  <1>2. \A q \in DOMAIN FpArgRegs : FpArgRegs[q] \in Fp
    BY RegisterAssumption, ElementOfSeq
  <1> QED
    BY <1>1, <1>2 DEF Passing, FirstRegs

LEMMA PrepareSettles == IInv /\ MInv /\ AssignPrepare => MInv'
  <1> SUFFICES ASSUME IInv, MInv, AssignPrepare PROVE MInv'
    OBVIOUS
  <1>1. /\ phase = "assign" /\ operand = 0 /\ cur <= Len(prog) /\ Kind = "PREPARE"
        /\ Kind # "PROLOG" /\ UNCHANGED <<prog, r_arg>>
    BY DEF AssignPrepare, Beginning
  <1>2. /\ cur \in Ops /\ Inherited \in Map /\ Clean(Inherited) /\ live_in[cur] \subseteq VReg
        /\ live_in[cur] = prog[cur].use \cup (live_out[cur] \ prog[cur].def)
        /\ OperandsFormed(prog, cur)
    BY <1>1, CurFacts
  <1>3. PICK ret \in RetRegCleared(cur, Inherited) :
          LET map    == ret[1]
              gone   == {v \in VReg : map[v] \in Passing(cur)}
              unload == {v \in gone : v \in live_out[cur] /\ map[v] # FpRetReg}
          IN Give(Without(map, gone),
                  ret[2] \o FpRetSync(map) \o Unload(unload, map), Skip)
    BY DEF AssignPrepare
  <1> DEFINE map    == ret[1]
             first  == ret[2]
             gone   == {v \in VReg : map[v] \in Passing(cur)}
             unload == {v \in gone : v \in live_out[cur] /\ map[v] # FpRetReg}
             sync   == Owners(map, FpRetReg)
             rest   == FpRetSync(map) \o Unload(unload, map)
             moves  == first \o FpRetSync(map) \o Unload(unload, map)
             L      == live_in[cur]
             after  == Without(map, gone)
  <1>4. map \in Map /\ Clean(map) /\ first \in Seq(Move)
    BY <1>2, RetRegClearedClean
  <1>5. after \in Map
    BY <1>4, WithoutClean
  <1>6. sync \subseteq Mapped(map) /\ unload \subseteq Mapped(map)
    BY PassingTyped, RegisterAssumption DEF Owners, Mapped
  <1>7. L = live_out[cur]
    <2>1. prog[cur].args = <<>> /\ prog[cur].use \cup prog[cur].def = ToSet(prog[cur].args)
      BY <1>1, <1>2 DEF OperandsFormed, Kind
    <2> QED
      BY <2>1, <1>2 DEF ToSet
  <1>8. IsStores(FpRetSync(map), sync, map) /\ IsStores(Unload(unload, map), unload, map)
    BY <1>4, <1>6, StoresAndLoads DEF FpRetSync
  <1>9. IsStores(rest, sync \cup unload, map) /\ rest \in Seq(Move)
    <2> HIDE DEF map, unload, sync
    <2>1. IsStores(rest, sync \cup unload, map)
      BY <1>8, StoresTogether
    <2> QED
      BY <2>1 DEF IsStores
  <1>10. moves = first \o rest
    <2>1. FpRetSync(map) \in Seq(Move) /\ Unload(unload, map) \in Seq(Move)
      BY <1>8 DEF IsStores
    <2> HIDE DEF map, first, unload
    <2> QED
      BY <2>1, <1>4, ConcatAssociative
  <1>11. Give(after, moves, Skip)
    BY <1>3
  <1>12. /\ Ready(first, map, L, Owners(map, RetReg), Held(Inherited), Stored(Inherited))
         /\ \A j \in DOMAIN first :
              /\ first[j].move # "LREG"
              /\ first[j].move = "RENAMEREG" => first[j].to \in CalleeSaved \ Fp
    BY <1>2, RetRegReady
  <1>13. /\ L \cap gone \cap Mapped(map) \subseteq sync \cup unload
         /\ L \cap sync \cap Mapped(map) \subseteq sync \cup unload
         /\ \A v \in sync \cup unload : map[v] \notin CalleeSaved \ Fp
    BY <1>7, PassingNotSaved, RegisterAssumption DEF Owners
  <1>14. \A v \in VReg : after[v] \notin Passing(cur)
    BY PassingTyped, RegisterAssumption DEF Without
  <1>15. Returning(after) \subseteq Owners(map, RetReg) \cup sync
    BY RegisterAssumption DEF Returning, Without, Owners
  <1> HIDE DEF map, first, gone, unload, sync, rest, moves, L
  <1>16. Ready(rest, after, L, sync, Held(map), Stored(map))
    BY <1>2, <1>4, <1>6, <1>9, <1>13, StoresReady DEF L
  <1> HIDE DEF after
  <1>17. Ready(first \o rest, after, L, Owners(map, RetReg) \cup sync,
               Held(Inherited), Stored(Inherited))
    <2>1. \A j \in DOMAIN rest : /\ rest[j].move # "RENAMEREG"
                                 /\ rest[j].h \notin CalleeSaved \ Fp
      BY <1>9, <1>13 DEF IsStores
    <2>2. \A j \in DOMAIN first, k \in DOMAIN rest :
             rest[k].move = "UREG" /\ rest[k].v \in L =>
                /\ first[j].move = "LREG" => first[j].v # rest[k].v
                /\ first[j].move = "RENAMEREG" => first[j].to # rest[k].h
      BY <2>1, <1>12
    <2>3. \A j \in DOMAIN first : first[j].move = "LREG" => after[first[j].v] = map[first[j].v]
      BY <1>12
    <2>4. L \subseteq VReg
      BY <1>2 DEF L
    <2> QED
      BY <2>1, <2>2, <2>3, <2>4, <1>4, <1>5, <1>9, <1>12, <1>16, ReadyThen
  <1>18. Ready(moves, after, L, Returning(after), Held(Inherited), Stored(Inherited))
    <2>1. first \o rest \in Seq(Move) /\ L \subseteq VReg
      BY <1>2, <1>4, <1>9, ConcatProperties DEF L
    <2> QED
      BY <2>1, <1>5, <1>10, <1>15, <1>17, ReadyMonotone
  <1>19. Fine(prog[cur], prog[cur - 1], Inherited, after, moves, live_in[cur], live_out[cur])
    <2>1. /\ Needs(prog[cur], live_in[cur]) = L
          /\ Kept(prog[cur], after, live_out[cur]) = Returning(after)
          /\ Surviving(prog[cur], Inherited) = {}
          /\ Stored(Inherited) \cup {} = Stored(Inherited)
      BY <1>1 DEF Needs, Kept, Surviving, Kind, L
    <2> QED
      BY <2>1, <1>1, <1>18 DEF Fine, Kind, Still, Placing, IsLabel
  <1>20. moves \in Seq(Move) /\ Kind \notin Placing
    BY <1>1, <1>4, <1>9, <1>10, ConcatProperties DEF Placing
  <1> QED
    BY <1>1, <1>5, <1>11, <1>14, <1>19, <1>20, BeginSettles
LEMMA OperandReady ==
    ASSUME IInv, MInv, AtOperand
    PROVE  /\ cur # 1 /\ cur \in Ops /\ Kind \in Placing /\ WellFormed(prog)
           /\ Args \in Seq(VReg) /\ Len(Args) \in Nat /\ operand \in 1 .. Len(Args)
           /\ regmap[cur] \in Map /\ before[cur] \in Seq(Move) /\ live_in[cur] \subseteq VReg
           /\ \A i \in 1 .. operand - 1 : r_arg[cur][Args[i]] # NoReg
           /\ Fine(prog[cur], prog[cur - 1], regmap[cur - 1], regmap[cur], before[cur],
                   live_in[cur], live_out[cur])
  <1>1. /\ cur \in Ops /\ WellFormed(prog) /\ Len(Args) \in Nat /\ operand \in 1 .. Len(Args)
        /\ phase = "assign" /\ operand # 0
    BY OperandFacts DEF AtOperand
  <1>2. Kind \in Placing /\ \A i \in 1 .. operand - 1 : r_arg[cur][Args[i]] # NoReg
    BY <1>1 DEF MInv, Partial
  <1>3. cur # 1
    BY <1>1, <1>2, ProgFacts DEF Placing, Kind
  <1>4. Fine(prog[cur], prog[cur - 1], regmap[cur - 1], regmap[cur], before[cur],
             live_in[cur], live_out[cur])
    BY <1>1, <1>3 DEF MInv, Settled, Done
  <1>5. regmap[cur] \in Map /\ before[cur] \in Seq(Move) /\ live_in[cur] \subseteq VReg
    BY <1>1 DEF IInv, TypeOK
  <1> QED
    BY <1>1, <1>2, <1>3, <1>4, <1>5, ProgFacts DEF Args

LEMMA PlaceSettles ==
    ASSUME IInv, MInv, AtOperand, NEW map \in Map, NEW moves \in Seq(Move), NEW h \in HReg,
           Give(map, moves, operand + 1), prog' = prog,
           r_arg' = [r_arg EXCEPT ![cur][Args[operand]] = h],
           Fine(prog[cur], prog[cur - 1], regmap[cur - 1], map, before[cur] \o moves,
                live_in[cur], live_out[cur])
    PROVE  MInv'
  <1>1. /\ cur # 1 /\ cur \in Ops /\ Kind \in Placing /\ WellFormed(prog)
        /\ Args \in Seq(VReg) /\ Len(Args) \in Nat /\ operand \in 1 .. Len(Args)
        /\ \A i \in 1 .. operand - 1 : r_arg[cur][Args[i]] # NoReg
        /\ phase = "assign" /\ cur <= Len(prog)
    BY OperandReady, OperandFacts
  <1>2. SameList /\ NowFine(map, moves) /\ operand + 1 \in 1 .. (Len(Args) + 1)
    BY <1>1, ListUnchanged DEF NowFine
  <1>3. r_arg \in [Ops -> Map] /\ Kind # "PREPARE" /\ Kind # "NOP"
    BY <1>1 DEF IInv, TypeOK, Placing
  <1>4. \A o \in Ops \ {cur} : r_arg'[o] = r_arg[o]
    BY <1>1, <1>3
  <1>5. \A i \in 1 .. operand : Args[i] \in VReg /\ r_arg'[cur][Args[i]] # NoReg
    <2> SUFFICES ASSUME NEW i \in 1 .. operand
                 PROVE  Args[i] \in VReg /\ r_arg'[cur][Args[i]] # NoReg
      OBVIOUS
    <2>1. Args[i] \in VReg /\ Args[operand] \in VReg
      BY <1>1
    <2>2. r_arg'[cur][Args[operand]] = h
      BY <2>1, <1>1, <1>3 DEF Map
    <2>3. CASE Args[i] = Args[operand]
      BY <2>1, <2>2, <2>3, RegisterAssumption
    <2>4. CASE Args[i] # Args[operand]
      <3>1. r_arg'[cur][Args[i]] = r_arg[cur][Args[i]]
        BY <2>1, <2>4, <1>1, <1>3 DEF Map
      <3>2. i \in 1 .. operand - 1
        BY <2>4, <1>1
      <3> QED
        BY <2>1, <3>1, <3>2, <1>1
    <2> QED
      BY <2>3, <2>4
  <1>6. NowComplete(operand + 1)
    <2>1. CASE operand + 1 <= Len(Args)
      BY <2>1, <1>1, <1>5 DEF NowComplete, Kind
    <2>2. CASE ~(operand + 1 <= Len(Args))
      <3>1. \A v \in ToSet(Args) : r_arg'[cur][v] # NoReg
        BY <2>2, <1>1, <1>5 DEF ToSet
      <3> QED
        BY <2>2, <3>1, <1>3 DEF NowComplete, Complete, Kind, Args
    <2> QED
      BY <2>1, <2>2
  <1> QED
    BY <1>1, <1>2, <1>3, <1>4, <1>6, GiveSettles

LEMMA AssociatedSettles == IInv /\ MInv /\ OperandAssociated => MInv'
  <1> SUFFICES ASSUME IInv, MInv, OperandAssociated PROVE MInv'
    OBVIOUS
  <1> DEFINE h == regmap[cur][Args[operand]]
  <1>1. /\ AtOperand /\ h # NoReg /\ Give(regmap[cur], <<>>, operand + 1) /\ prog' = prog
        /\ r_arg' = [r_arg EXCEPT ![cur][Args[operand]] = h]
    BY DEF OperandAssociated
  <1>2. /\ regmap[cur] \in Map /\ before[cur] \o <<>> = before[cur]
        /\ Fine(prog[cur], prog[cur - 1], regmap[cur - 1], regmap[cur], before[cur],
                live_in[cur], live_out[cur])
    BY <1>1, OperandReady, ConcatEmptySeq
  <1>3. h \in HReg
    BY <1>1, OperandFacts DEF Map
  <1> HIDE DEF h
  <1> QED
    BY <1>1, <1>2, <1>3, EmptySeq, PlaceSettles

(* associate_register with make_free_reg: what the candidate displaces is  *)
(* stored, then the operand is loaded if its value is needed.              *)
LEMMA ToRegisterSettles == IInv /\ MInv /\ OperandToRegister => MInv'
  <1> SUFFICES ASSUME IInv, MInv, OperandToRegister PROVE MInv'
    OBVIOUS
  <1> DEFINE v == Args[operand]
             map == regmap[cur]
             L == live_in[cur]
             after(h) == [Without(map, Owners(map, h)) EXCEPT ![v] = h]
             own(h) == IF v \in L THEN <<Lreg(v, h)>> ELSE <<>>
  <1>1. AtOperand /\ map[v] = NoReg /\ prog' = prog
    BY DEF OperandToRegister
  <1>2. PICK h \in Candidates(cur, v, map) :
          /\ Give(after(h), Unload(Displaced(cur, map, h), map) \o own(h), operand + 1)
          /\ r_arg' = [r_arg EXCEPT ![cur][v] = h]
    BY DEF OperandToRegister
  <1>3. /\ v \in VReg /\ v \in ToSet(Args) /\ map \in Map /\ Clean(map)
        /\ Kind \in Placing /\ before[cur] \in Seq(Move) /\ L \subseteq VReg
        /\ Fine(prog[cur], prog[cur - 1], regmap[cur - 1], map, before[cur], L, live_out[cur])
        /\ WellFormed(prog) /\ cur \in Ops
    BY <1>1, OperandFacts, OperandReady
  <1>4. h \in HReg /\ SameClass(v, h) /\ Owners(map, h) \cap ToSet(Args) = {}
    BY <1>2 DEF Candidates, Pinned, Args
  <1> DEFINE was == before[cur]
             from == regmap[cur - 1]
             out == live_out[cur]
             D == Displaced(cur, map, h)
             stores == Unload(D, map)
             loads == own(h)
             rest == Without(map, Owners(map, h))
             new == after(h)
             K == Kept(prog[cur], map, out)
             I == Stored(from) \cup Surviving(prog[cur], from)
  <1>5. Give(new, stores \o loads, operand + 1) /\ r_arg' = [r_arg EXCEPT ![cur][Args[operand]] = h]
    BY <1>2
  <1>6. D = Owners(map, h) \cap L /\ D \subseteq Mapped(map)
    BY <1>4, RegisterAssumption DEF Displaced, Owners, Mapped
  <1>7. IsStores(stores, D, map) /\ stores \in Seq(Move)
    BY <1>3, <1>6, StoresAndLoads DEF IsStores
  <1>8. v \in L => loads = <<Lreg(v, h)>>
    OBVIOUS
  <1>9. v \notin L => loads = <<>>
    OBVIOUS
  <1> HIDE DEF v, map, L, D, stores, loads
  <1>10. /\ rest \in Map /\ Clean(rest) /\ Owners(rest, h) = {}
         /\ \A u \in VReg : u \notin Owners(map, h) => rest[u] = map[u]
    BY <1>3, <1>4, WithoutClean
  <1>11. /\ new \in Map /\ Clean(new) /\ new[v] = h
         /\ \A u \in VReg : u # v => new[u] = rest[u]
    <2>1. new \in Map /\ Clean(new)
      BY <1>3, <1>4, <1>10, MovedClean
    <2> QED
      BY <2>1, <1>3, <1>10 DEF Map
  <1>12. /\ Ready(was, map, L, K, Held(from), I)
         /\ \A j \in DOMAIN was : /\ was[j].move # "RENAMEREG"
                                  /\ was[j].move = "LREG" => was[j].v \in ToSet(Args)
    <2>1. Needs(prog[cur], L) = L /\ FallsInto(prog[cur], prog[cur - 1])
      BY <1>3 DEF Needs, FallsInto, Kind, Placing
    <2> QED
      BY <2>1, <1>3 DEF Fine, Kind, Args
  <1> HIDE DEF was, from, out, rest, new, K, I
  <1>13. Ready(stores, rest, L, {}, Held(map), Stored(map))
    BY <1>3, <1>6, <1>7, StoresReady DEF rest
  <1>14. \A j \in DOMAIN stores : /\ stores[j].move = "UREG"
                                  /\ stores[j].v \notin ToSet(Args)
    BY <1>4, <1>6, <1>7 DEF IsStores
  <1>15. Ready(was \o stores, rest, L, K \cup {}, Held(from), I)
    <2>1. \A j \in DOMAIN was : was[j].move = "LREG" => rest[was[j].v] = map[was[j].v]
      <3>1. ToSet(Args) \subseteq VReg
        BY <1>3, ProgFacts DEF Args
      <3> QED
        BY <3>1, <1>4, <1>10, <1>12
    <2> QED
      BY <2>1, <1>3, <1>7, <1>10, <1>12, <1>13, <1>14, ReadyThen DEF was
  <1>16. was \o stores \in Seq(Move)
    BY <1>3, <1>7, ConcatProperties DEF was
  <1>17. \A j \in DOMAIN (was \o stores) :
           /\ (was \o stores)[j].move # "RENAMEREG"
           /\ (was \o stores)[j].move = "LREG" => /\ (was \o stores)[j].v \in ToSet(Args)
                                                  /\ (was \o stores)[j].v # v
    <2>1. Fits(was, map)
      BY <1>12 DEF Ready
    <2>2. \A j \in DOMAIN was : was[j] \in Move
      BY <1>3, ElementOfSeq, LenProperties DEF was
    <2>3. \A j \in DOMAIN was : was[j].move = "LREG" => was[j].v # v
      BY <2>1, <2>2, <1>1, <1>3, RegisterAssumption DEF Fits, Move
    <2>4. \A j \in DOMAIN (was \o stores) :
             \/ j \in DOMAIN was /\ (was \o stores)[j] = was[j]
             \/ \E k \in DOMAIN stores : (was \o stores)[j] = stores[k]
      <3>1. /\ Len(was) \in Nat /\ Len(stores) \in Nat
            /\ DOMAIN was = 1 .. Len(was) /\ DOMAIN stores = 1 .. Len(stores)
            /\ DOMAIN (was \o stores) = 1 .. Len(was) + Len(stores)
            /\ \A j \in 1 .. Len(was) + Len(stores) :
                 (was \o stores)[j] = IF j <= Len(was) THEN was[j] ELSE stores[j - Len(was)]
        BY <1>3, <1>7, ConcatProperties, LenProperties DEF was
      <3>2. ASSUME NEW j \in 1 .. Len(was) + Len(stores), ~(j <= Len(was))
            PROVE  j - Len(was) \in DOMAIN stores /\ (was \o stores)[j] = stores[j - Len(was)]
        BY <3>1, <3>2
      <3> QED
        BY <3>1, <3>2
    <2> QED
      BY <2>3, <2>4, <1>12, <1>14
  <1>18. /\ loads \in Seq(Move) /\ Ready(loads, new, L, {}, Held(rest), Stored(rest))
         /\ \A k \in DOMAIN loads : loads[k] = Lreg(v, h)
    <2>1. rest[v] = NoReg
      BY <1>1, <1>3, <1>4, <1>10, RegisterAssumption DEF Owners
    <2>2. \A u \in L : u # v => rest[u] = new[u]
      BY <1>3, <1>11
    <2>3. CASE v \in L
      <3>1. Lreg(v, h) \in Move
        BY <1>3, <1>4 DEF Lreg, Move
      <3>2. /\ loads \in Seq(Move) /\ DOMAIN loads = {1} /\ loads[1] = Lreg(v, h)
        BY <2>3, <3>1, <1>8, OneMove
      <3>3. IsLoads(loads, {v}, new)
        BY <3>2, <1>11 DEF IsLoads, Lreg
      <3>4. {v} \subseteq Mapped(new)
        BY <1>3, <1>4, <1>11, RegisterAssumption DEF Mapped
      <3>5. \A u \in L : IF u \in {v} THEN rest[u] = NoReg ELSE rest[u] = new[u]
        BY <2>1, <2>2
      <3>6. Ready(loads, new, L, {}, Held(rest), Stored(rest))
        BY <3>3, <3>4, <3>5, <1>3, <1>10, <1>11, LoadsReady
      <3> QED
        BY <3>2, <3>6
    <2>4. CASE v \notin L
      <3>1. loads = <<>>
        BY <2>4, <1>9
      <3>2. \A u \in L : /\ new[u] # NoReg => u \in Held(rest)[new[u]]
                         /\ new[u] = NoReg => u \in Stored(rest)
        BY <2>2, <2>4, <1>3, <1>10, <1>11 DEF Map, Held, Stored, Owners, Mapped
      <3>3. Ready(<<>>, new, L, {}, Held(rest), Stored(rest))
        BY <3>2, ReadyNow
      <3> QED
        BY <3>1, <3>3, EmptySeq
    <2> QED
      BY <2>3, <2>4
  <1>19. Ready((was \o stores) \o loads, new, L, (K \cup {}) \cup {}, Held(from), I)
    <2>1. \A k \in DOMAIN loads : loads[k].move = "LREG"
      BY <1>18 DEF Lreg
    <2>2. \A j \in DOMAIN (was \o stores) : (was \o stores)[j].move = "LREG" =>
             new[(was \o stores)[j].v] = rest[(was \o stores)[j].v]
      <3>1. ToSet(Args) \subseteq VReg
        BY <1>3, ProgFacts DEF Args
      <3> QED
        BY <3>1, <1>11, <1>17
    <2> QED
      BY <2>1, <2>2, <1>3, <1>10, <1>11, <1>15, <1>16, <1>18, ReadyThen
  <1>20. (was \o stores) \o loads = was \o (stores \o loads) /\ stores \o loads \in Seq(Move)
    <2>1. was \in Seq(Move) /\ stores \in Seq(Move) /\ loads \in Seq(Move)
      BY <1>3, <1>7, <1>18 DEF was
    <2>2. (was \o stores) \o loads = was \o (stores \o loads)
      BY <2>1, ConcatAssociative
    <2> QED
      BY <2>1, <2>2, ConcatProperties
  <1>21. \A j \in DOMAIN ((was \o stores) \o loads) :
           /\ ((was \o stores) \o loads)[j].move # "RENAMEREG"
           /\ ((was \o stores) \o loads)[j].move = "LREG" =>
                ((was \o stores) \o loads)[j].v \in ToSet(Args)
    <2> DEFINE ws == was \o stores
    <2>1. /\ Len(ws) \in Nat /\ Len(loads) \in Nat
          /\ DOMAIN ws = 1 .. Len(ws) /\ DOMAIN loads = 1 .. Len(loads)
          /\ DOMAIN (ws \o loads) = 1 .. Len(ws) + Len(loads)
          /\ \A j \in 1 .. Len(ws) + Len(loads) :
               (ws \o loads)[j] = IF j <= Len(ws) THEN ws[j] ELSE loads[j - Len(ws)]
      BY <1>16, <1>18, ConcatProperties, LenProperties
    <2>2. Lreg(v, h).move = "LREG" /\ Lreg(v, h).v \in ToSet(Args)
      BY <1>3 DEF Lreg
    <2> HIDE DEF ws
    <2>3. ASSUME NEW j \in 1 .. Len(ws) + Len(loads), ~(j <= Len(ws))
          PROVE  (ws \o loads)[j] = Lreg(v, h)
      BY <2>1, <2>3, <1>18
    <2>4. \A j \in DOMAIN ws : /\ ws[j].move # "RENAMEREG"
                               /\ ws[j].move = "LREG" => ws[j].v \in ToSet(Args)
      BY <1>17 DEF ws
    <2>5. \A j \in DOMAIN (ws \o loads) :
             /\ (ws \o loads)[j].move # "RENAMEREG"
             /\ (ws \o loads)[j].move = "LREG" => (ws \o loads)[j].v \in ToSet(Args)
      BY <2>1, <2>2, <2>3, <2>4
    <2> QED
      BY <2>5 DEF ws
  <1>22. Fine(prog[cur], prog[cur - 1], from, new, was \o (stores \o loads), L, out)
    <2>1. /\ Needs(prog[cur], L) = L /\ ~IsLabel(prog[cur])
          /\ prog[cur].kind \notin Still \cup {"CALL", "FULL_SPILL"}
          /\ K = Kept(prog[cur], new, out)
      <3>1. prog[cur].args # <<>>
        BY <1>3 DEF Args, ToSet
      <3> QED
        BY <3>1, <1>3 DEF Needs, Kept, K, Kind, Placing, Still, IsLabel
    <2>2. (K \cup {}) \cup {} = Kept(prog[cur], new, out)
      BY <2>1
    <2> QED
      BY <2>1, <2>2, <1>19, <1>20, <1>21 DEF Fine, I, Args, Still
  <1> QED
    BY <1>1, <1>4, <1>5, <1>11, <1>20, <1>22, PlaceSettles DEF was, from, out, L
-----------------------------------------------------------------------------
(* The passes over branches and jumps.                                     *)

LEMMA ReconcileReady ==
    ASSUME IInv, NEW o \in Ops, NEW t \in Ops, live_in[t] \subseteq live_out[o]
    PROVE  Joined(Reconcile(o, t), regmap[t], regmap[o], live_in[t])
  <1> DEFINE from == regmap[o]
             to == regmap[t]
             L == live_in[t]
             differ == {v \in VReg : from[v] # to[v]}
             A == differ \cap Mapped(from) \cap L
             B == differ \cap Mapped(to) \cap live_out[o]
             stores == Unload(A, from)
             loads == Load(B, to)
             mid == Without(from, A)
  <1>1. Reconcile(o, t) = stores \o loads
    BY DEF Reconcile
  <1>2. from \in Map /\ to \in Map /\ Clean(to) /\ L \subseteq VReg
    BY DEF IInv, TypeOK, OneOwner, Clean
  <1>3. A \subseteq Mapped(from) /\ B \subseteq Mapped(to)
    OBVIOUS
  <1>4. /\ \A v \in A : v \in differ /\ from[v] # NoReg
        /\ \A v \in L : v \in B \/ to[v] = from[v] \/ to[v] = NoReg
        /\ \A v \in L : v \in A \/ to[v] = from[v] \/ from[v] = NoReg
        /\ \A v \in B : from[v] # to[v]
        /\ \A v \in VReg : v \in differ <=> from[v] # to[v]
    BY <1>2 DEF Mapped
  <1> HIDE DEF A, B
  <1>5. IsStores(stores, A, from) /\ IsLoads(loads, B, to)
    BY <1>2, <1>3, StoresAndLoads
  <1> HIDE DEF stores, loads, from, to, L
  <1>6. Ready(stores, mid, L, {}, Held(from), Stored(from))
    BY <1>2, <1>3, <1>5, StoresReady
  <1>7. mid \in Map /\ \A v \in VReg : mid[v] = IF v \in A THEN NoReg ELSE from[v]
    BY <1>2 DEF Without, Map
  <1> HIDE DEF mid
  <1>8. Ready(loads, to, L, {}, Held(mid), Stored(mid))
    <2>1. \A v \in L : IF v \in B THEN mid[v] = NoReg ELSE mid[v] = to[v]
      BY <1>2, <1>4, <1>7 DEF differ
    <2> QED
      BY <2>1, <1>2, <1>3, <1>5, <1>7, LoadsReady
  <1>9. Ready(stores \o loads, to, L, {} \cup {}, Held(from), Stored(from))
    <2>1. stores \in Seq(Move) /\ loads \in Seq(Move)
      BY <1>5 DEF IsStores, IsLoads
    <2>2. /\ \A j \in DOMAIN stores : stores[j].move = "UREG"
          /\ \A j \in DOMAIN loads : loads[j].move = "LREG"
      BY <1>5 DEF IsStores, IsLoads
    <2> QED
      BY <2>1, <2>2, <1>2, <1>6, <1>7, <1>8, ReadyThen
  <1>10. {} \cup {} = {}
    OBVIOUS
  <1> QED
    BY <1>1, <1>9, <1>10 DEF Joined, from, to, L

(* What is live where a jump leads is live behind the jump. *)
LEMMA JumpLive ==
    ASSUME WellFormed(prog), LiveEqs, NEW o \in Ops, prog[o].jmp # 0,
           prog[o].kind # "REF_CODE"
    PROVE  /\ prog[o].jmp \in Ops /\ prog[o].jmp \in Succ(prog, o)
           /\ live_in[prog[o].jmp] \subseteq live_out[o]
  <1>1. prog[o].jmp \in Ops
    BY Flow
  <1>2. prog[o].jmp \in Succ(prog, o)
    BY DEF Succ
  <1>3. live_out[o] = UNION {live_in[s] : s \in Succ(prog, o)}
    BY DEF LiveEqs
  <1> QED
    BY <1>1, <1>2, <1>3

LEMMA StartSettles == IInv /\ MInv /\ StartAdjusting => MInv'
  <1> SUFFICES ASSUME IInv, MInv, StartAdjusting PROVE MInv'
    OBVIOUS
  <1>1. /\ cur > Len(prog) /\ phase' = "branches" /\ phase = "assign"
        /\ prog' = prog /\ live_in' = live_in /\ live_out' = live_out /\ cur' = cur
        /\ operand' = operand /\ regmap' = regmap /\ r_arg' = r_arg /\ before' = before
        /\ inverted' = inverted /\ detour' = detour
    BY DEF StartAdjusting
  <1>2. cur = Len(prog) + 1
    BY <1>1, ProgFacts DEF IInv, TypeOK
  <1>3. LiveEqs' /\ Pending' /\ Vacated' /\ Completed' /\ Partial' /\ Ended' /\ Agree'
    <2>1. LiveEqs' /\ Pending'
      BY <1>1 DEF MInv, LiveEqs, Pending, Done, Ops
    <2>2. Vacated'
      BY <1>1 DEF MInv, Vacated, Done, Ops, Passing, ArgCount
    <2>3. Completed' /\ Partial'
      BY <1>1 DEF MInv, Completed, Partial, Ops, Kind, Args
    <2>4. Ended' /\ Agree'
      BY <1>1, <1>2 DEF Ended, Agree
    <2> QED
      BY <2>1, <2>2, <2>3, <2>4
  <1>4. Settled'
    BY <1>1 DEF MInv, Settled, Done, Ops
  <1> QED
    BY <1>3, <1>4 DEF MInv

LEMMA BranchesSettle == IInv /\ MInv /\ AdjustBranches => MInv'
  <1> SUFFICES ASSUME IInv, MInv, AdjustBranches PROVE MInv'
    OBVIOUS
  <1>1. /\ phase = "branches" /\ phase' = "jumps"
        /\ inverted' = {o \in Ops : prog[o].kind \in Branches /\ ~SameMaps(o, prog[o].jmp)}
        /\ prog' = prog /\ live_in' = live_in /\ live_out' = live_out /\ cur' = cur
        /\ operand' = operand /\ regmap' = regmap /\ r_arg' = r_arg /\ before' = before
        /\ detour' = detour
    BY DEF AdjustBranches
  <1>2. LiveEqs' /\ Pending' /\ Vacated' /\ Completed' /\ Partial' /\ Ended'
    <2>1. LiveEqs' /\ Pending'
      BY <1>1 DEF MInv, LiveEqs, Pending, Done, Ops
    <2>2. Vacated'
      BY <1>1 DEF MInv, Vacated, Done, Ops, Passing, ArgCount
    <2>3. Completed' /\ Partial'
      BY <1>1 DEF MInv, Completed, Partial, Ops, Kind, Args
    <2>4. Ended'
      BY <1>1 DEF MInv, Ended
    <2> QED
      BY <2>1, <2>2, <2>3, <2>4
  <1>3. Settled'
    BY <1>1 DEF MInv, Settled, Done, Ops
  <1>4. Agree'
    <2>1. \A o \in Ops : prog[o].kind \in Branches /\ o \notin inverted' =>
            SameMaps(o, prog[o].jmp)
      BY <1>1
    <2>2. \A o \in Ops : SameMaps(o, prog[o].jmp) => SameMaps(o, prog[o].jmp)'
      BY <1>1 DEF SameMaps
    <2> QED
      BY <2>1, <2>2, <1>1 DEF Agree, Ops
  <1> QED
    BY <1>2, <1>3, <1>4 DEF MInv

LEMMA JumpsSettle == IInv /\ MInv /\ AdjustJumps => MInv'
  <1> SUFFICES ASSUME IInv, MInv, AdjustJumps PROVE MInv'
    OBVIOUS
  <1>1. /\ phase = "jumps" /\ phase' = "allocated"
        /\ before' = [o \in Ops |-> IF prog[o].kind = "JMPI"
                                    THEN before[o] \o Reconcile(o, prog[o].jmp) ELSE before[o]]
        /\ detour' = [o \in Ops |-> IF o \in inverted THEN Reconcile(o, prog[o].jmp) ELSE <<>>]
        /\ prog' = prog /\ live_in' = live_in /\ live_out' = live_out /\ cur' = cur
        /\ operand' = operand /\ regmap' = regmap /\ r_arg' = r_arg /\ inverted' = inverted
    BY DEF AdjustJumps
  <1>2. /\ WellFormed(prog) /\ Ops = 1 .. Len(prog) /\ Len(prog) \in Nat /\ Ops' = Ops
        /\ cur = Len(prog) + 1
    BY <1>1, ProgFacts DEF IInv, TypeOK, MInv, Ended, Ops
  <1>3. \A o \in Ops : Done(o) /\ Done(o)'
    BY <1>1, <1>2 DEF Done
  <1>4. LiveEqs' /\ Vacated' /\ Completed' /\ Partial' /\ Ended'
    <2>1. LiveEqs' /\ Ended'
      BY <1>1 DEF MInv, LiveEqs, Ended, Ops
    <2>2. Vacated'
      BY <1>1 DEF MInv, Vacated, Done, Ops, Passing, ArgCount
    <2>3. Completed' /\ Partial'
      BY <1>1 DEF MInv, Completed, Partial, Ops, Kind, Args
    <2> QED
      BY <2>1, <2>2, <2>3
  <1>5. \A o \in Ops : prog[o].kind # "JMPI" => before'[o] = before[o]
    BY <1>1
  <1>6. Pending'
    <2>1. \A o \in Ops : o = 1 => prog[o].kind = "PROLOG"
      BY <1>2, ProgFacts
    <2> QED
      BY <2>1, <1>2, <1>3, <1>5 DEF MInv, Pending
  <1>7. Settled'
    BY <1>1, <1>2, <1>3, <1>5 DEF MInv, Settled
  <1>8. ASSUME NEW o \in Ops, prog[o].jmp # 0, prog[o].kind # "REF_CODE"
        PROVE  Joined(Reconcile(o, prog[o].jmp), regmap[prog[o].jmp], regmap[o],
                      live_in[prog[o].jmp])
    <2>1. prog[o].jmp \in Ops /\ live_in[prog[o].jmp] \subseteq live_out[o]
      BY <1>2, <1>8, JumpLive DEF MInv
    <2> QED
      BY <2>1, ReconcileReady
  <1>9. ASSUME NEW o \in Ops, prog[o].kind = "JMPI"
        PROVE  Joined(before'[o], regmap[prog[o].jmp], regmap[o - 1], live_in[prog[o].jmp])
    <2>1. o # 1 /\ prog[o].jmp # 0
      BY <1>2, <1>9, ProgFacts DEF WellFormed, JumpsFormed, Ops
    <2>2. regmap[o] = regmap[o - 1] /\ before[o] = <<>>
      BY <2>1, <1>1, <1>3, <1>9 DEF MInv, Settled, Fine, Still
    <2>3. before'[o] = Reconcile(o, prog[o].jmp)
      <3>1. Reconcile(o, prog[o].jmp) \in Seq(Move)
        BY <2>1, <1>2, JumpLive, ReconcileTyped, <1>9 DEF MInv, IInv, TypeOK
      <3>2. before'[o] = <<>> \o Reconcile(o, prog[o].jmp)
        BY <2>2, <1>1, <1>9
      <3> QED
        BY <3>1, <3>2, ConcatEmptySeq
    <2>4. Joined(Reconcile(o, prog[o].jmp), regmap[prog[o].jmp], regmap[o],
                 live_in[prog[o].jmp])
      BY <2>1, <1>8, <1>9
    <2> QED
      BY <2>2, <2>3, <2>4
  <1>10. ASSUME NEW o \in inverted
         PROVE  Joined(detour'[o], regmap[prog[o].jmp], regmap[o], live_in[prog[o].jmp])
    <2>1. o \in Ops /\ prog[o].jmp # 0 /\ prog[o].kind # "REF_CODE"
      BY DEF IInv, TypeOK, Turned, Branches
    <2>2. detour'[o] = Reconcile(o, prog[o].jmp)
      BY <2>1, <1>1
    <2> QED
      BY <2>1, <2>2, <1>8
  <1>11. Agree'
    <2>1. \A o \in Ops : prog[o].kind \in Branches /\ o \notin inverted =>
            SameMaps(o, prog[o].jmp)
      BY <1>1 DEF MInv, Agree
    <2>2. \A o \in Ops : SameMaps(o, prog[o].jmp) => SameMaps(o, prog[o].jmp)'
      BY <1>1 DEF SameMaps
    <2>3. \A o \in Ops : prog[o].kind \in Branches /\ o \notin inverted =>
            SameMaps(o, prog[o].jmp)'
      BY <2>1, <2>2
    <2> QED
      BY <2>3, <1>1, <1>2, <1>9, <1>10 DEF Agree
  <1> QED
    BY <1>4, <1>6, <1>7, <1>11 DEF MInv
-----------------------------------------------------------------------------
(* The invariant.                                                          *)

LEMMA MovesInitially == Init => MInv
  <1> SUFFICES ASSUME Init PROVE MInv
    OBVIOUS
  <1>1. /\ WellFormed(prog) /\ live_in = LiveIn(prog) /\ live_out = LiveOut(prog)
        /\ phase = "assign" /\ cur = 1 /\ operand = 0
        /\ before = [o \in DOMAIN prog |-> <<>>]
    BY ProgramsAssumption DEF Init
  <1>2. LiveEqs
    BY <1>1, LiveInSolves
  <1>3. Ops = 1 .. Len(prog) /\ Len(prog) \in Nat
    BY <1>1, ProgFacts
  <1>4. \A o \in Ops : ~Done(o) /\ ~(o < cur) /\ before[o] = <<>>
    BY <1>1, <1>3 DEF Done, Ops
  <1> QED
    BY <1>1, <1>2, <1>4 DEF MInv, Pending, Settled, Vacated, Completed, Partial, Ended, Agree

LEMMA MovesStutter == MInv /\ UNCHANGED allocVars => MInv'
  <1> SUFFICES ASSUME MInv, UNCHANGED allocVars PROVE MInv'
    OBVIOUS
  <1>1. /\ prog' = prog /\ live_in' = live_in /\ live_out' = live_out /\ cur' = cur
        /\ operand' = operand /\ regmap' = regmap /\ r_arg' = r_arg /\ before' = before
        /\ inverted' = inverted /\ detour' = detour /\ phase' = phase
    BY DEF allocVars
  <1>2. LiveEqs' /\ Pending' /\ Ended'
    BY <1>1 DEF MInv, LiveEqs, Pending, Done, Ops, Ended
  <1>3. Vacated'
    BY <1>1 DEF MInv, Vacated, Done, Ops, Passing, ArgCount
  <1>4. Completed' /\ Partial'
    BY <1>1 DEF MInv, Completed, Partial, Ops, Kind, Args
  <1>5. Settled' /\ Agree'
    BY <1>1 DEF MInv, Settled, Agree, SameMaps, Done, Ops
  <1> QED
    BY <1>2, <1>3, <1>4, <1>5 DEF MInv

LEMMA MovesInductive == IInv /\ MInv /\ [Next]_allocVars => MInv'
  BY PrologSettles, PlainSettles, GetArgFastSettles, PrepareSettles, CallSettles,
     RetValSettles, SpillSettles, AssociatedSettles, ToRegisterSettles, StartSettles,
     BranchesSettle, JumpsSettle, MovesStutter DEF Next

LEMMA MovesInvariance == Spec => []MInv
  <1> QED
    BY MovesInitially, MovesInductive, Invariance, PTL DEF Spec

(* The branches on bit masks, which the two last passes do not know.       *)
NoMasks(programs) == \A p \in programs : \A o \in DOMAIN p : p[o].kind # "BMS"

NoMask == \A o \in Ops : prog[o].kind # "BMS"

LEMMA NoMaskInvariance ==
    ASSUME NoMasks(Programs)
    PROVE  Spec => []NoMask
  <1>1. Init => NoMask
    BY DEF Init, NoMask, NoMasks, Ops
  <1>2. IInv /\ NoMask /\ [Next]_allocVars => NoMask'
    <2> SUFFICES ASSUME IInv, NoMask, [Next]_allocVars PROVE NoMask'
      OBVIOUS
    <2>1. CASE AssignGetArgFast
      <3>1. /\ cur \in Ops /\ WellFormed(prog) /\ prog[cur].kind = "GETARG"
            /\ BecomesNop(prog', cur)
        BY <2>1, InheritedFacts DEF AssignGetArgFast, Beginning, BecomesNop, Kind
      <3>2. /\ DOMAIN prog' = Ops /\ prog'[cur].kind = "NOP"
            /\ \A o \in Ops : o # cur => prog'[o] = prog[o]
        BY <3>1, NopWellFormed
      <3>3. \A o \in Ops : prog'[o].kind # "BMS"
        BY <3>2 DEF NoMask
      <3> QED
        BY <3>2, <3>3 DEF NoMask, Ops
    <2>2. CASE prog' = prog
      BY <2>2 DEF NoMask, Ops
    <2>3. AssignGetArgFast \/ prog' = prog
      BY DEF Next, AssignProlog, AssignPlain, AssignPutArg, AssignGetArg, AssignPrepare,
             AssignCall, AssignRetVal, AssignJmpr, AssignFullSpill, AssignForceSpill,
             OperandAssociated, OperandToRegister, StartAdjusting, AdjustBranches,
             AdjustJumps, allocVars
    <2> QED
      BY <2>1, <2>2, <2>3
  <1> QED
    BY <1>1, <1>2, Invariance, PTL DEF Spec

-----------------------------------------------------------------------------
(***************************************************************************)
(* The comment above branch_adjustment holds of every function without     *)
(* branches on bit masks, the only ones is_cond_branch_op does not know:   *)
(* the maps at both ends of a conditional jump are the same, or the branch *)
(* was turned around.                                                      *)
(***************************************************************************)
THEOREM EndsAgree ==
    ASSUME NoMasks(Programs)
    PROVE  Spec => []BranchMapsAgree
  <1>1. MInv /\ NoMask => BranchMapsAgree
    BY DEF MInv, Agree, NoMask, BranchMapsAgree
  <1>2. Spec => []NoMask
    BY NoMaskInvariance
  <1> QED
    BY <1>1, <1>2, MovesInvariance, PTL

-----------------------------------------------------------------------------
(***************************************************************************)
(* The code that runs, for every function: control never leaves the        *)
(* operations of the function but by a return, every move names a virtual  *)
(* and a hardware register, and every operation finds the current values   *)
(* of its operands.                                                        *)
(*                                                                         *)
(* The inductive invariant adds to the types that nothing runs before the  *)
(* allocator has ended (NotYet) and that the moves of an inserted JMP are  *)
(* those of a branch that was turned around (Detours), so they lead to a   *)
(* label; and, for the values (DInv), that the moves still to be executed  *)
(* bring everything to where it is wanted (OnTheWay), and that between a   *)
(* PREPARE and its CALL what is saved is what the registers hold (InCall). *)
(***************************************************************************)

NotYet == phase # "allocated" => at = 0 /\ ~leaving

Detours == leaving => at \in inverted

RunInv == RunTypeOK /\ NotYet /\ Detours

-----------------------------------------------------------------------------
(* Steps keep the types. *)

LEMMA GotoTyped ==
    ASSUME TypeOK, NEW o \in Ops, Goto(o)
    PROVE  at' \in Ops /\ todo' \in Seq(Move) /\ leaving' = FALSE
  BY DEF TypeOK, Goto

LEMMA DefineTyped ==
    ASSUME RunTypeOK, NEW v \in VReg, NEW h, Define(v, h)
    PROVE  inreg' \in [HReg -> SUBSET VReg] /\ inmem' \in SUBSET VReg
  BY DEF RunTypeOK, Define

LEMMA CompareTyped ==
    ASSUME WellFormed(prog), RunTypeOK, at \in Ops, Compare
    PROVE  inreg' \in [HReg -> SUBSET VReg] /\ inmem' \in SUBSET VReg
  <1>1. CASE prog[at].kind = "OVERFLOW"
    <2>1. prog[at].args # <<>> /\ prog[at].args \in Seq(VReg)
      BY <1>1, ProgFacts DEF WellFormed, OperandsFormed, Ops
    <2>2. prog[at].args[1] \in VReg
      BY <2>1
    <2> QED
      BY <1>1, <2>2, DefineTyped DEF Compare
  <1>2. CASE prog[at].kind # "OVERFLOW"
    BY <1>2 DEF Compare, RunTypeOK
  <1> QED
    BY <1>1, <1>2

-----------------------------------------------------------------------------
(* Each step keeps the invariant. *)

LEMMA RunInitially == SystemInit => RunInv
  <1> SUFFICES ASSUME SystemInit PROVE RunInv
    OBVIOUS
  <1>1. RunTypeOK
    <2>1. todo \in Seq(Move) /\ at = 0 /\ leaving = FALSE
      BY DEF SystemInit, RunInit
    <2>2. inreg \in [HReg -> SUBSET VReg] /\ inmem \in SUBSET VReg
      BY DEF SystemInit, RunInit
    <2>3. DOMAIN saved = {} /\ saved = [h \in DOMAIN saved |-> {}]
      BY Zenon DEF SystemInit, RunInit
    <2>4. saved \in [DOMAIN saved -> SUBSET VReg]
      BY <2>3
    <2> QED
      BY <2>1, <2>2, <2>3, <2>4 DEF RunTypeOK
  <1> QED
    BY <1>1 DEF SystemInit, Init, RunInit, RunInv, NotYet, Detours

(* The allocator steps only before it has ended. *)
LEMMA AllocatingPhase == Allocate => phase # "allocated"
  <1> SUFFICES ASSUME Allocate PROVE phase # "allocated"
    OBVIOUS
  <1>1. CASE AssignGetArgFast
    BY <1>1 DEF AssignGetArgFast, Beginning
  <1>2. CASE AtOperand
    BY <1>2 DEF AtOperand
  <1> QED
    BY <1>1, <1>2 DEF Allocate, Next, Beginning, AssignProlog, AssignPlain,
       AssignPutArg, AssignGetArg, AssignPrepare, AssignCall, AssignRetVal, AssignJmpr,
       AssignFullSpill, AssignForceSpill, OperandAssociated, OperandToRegister,
       StartAdjusting, AdjustBranches, AdjustJumps

LEMMA AllocateStep == RunInv /\ Allocate => RunInv'
  <1> SUFFICES ASSUME RunInv, Allocate PROVE RunInv'
    OBVIOUS
  <1>1. phase # "allocated"
    BY AllocatingPhase
  <1>2. UNCHANGED <<at, todo, leaving, inreg, inmem, saved>>
    BY DEF Allocate, runVars
  <1>3. at = 0 /\ ~leaving
    BY <1>1 DEF RunInv, NotYet
  <1> QED
    BY <1>2, <1>3 DEF RunInv, RunTypeOK, NotYet, Detours

(* A step of the running function changes no state of the allocator. *)
LEMMA RunKeeps ==
    ASSUME RunNext
    PROVE  UNCHANGED allocVars /\ phase = "allocated"
  BY DEF RunNext, Enter, Running, Executing, Moving, Moved, StoreSlot, LoadSlot,
         RenameReg, ExecOp, ExecPrepare, ExecCall, TakeBranch, Leave, FallThrough,
         Jump, JumpToAddress, Return

LEMMA EnterStep ==
    ASSUME IInv, RunInv, Enter
    PROVE  RunTypeOK' /\ Detours'
  <1>1. 1 \in Ops /\ Ops' = Ops
    BY Flow, ProgFacts DEF IInv, TypeOK, Enter, allocVars, Ops, WellFormed
  <1>2. inreg' \in [HReg -> SUBSET VReg] /\ inmem' \in SUBSET VReg
    BY DEF Enter, Owners
  <1>3. at' \in Ops /\ todo' \in Seq(Move) /\ leaving' = FALSE
    BY <1>1, GotoTyped DEF IInv, Enter
  <1> QED
    BY <1>1, <1>2, <1>3 DEF RunInv, RunTypeOK, Detours, Enter

LEMMA MoveStep ==
    ASSUME IInv, RunInv, StoreSlot \/ LoadSlot \/ RenameReg
    PROVE  RunTypeOK' /\ Detours'
  <1>1. UNCHANGED allocVars /\ Ops' = Ops /\ inverted' = inverted
    BY DEF StoreSlot, LoadSlot, RenameReg, Moved, allocVars, Ops
  <1>2. /\ todo \in Seq(Move) /\ todo # <<>>
        /\ UNCHANGED <<at, leaving, saved>> /\ todo' = Tail(todo)
    BY DEF RunInv, RunTypeOK, StoreSlot, LoadSlot, RenameReg, Moving, Moved
  <1>3. Head(todo) \in Move /\ todo' \in Seq(Move)
    BY <1>2
  <1>4. inreg' \in [HReg -> SUBSET VReg] /\ inmem' \in SUBSET VReg
    <2>1. CASE StoreSlot
      <3>1. Head(todo).v \in VReg
        BY <2>1, <1>3 DEF StoreSlot, Moving, Move
      <3> QED
        BY <2>1, <3>1 DEF StoreSlot, RunInv, RunTypeOK
    <2>2. CASE LoadSlot
      BY <2>2 DEF LoadSlot, RunInv, RunTypeOK
    <2>3. CASE RenameReg
      <3>1. Head(todo).h \in HReg
        BY <1>3 DEF Move
      <3> QED
        BY <2>3, <3>1 DEF RenameReg, RunInv, RunTypeOK
    <2> QED
      BY <2>1, <2>2, <2>3
  <1> QED
    BY <1>1, <1>2, <1>3, <1>4 DEF RunInv, RunTypeOK, Detours

LEMMA OpStep ==
    ASSUME IInv, RunInv, ExecOp \/ ExecPrepare \/ ExecCall
    PROVE  RunTypeOK' /\ Detours'
  <1>1. Ops' = Ops /\ at \in Ops /\ WellFormed(prog)
    BY DEF IInv, TypeOK, RunInv, RunTypeOK, ExecOp, ExecPrepare, ExecCall, Executing,
           Running, allocVars, Ops
  <1>2. prog[at].kind \notin {"RET", "JMPI", "JMPR"} /\ Goto(at + 1)
    BY DEF ExecOp, ExecPrepare, ExecCall, Executing
  <1>3. at + 1 \in Ops
    BY <1>1, <1>2, Flow
  <1>4. at' \in Ops /\ todo' \in Seq(Move) /\ leaving' = FALSE
    BY <1>2, <1>3, GotoTyped DEF IInv
  <1>5. inreg' \in [HReg -> SUBSET VReg] /\ inmem' \in SUBSET VReg
    <2>1. CASE ExecOp
      <3>1. CASE prog[at].def = {} \/ prog[at].kind = "PROLOG"
        BY <2>1, <3>1 DEF ExecOp, RunInv, RunTypeOK
      <3>2. CASE ~(prog[at].def = {} \/ prog[at].kind = "PROLOG")
        <4> DEFINE d == CHOOSE v \in prog[at].def : TRUE
        <4>1. d \in prog[at].def
          BY <3>2
        <4>2. d \in VReg
          BY <1>1, <4>1, ProgFacts DEF Op
        <4>3. Define(d, r_arg[at][d])
          BY <2>1, <3>2 DEF ExecOp
        <4> QED
          BY <4>2, <4>3, DefineTyped DEF RunInv
      <3> QED
        BY <3>1, <3>2
    <2>2. CASE ExecPrepare
      BY <2>2 DEF ExecPrepare, RunInv, RunTypeOK
    <2>3. CASE ExecCall
      BY <2>3 DEF ExecCall, RunInv, RunTypeOK
    <2> QED
      BY <2>1, <2>2, <2>3
  <1>6. DOMAIN saved' \subseteq HReg /\ saved' \in [DOMAIN saved' -> SUBSET VReg]
    BY DEF ExecOp, ExecPrepare, ExecCall, RunInv, RunTypeOK, Pushed
  <1> QED
    BY <1>1, <1>4, <1>5, <1>6 DEF RunTypeOK, Detours

LEMMA JumpStep ==
    ASSUME IInv, RunInv,
           TakeBranch \/ Leave \/ FallThrough \/ Jump \/ JumpToAddress \/ Return
    PROVE  RunTypeOK' /\ Detours'
  <1>1. /\ Ops' = Ops /\ inverted' = inverted /\ UNCHANGED saved
        /\ at \in Ops /\ WellFormed(prog)
    BY DEF IInv, TypeOK, RunInv, RunTypeOK, TakeBranch, Leave, FallThrough, Jump,
           JumpToAddress, Return, Executing, Running, allocVars, Ops
  <1>2. inreg' \in [HReg -> SUBSET VReg] /\ inmem' \in SUBSET VReg
    <2>1. CASE TakeBranch \/ FallThrough
      BY <2>1, <1>1, CompareTyped DEF TakeBranch, FallThrough, RunInv
    <2>2. CASE Leave \/ Jump \/ JumpToAddress \/ Return
      BY <2>2 DEF Leave, Jump, JumpToAddress, Return, RunInv, RunTypeOK
    <2> QED
      BY <2>1, <2>2
  <1>3. CASE at \in inverted /\ TakeBranch
    <2>1. at' = at /\ leaving' = TRUE /\ todo' \in Seq(Move)
      BY <1>1, <1>3 DEF TakeBranch, IInv, TypeOK
    <2> QED
      BY <1>1, <1>2, <1>3, <2>1 DEF RunInv, RunTypeOK, Detours
  <1>4. ASSUME NEW t \in Ops, Goto(t) PROVE RunTypeOK' /\ Detours'
    <2>1. at' \in Ops /\ todo' \in Seq(Move) /\ leaving' = FALSE
      BY <1>4, GotoTyped DEF IInv
    <2> QED
      BY <1>1, <1>2, <2>1 DEF RunInv, RunTypeOK, Detours
  <1>5. CASE Return
    BY <1>1, <1>2, <1>5 DEF Return, RunInv, RunTypeOK, Detours, Executing
  <1>6. CASE (TakeBranch /\ at \notin inverted) \/ Leave \/ Jump
    <2>1. prog[at].jmp \in Ops
      <3>1. CASE Leave
        BY <1>1, <3>1, Flow DEF Leave, RunInv, Detours, IInv, Turned, TypeOK
      <3>2. CASE TakeBranch \/ Jump
        BY <1>1, <3>2, Flow DEF TakeBranch, Jump, Executing
      <3> QED
        BY <1>6, <3>1, <3>2
    <2>2. Goto(prog[at].jmp)
      BY <1>6 DEF TakeBranch, Leave, Jump
    <2> QED
      BY <1>4, <2>1, <2>2
  <1>7. CASE FallThrough
    <2>1. prog[at].kind \notin {"RET", "JMPI", "JMPR"} /\ Goto(at + 1)
      BY <1>7 DEF FallThrough, Executing, Branches
    <2>2. at + 1 \in Ops
      BY <1>1, <2>1, Flow
    <2> QED
      BY <1>4, <2>1, <2>2
  <1>8. CASE JumpToAddress
    <2>1. PICK t \in Succ(prog, at) : Goto(t)
      BY <1>8 DEF JumpToAddress
    <2>2. t \in Ops
      BY <1>1, <1>8, Flow DEF JumpToAddress, Executing
    <2> QED
      BY <1>4, <2>1, <2>2
  <1> QED
    BY <1>3, <1>5, <1>6, <1>7, <1>8

LEMMA RunInductive == IInv /\ RunInv /\ [SystemNext]_vars => RunInv'
  <1> SUFFICES ASSUME IInv, RunInv, [SystemNext]_vars PROVE RunInv'
    OBVIOUS
  <1>1. CASE Allocate
    BY <1>1, AllocateStep
  <1>2. CASE RunNext
    <2>1. RunTypeOK' /\ Detours'
      BY <1>2, EnterStep, MoveStep, OpStep, JumpStep DEF RunNext
    <2>2. NotYet'
      BY <1>2, RunKeeps DEF NotYet, allocVars
    <2> QED
      BY <2>1, <2>2 DEF RunInv
  <1>3. CASE UNCHANGED vars
    BY <1>3 DEF RunInv, RunTypeOK, NotYet, Detours, vars, runVars, allocVars, Ops
  <1> QED
    BY <1>1, <1>2, <1>3 DEF SystemNext

-----------------------------------------------------------------------------
(***************************************************************************)
(* Whatever function is allocated, and whichever way its branches go,      *)
(* control stays in the function until it returns, and every move names a  *)
(* virtual and a hardware register.                                        *)
(***************************************************************************)
THEOREM RunTypeCorrect == SystemSpec => []RunTypeOK
  <1>1. RunInv => RunTypeOK
    BY DEF RunInv
  <1> QED
    BY <1>1, RunInitially, RunInductive, Invariance, SystemImplementsAllocator, PTL
       DEF SystemSpec

-----------------------------------------------------------------------------
(* Where the values are. *)
(* Where a value is, when registers hold R and I is in memory. *)
Found(v, map, R, I) == IF map[v] = NoReg THEN v \in I ELSE v \in R[map[v]]

Goal(o) == IF prog[o].kind = "JMPI" THEN regmap[prog[o].jmp] ELSE regmap[o]

OnTheWay ==
    at > 0 =>
      IF leaving
      THEN Ready(todo, regmap[prog[at].jmp], live_in[prog[at].jmp], {}, inreg, inmem)
      ELSE Ready(todo, Goal(at), Needs(prog[at], live_in[at]),
                 Kept(prog[at], regmap[at], live_out[at]), inreg, inmem)

Arrived ==
    at > 0 /\ ~leaving =>
      /\ Len(todo) <= Len(before[at])
      /\ todo = before[at] /\ at > 1 =>
           \A v \in live_in[at] : Found(v, regmap[at - 1], inreg, inmem)

AtProlog == at = 1 => \A v \in VReg : Found(v, regmap[1], inreg, inmem)

InCall(q, c) ==
    /\ CallAt(prog, q, c) /\ q < at /\ at <= c
    /\ \A v \in live_in[q] : Found(v, regmap[q], inreg, inmem)
    /\ live_in[q] \cap Returning(regmap[q]) \subseteq inmem
    /\ DOMAIN saved = Pushed(c)
    /\ \A h \in Pushed(c) : saved[h] = inreg[h]

CallKinds == {"PUTARG", "FPUTARG", "CALL"}

CallSection ==
    at > 0 /\ prog[at].kind \in CallKinds => \E q, c \in Ops : InCall(q, c)

DInv == OnTheWay /\ Arrived /\ AtProlog /\ CallSection

-----------------------------------------------------------------------------
(* Moves that are right for what a map says are right for what registers   *)
(* and memory hold.                                                        *)

LEMMA ReadyHere ==
    ASSUME NEW m \in Seq(Move), NEW from \in Map, NEW map \in Map, NEW L, L \subseteq VReg,
           NEW S, NEW X, Ready(m, map, L, S, Held(from), Stored(from) \cup X),
           NEW R, NEW I, \A v \in L : Found(v, from, R, I), X \cap L \subseteq I
    PROVE  Ready(m, map, L, S, R, I)
  <1>1. \A h \in HReg : Held(from)[h] \cap L \subseteq R[h]
    BY RegisterAssumption DEF Held, Owners, Found
  <1>2. (Stored(from) \cup X) \cap L \subseteq I
    BY DEF Stored, Mapped, Found
  <1> QED
    BY <1>1, <1>2, ReadyMonotone

LEMMA NothingToDo ==
    ASSUME NEW map, NEW L, NEW S, NEW R, NEW I, Ready(<<>>, map, L, S, R, I)
    PROVE  /\ \A v \in L : Found(v, map, R, I)
           /\ L \cap S \subseteq I
  BY ReadyNow DEF Found

LEMMA DefineKeeps ==
    ASSUME NEW map \in Map, Clean(map), NEW d \in VReg, map[d] # NoReg,
           NEW L, L \subseteq VReg, \A v \in L : v # d => Found(v, map, inreg, inmem),
           Define(d, map[d])
    PROVE  \A v \in L : Found(v, map, inreg', inmem')
  <1>1. map[d] \in HReg /\ Owners(map, map[d]) = {d}
    BY DEF Map, Clean, Mapped
  <1>2. /\ \A k \in HReg : inreg'[k] = IF k = map[d] THEN {d} ELSE inreg[k] \ {d}
        /\ inmem' = inmem \ {d}
    BY DEF Define
  <1>3. ASSUME NEW v \in L, v # d, map[v] # NoReg PROVE v \in inreg'[map[v]]
    <2>1. map[v] \in HReg /\ map[v] # map[d] /\ v \in inreg[map[v]]
      BY <1>1, <1>3 DEF Map, Owners, Found
    <2> QED
      BY <2>1, <1>2, <1>3
  <1>4. ASSUME NEW v \in L, v # d, map[v] = NoReg PROVE v \in inmem'
    BY <1>2, <1>4 DEF Found
  <1>5. d \in inreg'[map[d]]
    BY <1>1, <1>2
  <1> QED
    BY <1>3, <1>4, <1>5 DEF Found

-----------------------------------------------------------------------------
(* What the allocator has left. *)

Allocated == IInv /\ MInv /\ phase = "allocated"

LEMMA OpFacts ==
    ASSUME Allocated, NEW o \in Ops
    PROVE  /\ WellFormed(prog) /\ OperandsFormed(prog, o) /\ CallsFormed(prog, o)
           /\ o \in Nat /\ o >= 1 /\ (o # 1 => o - 1 \in Ops)
           /\ live_in[o] = prog[o].use \cup (live_out[o] \ prog[o].def)
           /\ live_in[o] \subseteq VReg /\ live_out[o] \subseteq VReg
           /\ \A s \in Succ(prog, o) : live_in[s] \subseteq live_out[o]
           /\ regmap[o] \in Map /\ Clean(regmap[o])
           /\ before[o] \in Seq(Move) /\ (o = 1 => before[o] = <<>>)
           /\ r_arg[o] \in Map /\ \A v \in VReg : r_arg[o][v] # NoReg => regmap[o][v] = r_arg[o][v]
           /\ (o = 1 <=> prog[o].kind = "PROLOG")
           /\ prog[o].use \subseteq VReg /\ prog[o].def \subseteq VReg
           /\ prog[o].args \in Seq(VReg) /\ ToSet(prog[o].args) \subseteq VReg
           /\ o # 1 /\ prog[o].kind # "JMPI" =>
                Fine(prog[o], prog[o - 1], regmap[o - 1], regmap[o], before[o],
                     live_in[o], live_out[o])
           /\ o # 1 => Complete(prog[o], r_arg[o], regmap[o - 1], live_out[o])
  <1>1. /\ WellFormed(prog) /\ Ops = 1 .. Len(prog) /\ Len(prog) \in Nat
        /\ cur = Len(prog) + 1 /\ phase = "allocated"
    BY ProgFacts DEF Allocated, IInv, TypeOK, MInv, Ended
  <1>2. o \in Nat /\ o >= 1 /\ (o # 1 => o - 1 \in Ops) /\ o < cur /\ Done(o)
    BY <1>1 DEF Done
  <1>3. /\ OperandsFormed(prog, o) /\ CallsFormed(prog, o)
    BY DEF Allocated, IInv, TypeOK, WellFormed, Ops
  <1>4. /\ live_in[o] = prog[o].use \cup (live_out[o] \ prog[o].def)
        /\ live_out[o] = UNION {live_in[s] : s \in Succ(prog, o)}
    BY DEF Allocated, MInv, LiveEqs
  <1>5. /\ live_in[o] \subseteq VReg /\ live_out[o] \subseteq VReg /\ regmap[o] \in Map
        /\ before[o] \in Seq(Move) /\ r_arg[o] \in Map
    BY DEF Allocated, IInv, TypeOK
  <1>6. Clean(regmap[o]) /\ \A v \in VReg : r_arg[o][v] # NoReg => regmap[o][v] = r_arg[o][v]
    BY DEF Allocated, IInv, OneOwner, OperandsStay, Clean
  <1>7. o = 1 => before[o] = <<>>
    BY DEF Allocated, MInv, Pending
  <1>8. /\ o = 1 <=> prog[o].kind = "PROLOG"
        /\ prog[o].use \subseteq VReg /\ prog[o].def \subseteq VReg
        /\ prog[o].args \in Seq(VReg) /\ ToSet(prog[o].args) \subseteq VReg
    BY <1>1, ProgFacts DEF Op
  <1>9. o # 1 /\ prog[o].kind # "JMPI" =>
          Fine(prog[o], prog[o - 1], regmap[o - 1], regmap[o], before[o],
               live_in[o], live_out[o])
    BY <1>1, <1>2 DEF Allocated, MInv, Settled
  <1>10. o # 1 => Complete(prog[o], r_arg[o], regmap[o - 1], live_out[o])
    BY <1>2 DEF Allocated, MInv, Completed
  <1> QED
    BY <1>1, <1>2, <1>3, <1>4, <1>5, <1>6, <1>7, <1>8, <1>9, <1>10

(* A label inherits its map. *)
LEMMA TargetFacts ==
    ASSUME Allocated, NEW o \in Ops, prog[o].jmp # 0
    PROVE  /\ prog[o].jmp \in Ops /\ prog[o].jmp # 1 /\ IsLabel(prog[prog[o].jmp])
           /\ prog[prog[o].jmp].kind = "OP"
           /\ regmap[prog[o].jmp] = regmap[prog[o].jmp - 1]
           /\ prog[o].kind # "REF_CODE" => live_in[prog[o].jmp] \subseteq live_out[o]
  <1>1. prog[o].jmp \in Ops /\ IsLabel(prog[prog[o].jmp]) /\ prog[o].jmp # 1
    <2>1. WellFormed(prog) /\ Ops = 1 .. Len(prog) /\ Len(prog) \in Nat
      BY ProgFacts DEF Allocated, IInv, TypeOK
    <2> QED
      BY <2>1 DEF WellFormed, JumpsFormed, Ops
  <1>2. prog[prog[o].jmp].kind = "OP"
    BY <1>1 DEF IsLabel
  <1>3. regmap[prog[o].jmp] = regmap[prog[o].jmp - 1]
    BY <1>1, <1>2, OpFacts DEF Fine
  <1>4. prog[o].kind # "REF_CODE" => live_in[prog[o].jmp] \subseteq live_out[o]
    BY JumpLive DEF Allocated, MInv, IInv, TypeOK
  <1> QED
    BY <1>1, <1>2, <1>3, <1>4

LEMMA NextFacts ==
    ASSUME Allocated, NEW o \in Ops, prog[o].kind \notin {"RET", "JMPI", "JMPR"}
    PROVE  /\ o + 1 \in Ops /\ o + 1 # 1 /\ (o + 1) - 1 = o
           /\ live_in[o + 1] \subseteq live_out[o]
           /\ FallsInto(prog[o + 1], prog[o])
           /\ prog[o + 1].kind \in CallKinds => prog[o].kind \in {"PREPARE", "PUTARG", "FPUTARG"}
  <1>1. WellFormed(prog) /\ o \in Nat /\ o >= 1
    BY OpFacts
  <1>2. o + 1 \in Ops
    BY <1>1, Flow
  <1>3. o + 1 \in Succ(prog, o)
    BY DEF Succ
  <1>4. live_in[o + 1] \subseteq live_out[o]
    BY <1>3, OpFacts
  <1>5. FallsInto(prog[o + 1], prog[o])
    BY DEF FallsInto
  <1>6. o + 1 # 1 /\ (o + 1) - 1 = o
    BY <1>1
  <1>7. prog[o + 1].kind \in CallKinds => prog[o].kind \in {"PREPARE", "PUTARG", "FPUTARG"}
    <2>1. CallsFormed(prog, o + 1)
      BY <1>2, OpFacts
    <2> QED
      BY <2>1, <1>6 DEF CallsFormed, CallKinds
  <1> QED
    BY <1>2, <1>4, <1>5, <1>6, <1>7

LEMMA JumpNeeds ==
    ASSUME Allocated, NEW o \in Ops, prog[o].kind = "JMPI"
    PROVE  /\ prog[o].jmp # 0 /\ live_in[o] = live_in[prog[o].jmp]
           /\ Joined(before[o], regmap[prog[o].jmp], regmap[o - 1], live_in[o])
  <1>1. /\ prog[o].jmp # 0
        /\ Joined(before[o], regmap[prog[o].jmp], regmap[o - 1], live_in[prog[o].jmp])
    <2>1. JumpsFormed(prog, o)
      BY OpFacts DEF WellFormed, Ops
    <2> QED
      BY <2>1 DEF JumpsFormed, Allocated, MInv, Agree
  <1>2. prog[o].use = {} /\ prog[o].def = {}
    <2>1. OperandsFormed(prog, o)
      BY OpFacts
    <2> QED
      BY <2>1 DEF OperandsFormed, ToSet
  <1>3. Succ(prog, o) = {prog[o].jmp}
    BY <1>1 DEF Succ
  <1>4. /\ live_in[o] = prog[o].use \cup (live_out[o] \ prog[o].def)
        /\ live_out[o] = UNION {live_in[s] : s \in Succ(prog, o)}
    BY DEF Allocated, MInv, LiveEqs
  <1> QED
    BY <1>1, <1>2, <1>3, <1>4

(***************************************************************************)
(* Control that comes to t with every live value where the map t inherits  *)
(* has it: the moves before t bring each to where it is needed.            *)
(***************************************************************************)
LEMMA ComeTo ==
    ASSUME Allocated, NEW t \in Ops, t # 1, FallsInto(prog[t], prog[t - 1]),
           Goto(t), UNCHANGED allocVars,
           \A v \in live_in[t] : Found(v, regmap[t - 1], inreg', inmem'),
           prog[t].kind = "CALL" => live_in[t] \cap Returning(regmap[t - 1]) \subseteq inmem'
    PROVE  OnTheWay' /\ Arrived' /\ AtProlog'
  <1>1. at' = t /\ todo' = before[t] /\ ~leaving'
    BY DEF Goto
  <1>2. /\ UNCHANGED <<prog, live_in, live_out, regmap, before>>
    BY DEF allocVars
  <1>3. Arrived' /\ AtProlog'
    <2>1. Len(before[t]) \in Nat
      BY OpFacts, LenProperties
    <2> QED
      BY <1>1, <1>2, <2>1 DEF Arrived, AtProlog, Found
  <1>4. t - 1 \in Ops
    BY OpFacts
  <1>5. /\ regmap[t - 1] \in Map /\ before[t] \in Seq(Move)
        /\ live_in[t] \subseteq VReg
    BY <1>4, OpFacts
  <1>6. CASE prog[t].kind = "JMPI"
    <2>1. Joined(before[t], regmap[prog[t].jmp], regmap[t - 1], live_in[t])
      BY <1>6, JumpNeeds
    <2>2. regmap[prog[t].jmp] \in Map
      <3>1. prog[t].jmp \in Ops
        BY <1>6, JumpNeeds, TargetFacts
      <3> QED
        BY <3>1, OpFacts
    <2>3. Ready(before[t], regmap[prog[t].jmp], live_in[t], {}, Held(regmap[t - 1]),
                Stored(regmap[t - 1]) \cup {})
      BY <2>1 DEF Joined
    <2>4. Ready(before[t], regmap[prog[t].jmp], live_in[t], {}, inreg', inmem')
      <3> DEFINE E == {}
      <3>1. E \cap live_in[t] \subseteq inmem'
        OBVIOUS
      <3>2. \A v \in live_in[t] : Found(v, regmap[t - 1], inreg', inmem')
        OBVIOUS
      <3>3. Ready(before[t], regmap[prog[t].jmp], live_in[t], {}, Held(regmap[t - 1]),
                  Stored(regmap[t - 1]) \cup E)
        BY <2>3
      <3> HIDE DEF E
      <3> QED
        BY <1>5, <2>2, <3>1, <3>2, <3>3, ReadyHere
    <2>5. /\ Goal(t) = regmap[prog[t].jmp] /\ Needs(prog[t], live_in[t]) = live_in[t]
          /\ Kept(prog[t], regmap[t], live_out[t]) = {}
      BY <1>6 DEF Goal, Needs, Kept
    <2> QED
      BY <1>1, <1>2, <1>3, <2>4, <2>5 DEF OnTheWay, Goal
  <1>7. CASE prog[t].kind # "JMPI"
    <2> DEFINE N == Needs(prog[t], live_in[t])
               K == Kept(prog[t], regmap[t], live_out[t])
               X == Surviving(prog[t], regmap[t - 1])
    <2>1. N \subseteq live_in[t] /\ N \subseteq VReg
      BY <1>5 DEF Needs
    <2>2. Ready(before[t], regmap[t], N, K, Held(regmap[t - 1]),
                Stored(regmap[t - 1]) \cup X)
      BY <1>7, OpFacts DEF Fine
    <2>3. regmap[t] \in Map
      BY OpFacts
    <2>4. X \cap N \subseteq inmem'
      BY <2>1 DEF Surviving
    <2>5. \A v \in N : Found(v, regmap[t - 1], inreg', inmem')
      BY <2>1
    <2> HIDE DEF N, K, X
    <2>6. Ready(before[t], regmap[t], N, K, inreg', inmem')
      BY <1>5, <2>1, <2>2, <2>3, <2>4, <2>5, ReadyHere
    <2>7. Goal(t) = regmap[t]
      BY <1>7 DEF Goal
    <2> QED
      BY <1>1, <1>2, <1>3, <2>6, <2>7 DEF OnTheWay, Goal, N, K
  <1> QED
    BY <1>6, <1>7

(***************************************************************************)
(* From PREPARE to CALL the map stays, and nothing becomes live.           *)
(***************************************************************************)
LEMMA CallMaps ==
    ASSUME Allocated, NEW q \in Ops, NEW c \in Ops, CallAt(prog, q, c)
    PROVE  /\ \A k \in q .. (c - 1) : regmap[k] = regmap[q] /\ live_in[k] \subseteq live_in[q]
           /\ live_in[c] \subseteq live_in[q] /\ c # 1
           /\ regmap[c - 1] = regmap[q]
           /\ regmap[c] = Without(regmap[q], Returning(regmap[q]))
           /\ CallOf(q) = c
           /\ PrepareOf(prog, c) = q
           /\ PutArgs(prog, q) = [k \in 1 .. (c - q - 1) |-> q + k]
  <1>1. q \in Nat /\ c \in Nat /\ q >= 1 /\ q < c /\ Len(prog) \in Nat /\ Ops = 1 .. Len(prog)
    <2>1. WellFormed(prog)
      BY OpFacts
    <2> QED
      BY <2>1, ProgFacts, OpFacts DEF CallAt
  <1>2. ASSUME NEW k \in q .. (c - 1)
        PROVE  /\ k \in Ops /\ k + 1 \in Ops /\ prog[k].kind \in {"PREPARE", "PUTARG", "FPUTARG"}
               /\ live_in[k + 1] \subseteq live_in[k]
    <2>1. k \in Ops
      BY <1>1
    <2>2. prog[k].kind \in {"PREPARE", "PUTARG", "FPUTARG"}
      <3>1. k = q \/ k \in (q + 1) .. (c - 1)
        BY <1>1
      <3> QED
        BY <3>1 DEF CallAt
    <2>3. prog[k].def = {}
      <3>1. OperandsFormed(prog, k)
        BY <2>1, OpFacts
      <3> QED
        BY <2>2, <3>1 DEF OperandsFormed, NoTarget
    <2>4. k + 1 \in Ops /\ live_in[k + 1] \subseteq live_out[k]
      BY <2>1, <2>2, NextFacts
    <2>5. live_in[k] = prog[k].use \cup (live_out[k] \ prog[k].def)
      BY <2>1, OpFacts
    <2> QED
      BY <2>1, <2>2, <2>3, <2>4, <2>5
  <1>3. ASSUME NEW k \in (q + 1) .. (c - 1) PROVE regmap[k] = regmap[k - 1]
    <2>1. k \in Ops /\ k # 1 /\ prog[k].kind \in {"PUTARG", "FPUTARG"}
      BY <1>1 DEF CallAt
    <2>2. Fine(prog[k], prog[k - 1], regmap[k - 1], regmap[k], before[k],
               live_in[k], live_out[k])
      BY <2>1, OpFacts
    <2> QED
      BY <2>1, <2>2 DEF Fine
  <1> DEFINE N == c - 1 - q
             S == {j \in 0 .. N : regmap[q + j] = regmap[q] /\ live_in[q + j] \subseteq live_in[q]}
  <1>4. N \in Nat
    BY <1>1
  <1>5. 0 \in S
    BY <1>1, <1>4
  <1>6. \A j \in 0 .. N - 1 : j \in S => j + 1 \in S
    <2> SUFFICES ASSUME NEW j \in 0 .. N - 1, j \in S PROVE j + 1 \in S
      OBVIOUS
    <2>1. /\ q + j \in q .. (c - 1) /\ q + (j + 1) \in (q + 1) .. (c - 1)
          /\ (q + j) + 1 = q + (j + 1) /\ (q + (j + 1)) - 1 = q + j /\ j + 1 \in 0 .. N
      BY <1>1, <1>4
    <2>2. live_in[q + (j + 1)] \subseteq live_in[q + j]
      BY <2>1, <1>2
    <2>3. regmap[q + (j + 1)] = regmap[q + j]
      BY <2>1, <1>3
    <2> QED
      BY <2>1, <2>2, <2>3
  <1> HIDE DEF S
  <1>7. 0 .. N \subseteq S
    BY <1>4, <1>5, <1>6, InductionTo
  <1>8. ASSUME NEW k \in q .. (c - 1)
        PROVE  regmap[k] = regmap[q] /\ live_in[k] \subseteq live_in[q]
    <2>1. k - q \in 0 .. N /\ q + (k - q) = k
      BY <1>1
    <2>2. k - q \in S
      BY <2>1, <1>7
    <2> QED
      BY <2>1, <2>2 DEF S
  <1>9. c - 1 \in q .. (c - 1) /\ (c - 1) + 1 = c /\ c # 1
    BY <1>1
  <1>10. live_in[c] \subseteq live_in[q] /\ regmap[c - 1] = regmap[q]
    <2>1. live_in[c] \subseteq live_in[c - 1]
      BY <1>9, <1>2
    <2> QED
      BY <2>1, <1>8, <1>9
  <1>11. regmap[c] = Without(regmap[q], Returning(regmap[q]))
    <2>1. prog[c].kind = "CALL"
      BY DEF CallAt
    <2>2. Fine(prog[c], prog[c - 1], regmap[c - 1], regmap[c], before[c],
               live_in[c], live_out[c])
      BY <2>1, <1>9, OpFacts
    <2> QED
      BY <2>1, <2>2, <1>10 DEF Fine
  <1>12. /\ PutArgs(prog, q) = [k \in 1 .. (c - q - 1) |-> q + k]
         /\ PrepareOf(prog, c) = q
    BY <1>1, CallArgs
  <1>13. CallOf(q) = c
    <2>1. Len([k \in 1 .. (c - q - 1) |-> q + k]) = c - q - 1
      BY <1>1
    <2> QED
      BY <2>1, <1>1, <1>12 DEF CallOf
  <1> QED
    BY <1>8, <1>9, <1>10, <1>11, <1>12, <1>13

-----------------------------------------------------------------------------
(* Each step keeps the values where they are expected.                     *)

LEMMA EnterCarries ==
    ASSUME Allocated, Enter
    PROVE  DInv'
  <1>1. 1 \in Ops
    BY ProgFacts DEF Allocated, IInv, TypeOK, WellFormed
  <1>2. /\ prog[1].kind = "PROLOG" /\ before[1] = <<>> /\ regmap[1] \in Map
        /\ live_in[1] \subseteq VReg
    BY <1>1, OpFacts
  <1>3. at' = 1 /\ todo' = <<>> /\ ~leaving'
    BY <1>2 DEF Enter, Goto
  <1>4. /\ UNCHANGED <<prog, live_in, live_out, regmap, before>>
        /\ inreg' = [h \in HReg |-> Owners(regmap[1], h)]
        /\ inmem' = VReg \ Mapped(regmap[1])
    BY DEF Enter, allocVars
  <1>5. \A v \in VReg : Found(v, regmap[1], inreg', inmem')
    BY <1>2, <1>4 DEF Found, Owners, Mapped, Map
  <1>6. Ready(<<>>, regmap[1], live_in[1], {}, inreg', inmem')
    BY <1>2, <1>5, ReadyNow DEF Found
  <1>7. /\ Goal(1) = regmap[1] /\ Needs(prog[1], live_in[1]) = live_in[1]
        /\ Kept(prog[1], regmap[1], live_out[1]) = {}
    BY <1>2 DEF Goal, Needs, Kept
  <1>8. OnTheWay'
    BY <1>3, <1>4, <1>6, <1>7 DEF OnTheWay, Goal
  <1>9. Arrived'
    BY <1>2, <1>3, <1>4 DEF Arrived
  <1>10. AtProlog'
    BY <1>4, <1>5 DEF AtProlog, Found
  <1>11. CallSection'
    BY <1>2, <1>3, <1>4 DEF CallSection, CallKinds
  <1> QED
    BY <1>8, <1>9, <1>10, <1>11 DEF DInv

(* What a move does to registers and memory is what TailReady speaks of.   *)
LEMMA MoveCarries ==
    ASSUME Allocated, RunInv, DInv, StoreSlot \/ LoadSlot \/ RenameReg
    PROVE  DInv'
  <1>1. /\ UNCHANGED <<prog, live_in, live_out, regmap, before>>
        /\ UNCHANGED <<at, leaving, saved>> /\ todo' = Tail(todo)
        /\ todo # <<>> /\ at > 0
    BY DEF StoreSlot, LoadSlot, RenameReg, Moved, Moving, Running, allocVars
  <1>2. /\ todo \in Seq(Move) /\ inreg \in [HReg -> SUBSET VReg] /\ at \in Ops
    BY <1>1 DEF RunInv, RunTypeOK
  <1>3. todo[1] = Head(todo) /\ Len(todo') < Len(todo) /\ Len(todo) \in Nat /\ Len(todo') \in Nat
    BY <1>1, <1>2
  <1>4. \/ /\ todo[1].move = "UREG" /\ inreg' = inreg
           /\ inmem' = IF todo[1].v \in inreg[todo[1].h] THEN inmem \cup {todo[1].v} ELSE inmem \ {todo[1].v}
        \/ /\ todo[1].move = "LREG" /\ inmem' = inmem
           /\ inreg' = [inreg EXCEPT ![todo[1].h] = {todo[1].v} \cap inmem]
        \/ /\ todo[1].move = "RENAMEREG" /\ inmem' = inmem
           /\ inreg' = [inreg EXCEPT ![todo[1].to] = inreg[todo[1].h]]
    BY <1>3 DEF StoreSlot, LoadSlot, RenameReg, Moving, Moved
  <1>5. ASSUME NEW map \in Map, Clean(map), NEW L, L \subseteq VReg, NEW S,
               Ready(todo, map, L, S, inreg, inmem)
        PROVE  Ready(todo', map, L, S, inreg', inmem')
    BY <1>1, <1>2, <1>4, <1>5, TailReady
  <1>6. OnTheWay'
    <2>1. CASE leaving
      <3>1. prog[at].jmp \in Ops
        BY <1>2, <2>1, Flow DEF Allocated, RunInv, Detours, IInv, Turned, TypeOK
      <3>2. /\ regmap[prog[at].jmp] \in Map /\ Clean(regmap[prog[at].jmp])
            /\ live_in[prog[at].jmp] \subseteq VReg
        BY <3>1, OpFacts
      <3>3. Ready(todo, regmap[prog[at].jmp], live_in[prog[at].jmp], {}, inreg, inmem)
        BY <1>1, <2>1 DEF DInv, OnTheWay
      <3>4. Ready(todo', regmap[prog[at].jmp], live_in[prog[at].jmp], {}, inreg', inmem')
        BY <3>2, <3>3, <1>5
      <3> QED
        BY <3>4, <1>1, <2>1 DEF OnTheWay
    <2>2. CASE ~leaving
      <3> DEFINE N == Needs(prog[at], live_in[at])
                 K == Kept(prog[at], regmap[at], live_out[at])
                 G == Goal(at)
      <3>1. G \in Map /\ Clean(G)
        <4>1. CASE prog[at].kind = "JMPI"
          <5>1. prog[at].jmp \in Ops
            BY <1>2, <4>1, JumpNeeds, TargetFacts
          <5> QED
            BY <5>1, <4>1, OpFacts DEF Goal
        <4>2. CASE prog[at].kind # "JMPI"
          BY <1>2, <4>2, OpFacts DEF Goal
        <4> QED
          BY <4>1, <4>2
      <3>2. N \subseteq VReg
        BY <1>2, OpFacts DEF Needs
      <3>3. Ready(todo, G, N, K, inreg, inmem)
        BY <1>1, <2>2 DEF DInv, OnTheWay
      <3> HIDE DEF G, N, K
      <3>4. Ready(todo', G, N, K, inreg', inmem')
        BY <3>1, <3>2, <3>3, <1>5
      <3> QED
        BY <3>4, <1>1, <2>2 DEF OnTheWay, G, N, K, Goal
    <2> QED
      BY <2>1, <2>2
  <1>7. Arrived'
    <2>1. ~leaving => Len(todo) <= Len(before[at])
      BY <1>1 DEF DInv, Arrived
    <2>2. before[at] \in Seq(Move) /\ Len(before[at]) \in Nat
      BY <1>2, OpFacts, LenProperties
    <2> QED
      BY <1>1, <1>3, <2>1, <2>2 DEF Arrived
  <1>8. at # 1 /\ (~leaving => prog[at].kind \notin CallKinds)
    <2>1. ~leaving => before[at] # <<>>
      BY <1>1, <1>3 DEF DInv, Arrived
    <2>2. leaving => prog[at].kind \in Branches
      BY DEF RunInv, Detours, Allocated, IInv, Turned
    <2>3. at = 1 => before[at] = <<>> /\ prog[at].kind = "PROLOG"
      BY <1>2, OpFacts
    <2>4. at # 1 /\ prog[at].kind \in CallKinds => before[at] = <<>>
      <3> SUFFICES ASSUME at # 1, prog[at].kind \in CallKinds PROVE before[at] = <<>>
        OBVIOUS
      <3>1. Fine(prog[at], prog[at - 1], regmap[at - 1], regmap[at], before[at],
                 live_in[at], live_out[at])
        BY <1>2, OpFacts DEF CallKinds
      <3> QED
        BY <3>1 DEF Fine, Still, CallKinds
    <2> QED
      BY <2>1, <2>2, <2>3, <2>4 DEF Branches
  <1>9. prog[at].kind \notin CallKinds
    BY <1>8 DEF RunInv, Detours, Allocated, IInv, Turned, CallKinds, Branches
  <1>10. AtProlog' /\ CallSection'
    BY <1>1, <1>8, <1>9 DEF AtProlog, CallSection
  <1> QED
    BY <1>6, <1>7, <1>10 DEF DInv

(* When the moves are done. *)
LEMMA InHand ==
    ASSUME Allocated, RunInv, DInv, Running, todo = <<>>, ~leaving
    PROVE  /\ at \in Ops
           /\ \A v \in Needs(prog[at], live_in[at]) : Found(v, Goal(at), inreg, inmem)
           /\ Needs(prog[at], live_in[at]) \cap Kept(prog[at], regmap[at], live_out[at])
                \subseteq inmem
  <1>1. at > 0 /\ at \in Ops
    BY DEF Running, RunInv, RunTypeOK
  <1>2. Ready(<<>>, Goal(at), Needs(prog[at], live_in[at]),
              Kept(prog[at], regmap[at], live_out[at]), inreg, inmem)
    BY <1>1 DEF DInv, OnTheWay
  <1> QED
    BY <1>1, <1>2, NothingToDo

(* Control goes on to the next operation, of no call. *)
LEMMA GoesOn ==
    ASSUME Allocated, NEW o \in Ops,
           prog[o].kind \notin {"RET", "JMPI", "JMPR", "PREPARE", "PUTARG", "FPUTARG"},
           Goto(o + 1), UNCHANGED allocVars,
           \A v \in live_out[o] : Found(v, regmap[o], inreg', inmem')
    PROVE  DInv'
  <1>1. /\ o + 1 \in Ops /\ o + 1 # 1 /\ (o + 1) - 1 = o
        /\ live_in[o + 1] \subseteq live_out[o] /\ FallsInto(prog[o + 1], prog[o])
        /\ prog[o + 1].kind \notin CallKinds
    BY NextFacts
  <1> DEFINE t == o + 1
  <1>2. /\ t \in Ops /\ t # 1 /\ FallsInto(prog[t], prog[t - 1]) /\ Goto(t)
        /\ \A v \in live_in[t] : Found(v, regmap[t - 1], inreg', inmem')
        /\ prog[t].kind # "CALL"
    BY <1>1 DEF CallKinds
  <1>3. at' = t /\ prog[t].kind \notin CallKinds
    BY <1>1 DEF Goto
  <1> HIDE DEF t
  <1>4. OnTheWay' /\ Arrived' /\ AtProlog'
    BY <1>2, ComeTo
  <1>5. CallSection'
    BY <1>3 DEF CallSection, allocVars
  <1> QED
    BY <1>4, <1>5 DEF DInv

(* Control comes to a label. *)
LEMMA ComesToLabel ==
    ASSUME Allocated, NEW t \in Ops, t # 1, prog[t].kind = "OP", Goto(t), UNCHANGED allocVars,
           \A v \in live_in[t] : Found(v, regmap[t - 1], inreg', inmem')
    PROVE  DInv'
  <1>1. FallsInto(prog[t], prog[t - 1]) /\ prog[t].kind # "CALL"
    BY DEF FallsInto
  <1>2. OnTheWay' /\ Arrived' /\ AtProlog'
    BY <1>1, ComeTo
  <1>3. at' = t
    BY DEF Goto
  <1>4. CallSection'
    BY <1>3 DEF CallSection, allocVars, CallKinds
  <1> QED
    BY <1>2, <1>4 DEF DInv

(* The register a result is put in is the one the map has for it. *)
LEMMA ResultPlace ==
    ASSUME Allocated, NEW o \in Ops, o # 1, NEW d \in prog[o].def
    PROVE  /\ d \in VReg /\ r_arg[o][d] # NoReg /\ regmap[o][d] = r_arg[o][d]
           /\ prog[o].def = {d}
  <1>1. OperandsFormed(prog, o) /\ prog[o].kind # "PROLOG" /\ d \in VReg
    BY OpFacts
  <1>2. prog[o].def = {d}
    BY <1>1 DEF OperandsFormed
  <1>3. prog[o].kind \notin NoTarget
    BY <1>1 DEF OperandsFormed
  <1>4. Complete(prog[o], r_arg[o], regmap[o - 1], live_out[o])
    BY OpFacts
  <1>5. r_arg[o][d] # NoReg
    <2>1. CASE prog[o].kind = "NOP"
      BY <1>2, <1>4, <2>1 DEF Complete
    <2>2. CASE prog[o].kind # "NOP"
      <3>1. prog[o].kind \in Placing \cup {"RETVAL", "FRETVAL"}
        <4>1. prog[o] \in Op
          BY OpFacts, ProgFacts
        <4> QED
          BY <4>1, <1>1, <1>3, <2>2 DEF Op, Kinds, NoTarget, Placing, Branches
      <3>2. d \in ToSet(prog[o].args)
        BY <1>1, <2>2 DEF OperandsFormed
      <3> QED
        BY <3>1, <3>2, <1>4 DEF Complete
    <2> QED
      BY <2>1, <2>2
  <1> QED
    BY <1>1, <1>2, <1>5, OpFacts

LEMMA ResultCarries ==
    ASSUME Allocated, RunInv, DInv, Running, todo = <<>>, ~leaving, at # 1,
           prog[at].kind # "JMPI", NEW d \in prog[at].def, Define(d, r_arg[at][d])
    PROVE  \A v \in live_out[at] : Found(v, regmap[at], inreg', inmem')
  <1>1. /\ at \in Ops
        /\ \A v \in Needs(prog[at], live_in[at]) : Found(v, regmap[at], inreg, inmem)
    BY InHand DEF Goal
  <1>2. /\ d \in VReg /\ r_arg[at][d] # NoReg /\ regmap[at][d] = r_arg[at][d]
        /\ prog[at].def = {d}
    BY <1>1, ResultPlace
  <1>3. /\ regmap[at] \in Map /\ Clean(regmap[at]) /\ live_out[at] \subseteq VReg
        /\ live_in[at] = prog[at].use \cup (live_out[at] \ prog[at].def)
        /\ Complete(prog[at], r_arg[at], regmap[at - 1], live_out[at])
    BY <1>1, OpFacts
  <1>4. ASSUME NEW v \in live_out[at], v # d PROVE v \in Needs(prog[at], live_in[at])
    <2>1. v \in live_in[at]
      BY <1>2, <1>3, <1>4
    <2>2. prog[at].kind = "NOP" => v \notin prog[at].use
      BY <1>3 DEF Complete
    <2> QED
      BY <2>1, <2>2 DEF Needs
  <1>5. Define(d, regmap[at][d]) /\ regmap[at][d] # NoReg
    BY <1>2
  <1>6. \A v \in live_out[at] : v # d => Found(v, regmap[at], inreg, inmem)
    BY <1>1, <1>4
  <1> QED
    BY <1>2, <1>3, <1>5, <1>6, DefineKeeps

(* Nothing is written: what lives on is what was live. *)
LEMMA NothingWritten ==
    ASSUME Allocated, RunInv, DInv, Running, todo = <<>>, ~leaving,
           prog[at].kind # "JMPI", prog[at].def = {}
    PROVE  /\ live_out[at] \subseteq live_in[at] /\ prog[at].kind # "NOP"
           /\ \A v \in live_in[at] : Found(v, regmap[at], inreg, inmem)
           /\ live_in[at] \cap Kept(prog[at], regmap[at], live_out[at]) \subseteq inmem
  <1>1. /\ at \in Ops
        /\ \A v \in Needs(prog[at], live_in[at]) : Found(v, regmap[at], inreg, inmem)
        /\ Needs(prog[at], live_in[at]) \cap Kept(prog[at], regmap[at], live_out[at])
                \subseteq inmem
    BY InHand DEF Goal
  <1>2. /\ live_in[at] = prog[at].use \cup (live_out[at] \ prog[at].def)
        /\ at # 1 => Complete(prog[at], r_arg[at], regmap[at - 1], live_out[at])
        /\ at = 1 <=> prog[at].kind = "PROLOG"
    BY <1>1, OpFacts
  <1>3. prog[at].kind # "NOP"
    BY <1>2 DEF Complete
  <1>4. Needs(prog[at], live_in[at]) = live_in[at]
    BY <1>3 DEF Needs
  <1> QED
    BY <1>1, <1>2, <1>3, <1>4

(* From one operation of a call to the next.                               *)
LEMMA CallGoesOn ==
    ASSUME Allocated, NEW o \in Ops, NEW q \in Ops, NEW c \in Ops, CallAt(prog, q, c),
           q <= o, o < c, Goto(o + 1), UNCHANGED allocVars,
           \A v \in live_in[q] : Found(v, regmap[q], inreg', inmem'),
           live_in[q] \cap Returning(regmap[q]) \subseteq inmem',
           DOMAIN saved' = Pushed(c), \A h \in Pushed(c) : saved'[h] = inreg'[h]
    PROVE  DInv'
  <1>1. o \in Nat /\ q \in Nat /\ c \in Nat
    BY OpFacts
  <1>2. /\ regmap[o] = regmap[q] /\ live_in[o] \subseteq live_in[q]
        /\ live_in[c] \subseteq live_in[q] /\ regmap[c - 1] = regmap[q]
    <2>1. o \in q .. (c - 1)
      BY <1>1
    <2> QED
      BY <2>1, CallMaps
  <1> DEFINE t == o + 1
  <1>3. prog[o].kind \in {"PREPARE", "PUTARG", "FPUTARG"} /\ t - 1 = o
    <2>1. o = q \/ o \in (q + 1) .. (c - 1)
      BY <1>1
    <2> QED
      BY <1>1, <2>1 DEF CallAt
  <1>4. t \in Ops /\ t # 1 /\ FallsInto(prog[t], prog[t - 1]) /\ live_in[t] \subseteq live_out[o]
    BY <1>3, NextFacts
  <1>5. live_out[o] \subseteq live_in[o]
    <2>1. prog[o].def = {}
      <3>1. OperandsFormed(prog, o)
        BY OpFacts
      <3> QED
        BY <1>3, <3>1 DEF OperandsFormed, NoTarget
    <2> QED
      BY <2>1, OpFacts
  <1>6. \A v \in live_in[t] : Found(v, regmap[t - 1], inreg', inmem')
    BY <1>2, <1>3, <1>4, <1>5
  <1>7. prog[t].kind = "CALL" => live_in[t] \cap Returning(regmap[t - 1]) \subseteq inmem'
    BY <1>2, <1>3, <1>4, <1>5
  <1>8. Goto(t) /\ at' = t /\ q < t /\ t <= c
    BY <1>1 DEF Goto
  <1> HIDE DEF t
  <1>9. OnTheWay' /\ Arrived' /\ AtProlog'
    BY <1>4, <1>6, <1>7, <1>8, ComeTo
  <1>10. InCall(q, c)'
    BY <1>8 DEF InCall, allocVars, Pushed, Found
  <1>11. CallSection'
    BY <1>10 DEF CallSection, allocVars, Ops
  <1> QED
    BY <1>9, <1>11 DEF DInv

(* A RETVAL or a PUTARG and so on: the operations that compute.            *)
LEMMA OpCarries ==
    ASSUME Allocated, RunInv, DInv, ExecOp
    PROVE  DInv'
  <1>1. /\ Running /\ todo = <<>> /\ ~leaving /\ at \in Ops /\ at > 0
        /\ UNCHANGED allocVars /\ saved' = saved /\ Goto(at + 1)
        /\ prog[at].kind \notin {"RET", "JMPI", "JMPR", "PREPARE", "CALL"}
    BY InHand DEF ExecOp, Executing, Running
  <1>2. CASE at = 1
    <2>1. prog[at].kind = "PROLOG"
      BY <1>1, <1>2, OpFacts
    <2>2. \A v \in VReg : Found(v, regmap[at], inreg', inmem')
      BY <1>2, <2>1 DEF ExecOp, DInv, AtProlog
    <2>3. live_out[at] \subseteq VReg
      BY <1>1, OpFacts
    <2> QED
      BY <1>1, <2>1, <2>2, <2>3, GoesOn
  <1>3. CASE at # 1 /\ prog[at].def # {}
    <2> DEFINE d == CHOOSE v \in prog[at].def : TRUE
    <2>1. d \in prog[at].def
      BY <1>3
    <2>2. prog[at].kind # "PROLOG"
      BY <1>1, <1>3, OpFacts
    <2>3. Define(d, r_arg[at][d])
      BY <1>3, <2>2 DEF ExecOp
    <2> HIDE DEF d
    <2>4. \A v \in live_out[at] : Found(v, regmap[at], inreg', inmem')
      BY <1>1, <1>3, <2>1, <2>3, ResultCarries
    <2>5. prog[at].kind \notin {"PUTARG", "FPUTARG"}
      <3>1. OperandsFormed(prog, at)
        BY <1>1, OpFacts
      <3> QED
        BY <1>3, <3>1 DEF OperandsFormed, NoTarget
    <2> QED
      BY <1>1, <2>4, <2>5, GoesOn
  <1>4. CASE at # 1 /\ prog[at].def = {}
    <2>1. UNCHANGED <<inreg, inmem>>
      BY <1>4 DEF ExecOp
    <2>2. /\ live_out[at] \subseteq live_in[at]
          /\ \A v \in live_in[at] : Found(v, regmap[at], inreg, inmem)
      BY <1>1, <1>4, NothingWritten
    <2>3. CASE prog[at].kind \in {"PUTARG", "FPUTARG"}
      <3>1. PICK q \in Ops, c \in Ops : InCall(q, c)
        BY <1>1, <2>3 DEF DInv, CallSection, CallKinds
      <3>2. /\ CallAt(prog, q, c) /\ q < at /\ at <= c
            /\ \A v \in live_in[q] : Found(v, regmap[q], inreg', inmem')
            /\ live_in[q] \cap Returning(regmap[q]) \subseteq inmem'
            /\ DOMAIN saved' = Pushed(c)
            /\ \A h \in Pushed(c) : saved'[h] = inreg'[h]
        BY <1>1, <2>1, <3>1 DEF InCall
      <3>3. at # c
        BY <2>3, <3>2 DEF CallAt
      <3>4. at \in Nat /\ q \in Nat /\ c \in Nat
        BY <1>1, OpFacts
      <3>5. q <= at /\ at < c
        BY <3>2, <3>3, <3>4
      <3> QED
        BY <1>1, <3>2, <3>5, CallGoesOn
    <2>4. CASE prog[at].kind \notin {"PUTARG", "FPUTARG"}
      <3>1. \A v \in live_out[at] : Found(v, regmap[at], inreg', inmem')
        BY <2>1, <2>2
      <3> QED
        BY <1>1, <2>4, <3>1, GoesOn
    <2> QED
      BY <2>3, <2>4
  <1> QED
    BY <1>2, <1>3, <1>4

(* The PREPARE saves what the CALL needs. *)
LEMMA PrepareCarries ==
    ASSUME Allocated, RunInv, DInv, ExecPrepare
    PROVE  DInv'
  <1>1. /\ Running /\ todo = <<>> /\ ~leaving /\ at \in Ops /\ at > 0
        /\ UNCHANGED allocVars /\ Goto(at + 1) /\ prog[at].kind = "PREPARE"
        /\ UNCHANGED <<inreg, inmem>>
        /\ saved' = [h \in Pushed(CallOf(at)) |-> inreg[h]]
    BY InHand DEF ExecPrepare, Executing, Running
  <1>2. prog[at].def = {}
    <2>1. OperandsFormed(prog, at)
      BY <1>1, OpFacts
    <2> QED
      BY <1>1, <2>1 DEF OperandsFormed, NoTarget
  <1>3. /\ \A v \in live_in[at] : Found(v, regmap[at], inreg, inmem)
        /\ live_in[at] \cap Kept(prog[at], regmap[at], live_out[at]) \subseteq inmem
    BY <1>1, <1>2, NothingWritten
  <1>4. Kept(prog[at], regmap[at], live_out[at]) = Returning(regmap[at])
    BY <1>1 DEF Kept
  <1>5. PICK c \in Ops : CallAt(prog, at, c)
    <2>1. WellFormed(prog) /\ at \in DOMAIN prog
      BY <1>1, OpFacts DEF Ops
    <2> QED
      BY <1>1, <2>1, CallExists DEF Ops
  <1>6. CallOf(at) = c
    BY <1>1, <1>5, CallMaps
  <1>7. /\ \A v \in live_in[at] : Found(v, regmap[at], inreg', inmem')
        /\ live_in[at] \cap Returning(regmap[at]) \subseteq inmem'
        /\ DOMAIN saved' = Pushed(c)
        /\ \A h \in Pushed(c) : saved'[h] = inreg'[h]
    BY <1>1, <1>3, <1>4, <1>6
  <1>8. at <= at /\ at < c
    BY <1>1, <1>5, OpFacts DEF CallAt
  <1> QED
    BY <1>1, <1>5, <1>7, <1>8, CallGoesOn

LEMMA InCallFacts ==
    ASSUME Allocated, RunInv, DInv, Running, prog[at].kind = "CALL"
    PROVE  \E q \in Ops : InCall(q, at)
  <1>1. at \in Ops /\ at > 0 /\ at \in Nat
    BY OpFacts DEF Running, RunInv, RunTypeOK
  <1>2. PICK q \in Ops, c \in Ops : InCall(q, c)
    BY <1>1 DEF DInv, CallSection, CallKinds
  <1>3. c \in Nat /\ q \in Nat
    BY OpFacts
  <1>4. at = c
    <2>1. at # c => at \in (q + 1) .. (c - 1)
      BY <1>1, <1>2, <1>3 DEF InCall
    <2> QED
      BY <1>2, <2>1 DEF InCall, CallAt
  <1> QED
    BY <1>2, <1>4

(* The callee may change whatever is not saved for it.                     *)
LEMMA CallCarries ==
    ASSUME Allocated, RunInv, DInv, ExecCall
    PROVE  DInv'
  <1>1. /\ Running /\ todo = <<>> /\ ~leaving /\ at \in Ops
        /\ UNCHANGED allocVars /\ Goto(at + 1) /\ prog[at].kind = "CALL"
        /\ inmem' = inmem
        /\ \A h \in HReg : inreg'[h] = IF h \in DOMAIN saved THEN saved[h]
                                       ELSE IF h \in CalleeSaved THEN inreg[h] ELSE {}
    BY InHand DEF ExecCall, Executing, Running
  <1>2. PICK q \in Ops : InCall(q, at)
    BY <1>1, InCallFacts
  <1>3. /\ CallAt(prog, q, at)
        /\ \A v \in live_in[q] : Found(v, regmap[q], inreg, inmem)
        /\ live_in[q] \cap Returning(regmap[q]) \subseteq inmem
        /\ DOMAIN saved = Pushed(at)
        /\ \A h \in Pushed(at) : saved[h] = inreg[h]
    BY <1>2 DEF InCall
  <1>4. /\ live_in[at] \subseteq live_in[q]
        /\ regmap[at] = Without(regmap[q], Returning(regmap[q]))
    BY <1>1, <1>3, CallMaps
  <1>5. prog[at].def = {}
    <2>1. OperandsFormed(prog, at)
      BY <1>1, OpFacts
    <2> QED
      BY <1>1, <2>1 DEF OperandsFormed, NoTarget
  <1>6. live_out[at] \subseteq live_in[at] /\ live_in[at] \subseteq VReg /\ regmap[q] \in Map
    BY <1>1, <1>5, OpFacts
  <1>7. ASSUME NEW v \in live_out[at] PROVE Found(v, regmap[at], inreg', inmem')
    <2>1. v \in live_in[at] /\ v \in live_in[q] /\ v \in VReg
      BY <1>4, <1>6
    <2>2. CASE v \in Returning(regmap[q])
      BY <1>1, <1>3, <1>4, <2>1, <2>2 DEF Found, Without
    <2>3. CASE v \notin Returning(regmap[q])
      <3> DEFINE h == regmap[q][v]
      <3>1. regmap[at][v] = h /\ h \in HReg \cup {NoReg} /\ h \notin {RetReg, FpRetReg}
        BY <1>4, <1>6, <2>1, <2>3 DEF Without, Returning, Map
      <3>2. Found(v, regmap[q], inreg, inmem)
        BY <1>3, <2>1
      <3>3. CASE h = NoReg
        BY <1>1, <3>1, <3>2, <3>3 DEF Found
      <3>4. CASE h # NoReg
        <4>1. h \in HReg /\ v \in inreg[h]
          BY <3>1, <3>2, <3>4 DEF Found
        <4>2. h \notin CalleeSaved => h \in Pushed(at)
          BY <2>1, <3>1, <4>1 DEF Pushed, Owners
        <4>3. h \in CalleeSaved => h \notin Pushed(at)
          BY DEF Pushed
        <4>4. v \in inreg'[h]
          BY <1>1, <1>3, <4>1, <4>2, <4>3
        <4> QED
          BY <3>1, <3>4, <4>4 DEF Found
      <3> QED
        BY <3>3, <3>4
    <2> QED
      BY <2>2, <2>3
  <1> QED
    BY <1>1, <1>7, GoesOn

LEMMA CompareCarries ==
    ASSUME Allocated, RunInv, DInv, Running, todo = <<>>, ~leaving,
           prog[at].kind \in Branches, Compare
    PROVE  \A v \in live_out[at] : Found(v, regmap[at], inreg', inmem')
  <1>1. at \in Ops /\ at # 1 /\ prog[at].kind # "PROLOG" /\ prog[at].kind # "JMPI"
    BY InHand, OpFacts DEF Branches
  <1>2. OperandsFormed(prog, at) /\ prog[at].def = {}
    <2>1. OperandsFormed(prog, at)
      BY <1>1, OpFacts
    <2> QED
      BY <2>1 DEF OperandsFormed, NoTarget
  <1>3. /\ live_out[at] \subseteq live_in[at]
        /\ \A v \in live_in[at] : Found(v, regmap[at], inreg, inmem)
    BY <1>1, <1>2, NothingWritten
  <1>4. CASE prog[at].kind = "OVERFLOW"
    <2> DEFINE d == prog[at].args[1]
    <2>1. d \in ToSet(prog[at].args) /\ d \in VReg
      <3>1. prog[at].args # <<>> /\ prog[at].args \in Seq(VReg)
        BY <1>1, <1>2, <1>4, OpFacts DEF OperandsFormed
      <3> QED
        BY <3>1 DEF ToSet
    <2>2. Complete(prog[at], r_arg[at], regmap[at - 1], live_out[at])
      BY <1>1, OpFacts
    <2>3. r_arg[at][d] # NoReg
      BY <1>4, <2>1, <2>2 DEF Complete, Placing
    <2>4. regmap[at][d] = r_arg[at][d]
      BY <1>1, <2>1, <2>3, OpFacts
    <2>5. Define(d, regmap[at][d])
      BY <1>4, <2>4 DEF Compare
    <2>6. /\ regmap[at] \in Map /\ Clean(regmap[at]) /\ live_out[at] \subseteq VReg
      BY <1>1, OpFacts
    <2>7. \A v \in live_out[at] : v # d => Found(v, regmap[at], inreg, inmem)
      BY <1>3
    <2> HIDE DEF d
    <2> QED
      BY <2>1, <2>3, <2>4, <2>5, <2>6, <2>7, DefineKeeps
  <1>5. CASE prog[at].kind # "OVERFLOW"
    BY <1>3, <1>5 DEF Compare
  <1> QED
    BY <1>4, <1>5

LEMMA BranchCarries ==
    ASSUME Allocated, RunInv, DInv, NoMask, TakeBranch
    PROVE  DInv'
  <1>1. /\ Running /\ todo = <<>> /\ ~leaving /\ at \in Ops /\ at > 0
        /\ UNCHANGED allocVars /\ saved' = saved /\ Compare
        /\ prog[at].kind \in Branches
    BY InHand DEF TakeBranch, Executing, Running, NoMask
  <1>2. \A v \in live_out[at] : Found(v, regmap[at], inreg', inmem')
    BY <1>1, CompareCarries
  <1> DEFINE t == prog[at].jmp
  <1>3. t # 0
    BY <1>1, Flow, OpFacts
  <1>4. /\ t \in Ops /\ t # 1 /\ prog[t].kind = "OP" /\ regmap[t] = regmap[t - 1]
        /\ live_in[t] \subseteq live_out[at] /\ live_in[t] \subseteq VReg
        /\ regmap[t] \in Map /\ regmap[at] \in Map
    <2>1. /\ t \in Ops /\ t # 1 /\ prog[t].kind = "OP" /\ regmap[t] = regmap[t - 1]
          /\ live_in[t] \subseteq live_out[at]
      BY <1>1, <1>3, TargetFacts DEF Branches
    <2> QED
      BY <1>1, <2>1, OpFacts
  <1>5. CASE at \in inverted
    <2>1. at' = at /\ todo' = detour[at] /\ leaving' = TRUE
      BY <1>5 DEF TakeBranch
    <2>2. Joined(detour[at], regmap[t], regmap[at], live_in[t])
      BY <1>1, <1>5 DEF Allocated, MInv, Agree
    <2>3. detour[at] \in Seq(Move)
      BY <1>1 DEF Allocated, IInv, TypeOK
    <2>4. \A v \in live_in[t] : Found(v, regmap[at], inreg', inmem')
      BY <1>2, <1>4
    <2>5. Ready(detour[at], regmap[t], live_in[t], {}, inreg', inmem')
      <3> DEFINE E == {}
      <3>1. E \cap live_in[t] \subseteq inmem'
        OBVIOUS
      <3>2. Ready(detour[at], regmap[t], live_in[t], {}, Held(regmap[at]),
                  Stored(regmap[at]) \cup E)
        BY <2>2 DEF Joined
      <3> HIDE DEF E, t
      <3> QED
        BY <1>4, <2>3, <2>4, <3>1, <3>2, ReadyHere
    <2>6. OnTheWay'
      <3>1. UNCHANGED <<prog, live_in, regmap>>
        BY <1>1 DEF allocVars
      <3>2. Ready(todo', regmap'[prog'[at'].jmp], live_in'[prog'[at'].jmp], {}, inreg', inmem')
        BY <2>1, <2>5, <3>1
      <3> QED
        BY <2>1, <3>2 DEF OnTheWay
    <2>7. at # 1
      BY <1>1, OpFacts DEF Branches
    <2>8. Arrived' /\ AtProlog' /\ CallSection'
      BY <1>1, <2>1, <2>7 DEF Arrived, AtProlog, CallSection, allocVars, Branches, CallKinds
    <2> QED
      BY <2>6, <2>8 DEF DInv
  <1>6. CASE at \notin inverted
    <2>1. Goto(t)
      BY <1>6 DEF TakeBranch
    <2>2. SameMaps(at, t)
      BY <1>1, <1>6 DEF Allocated, MInv, Agree
    <2>3. \A v \in live_in[t] : Found(v, regmap[t - 1], inreg', inmem')
      BY <1>2, <1>4, <2>2 DEF SameMaps, Found
    <2> HIDE DEF t
    <2> QED
      BY <1>1, <1>4, <2>1, <2>3, ComesToLabel
  <1> QED
    BY <1>5, <1>6

LEMMA LeaveCarries ==
    ASSUME Allocated, RunInv, DInv, Leave
    PROVE  DInv'
  <1>1. /\ at \in Ops /\ at > 0 /\ todo = <<>> /\ leaving /\ UNCHANGED allocVars
        /\ UNCHANGED <<inreg, inmem>> /\ Goto(prog[at].jmp)
    BY DEF Leave, Running, RunInv, RunTypeOK
  <1> DEFINE t == prog[at].jmp
  <1>2. prog[at].kind \in Branches /\ t # 0
    BY <1>1 DEF RunInv, Detours, Allocated, IInv, Turned
  <1>3. /\ t \in Ops /\ t # 1 /\ prog[t].kind = "OP" /\ regmap[t] = regmap[t - 1]
    BY <1>1, <1>2, TargetFacts
  <1>4. Ready(<<>>, regmap[t], live_in[t], {}, inreg, inmem)
    BY <1>1 DEF DInv, OnTheWay
  <1>5. \A v \in live_in[t] : Found(v, regmap[t - 1], inreg', inmem')
    <2> HIDE DEF t
    <2>1. \A v \in live_in[t] : Found(v, regmap[t], inreg, inmem)
      BY <1>4, NothingToDo
    <2> QED
      BY <2>1, <1>1, <1>3
  <1>6. Goto(t)
    BY <1>1
  <1> HIDE DEF t
  <1> QED
    BY <1>1, <1>3, <1>5, <1>6, ComesToLabel

LEMMA FallsCarries ==
    ASSUME Allocated, RunInv, DInv, NoMask, FallThrough
    PROVE  DInv'
  <1>1. /\ Running /\ todo = <<>> /\ ~leaving /\ at \in Ops
        /\ UNCHANGED allocVars /\ Goto(at + 1) /\ Compare
        /\ prog[at].kind \in Branches
    BY InHand DEF FallThrough, Executing, Running, NoMask
  <1>2. \A v \in live_out[at] : Found(v, regmap[at], inreg', inmem')
    BY <1>1, CompareCarries
  <1> QED
    BY <1>1, <1>2, GoesOn DEF Branches

LEMMA JumpCarries ==
    ASSUME Allocated, RunInv, DInv, Jump
    PROVE  DInv'
  <1>1. /\ Running /\ todo = <<>> /\ ~leaving /\ at \in Ops /\ prog[at].kind = "JMPI"
        /\ UNCHANGED allocVars /\ Goto(prog[at].jmp) /\ UNCHANGED <<inreg, inmem>>
    BY InHand DEF Jump, Executing, Running
  <1> DEFINE t == prog[at].jmp
  <1>2. t # 0 /\ live_in[at] = live_in[t]
    BY <1>1, JumpNeeds
  <1>3. /\ t \in Ops /\ t # 1 /\ prog[t].kind = "OP" /\ regmap[t] = regmap[t - 1]
    BY <1>1, <1>2, TargetFacts
  <1>4. \A v \in live_in[t] : Found(v, regmap[t], inreg, inmem)
    <2>1. \A v \in Needs(prog[at], live_in[at]) : Found(v, Goal(at), inreg, inmem)
      BY <1>1, InHand
    <2> QED
      BY <1>1, <1>2, <2>1 DEF Needs, Goal
  <1>5. \A v \in live_in[t] : Found(v, regmap[t - 1], inreg', inmem')
    BY <1>1, <1>3, <1>4
  <1>6. Goto(t)
    BY <1>1
  <1> HIDE DEF t
  <1> QED
    BY <1>1, <1>3, <1>5, <1>6, ComesToLabel

(* All that lives on was stored, and the FULL_SPILL before a label whose   *)
(* address is taken leaves nothing of it in registers.                     *)
LEMMA AddressCarries ==
    ASSUME Allocated, RunInv, DInv, JumpToAddress
    PROVE  DInv'
  <1>1. /\ Running /\ todo = <<>> /\ ~leaving /\ at \in Ops /\ prog[at].kind = "JMPR"
        /\ UNCHANGED allocVars /\ UNCHANGED <<inreg, inmem>>
    BY InHand DEF JumpToAddress, Executing, Running
  <1>2. PICK t \in Succ(prog, at) : Goto(t)
    BY DEF JumpToAddress
  <1>3. live_in[t] \subseteq live_out[at]
    BY <1>1, OpFacts
  <1>4. prog[at].jmp = 0 /\ prog[at].def = {}
    <2>1. JumpsFormed(prog, at) /\ OperandsFormed(prog, at)
      BY <1>1, OpFacts DEF WellFormed, Ops
    <2> QED
      BY <1>1, <2>1 DEF JumpsFormed, OperandsFormed, NoTarget, Branches
  <1>5. live_out[at] \subseteq inmem
    <2>1. /\ live_out[at] \subseteq live_in[at]
          /\ live_in[at] \cap Kept(prog[at], regmap[at], live_out[at]) \subseteq inmem
      BY <1>1, <1>4, NothingWritten
    <2> QED
      BY <1>1, <2>1 DEF Kept
  <1>6. PICK k \in Ops : prog[k].kind = "REF_CODE" /\ t = prog[k].jmp
    BY <1>1, <1>2, <1>4 DEF Succ, Ops
  <1>7. t # 0 /\ prog[t - 1].kind = "FULL_SPILL"
    <2>1. JumpsFormed(prog, k)
      BY OpFacts DEF WellFormed, Ops
    <2> QED
      BY <1>6, <2>1 DEF JumpsFormed
  <1>8. t \in Ops /\ t # 1 /\ prog[t].kind = "OP"
    BY <1>6, <1>7, TargetFacts
  <1>9. t \in Nat /\ t - 1 \in Ops /\ t - 1 # 1 /\ (t - 1) + 1 = t
    <2>1. t \in Nat /\ t - 1 \in Ops
      BY <1>8, OpFacts
    <2>2. t - 1 # 1
      BY <1>7, <2>1, OpFacts
    <2> QED
      BY <2>1, <2>2
  <1>10. Mapped(regmap[t - 1]) \cap live_out[t - 1] = {}
    <2> DEFINE s == t - 1
    <2>1. s \in Ops /\ s # 1 /\ prog[s].kind = "FULL_SPILL"
      BY <1>7, <1>9
    <2>2. Fine(prog[s], prog[s - 1], regmap[s - 1], regmap[s], before[s],
               live_in[s], live_out[s])
      BY <2>1, OpFacts
    <2> QED
      BY <2>1, <2>2 DEF Fine
  <1>11. live_in[t] \subseteq live_out[t - 1]
    BY <1>7, <1>9, NextFacts
  <1>12. live_in[t] \subseteq VReg
    BY <1>8, OpFacts
  <1>13. \A v \in live_in[t] : Found(v, regmap[t - 1], inreg', inmem')
    BY <1>1, <1>3, <1>5, <1>10, <1>11, <1>12 DEF Found, Mapped
  <1> QED
    BY <1>1, <1>2, <1>8, <1>13, ComesToLabel

LEMMA ReturnCarries ==
    ASSUME Return
    PROVE  DInv'
  BY DEF Return, DInv, OnTheWay, Arrived, AtProlog, CallSection

LEMMA AllocateCarries ==
    ASSUME RunInv, Allocate
    PROVE  DInv'
  <1>1. phase # "allocated"
    BY AllocatingPhase
  <1>2. at' = 0
    BY <1>1 DEF Allocate, RunInv, NotYet, runVars
  <1> QED
    BY <1>2 DEF DInv, OnTheWay, Arrived, AtProlog, CallSection

LEMMA ValuesInductive ==
    IInv /\ MInv /\ NoMask /\ RunInv /\ DInv /\ [SystemNext]_vars => DInv'
  <1> SUFFICES ASSUME IInv, MInv, NoMask, RunInv, DInv, [SystemNext]_vars PROVE DInv'
    OBVIOUS
  <1>1. CASE Allocate
    BY <1>1, AllocateCarries
  <1>2. CASE RunNext
    <2>1. Allocated
      BY <1>2, RunKeeps DEF Allocated
    <2> QED
      BY <1>2, <2>1, EnterCarries, MoveCarries, OpCarries, PrepareCarries, CallCarries,
         BranchCarries, LeaveCarries, FallsCarries, JumpCarries, AddressCarries,
         ReturnCarries DEF RunNext
  <1>3. CASE UNCHANGED vars
    <2>1. UNCHANGED <<prog, live_in, live_out, regmap, before, at, todo, leaving>>
      BY <1>3 DEF vars, runVars, allocVars
    <2>2. UNCHANGED <<inreg, inmem, saved>>
      BY <1>3 DEF vars, runVars
    <2>3. OnTheWay' /\ Arrived' /\ AtProlog'
      BY <2>1, <2>2 DEF DInv, OnTheWay, Goal, Arrived, AtProlog
    <2>4. CallSection'
      <3>1. ASSUME NEW q \in Ops, NEW c \in Ops, InCall(q, c) PROVE InCall(q, c)'
        <4>1. Pushed(c)' = Pushed(c)
          BY <2>1 DEF Pushed
        <4> QED
          BY <2>1, <2>2, <3>1, <4>1 DEF InCall, Found
      <3>2. Ops' = Ops
        BY <2>1 DEF Ops
      <3> QED
        BY <2>1, <3>1, <3>2 DEF DInv, CallSection
    <2> QED
      BY <2>3, <2>4 DEF DInv
  <1> QED
    BY <1>1, <1>2, <1>3 DEF SystemNext

LEMMA ValuesInvariance ==
    ASSUME NoMasks(Programs)
    PROVE  SystemSpec => [](IInv /\ MInv /\ RunInv /\ DInv)
  <1>1. SystemInit => DInv
    BY DEF SystemInit, RunInit, DInv, OnTheWay, Arrived, AtProlog, CallSection
  <1>2. Spec => []NoMask
    BY NoMaskInvariance
  <1>3. IInv /\ MInv /\ NoMask /\ RunInv /\ DInv /\ [SystemNext]_vars => DInv'
    BY ValuesInductive
  <1>4. SystemSpec => Spec
    BY SystemImplementsAllocator
  <1>5. SystemSpec => []RunInv
    BY <1>4, RunInitially, RunInductive, Invariance, PTL DEF SystemSpec
  <1> QED
    BY <1>1, <1>2, <1>3, <1>4, <1>5, Invariance, MovesInvariance, PTL DEF SystemSpec

-----------------------------------------------------------------------------
LEMMA NothingLost == IInv /\ MInv /\ RunInv /\ DInv => NoValueLost
  <1> SUFFICES ASSUME IInv, MInv, RunInv, DInv, Running, todo = before[at], ~leaving,
                      at > 1, NEW v \in live_in[at]
               PROVE  InPlace(v, regmap[at - 1])
    BY DEF NoValueLost
  <1>1. at > 0
    BY DEF Running
  <1>2. Found(v, regmap[at - 1], inreg, inmem)
    BY <1>1 DEF DInv, Arrived
  <1> QED
    BY <1>2 DEF Found, InPlace

LEMMA MovesAreCurrent == IInv /\ MInv /\ RunInv /\ DInv => MovesCurrent
  <1> SUFFICES ASSUME IInv, MInv, RunInv, DInv, Running, todo # <<>>
               PROVE  MovesCurrent
    BY DEF MovesCurrent
  <1>1. Allocated /\ at \in Ops /\ at > 0 /\ todo \in Seq(Move) /\ Head(todo) = todo[1]
    BY DEF Allocated, Running, RunInv, RunTypeOK
  <1> DEFINE live == IF leaving THEN live_in[prog[at].jmp] ELSE live_in[at]
  <1>2. PICK map, S : Ready(todo, map, live, S, inreg, inmem)
    <2>1. CASE leaving
      <3>1. Ready(todo, regmap[prog[at].jmp], live, {}, inreg, inmem)
        BY <1>1, <2>1 DEF DInv, OnTheWay
      <3> HIDE DEF live
      <3> QED
        BY <3>1
    <2>2. CASE ~leaving
      <3>1. before[at] # <<>>
        <4>1. Len(todo) <= Len(before[at]) /\ Len(todo) > 0 /\ Len(todo) \in Nat
          BY <1>1, <2>2 DEF DInv, Arrived
        <4> QED
          BY <4>1
      <3>2. prog[at].kind # "NOP"
        <4> SUFFICES ASSUME prog[at].kind = "NOP" PROVE FALSE
          OBVIOUS
        <4>1. at # 1
          BY <1>1, OpFacts
        <4>2. Fine(prog[at], prog[at - 1], regmap[at - 1], regmap[at], before[at],
                   live_in[at], live_out[at])
          BY <1>1, <4>1, OpFacts
        <4> QED
          BY <3>1, <4>2 DEF Fine, Still
      <3>3. Needs(prog[at], live_in[at]) = live
        BY <2>2, <3>2 DEF Needs
      <3>4. Ready(todo, Goal(at), live,
                  Kept(prog[at], regmap[at], live_out[at]), inreg, inmem)
        BY <1>1, <2>2, <3>3 DEF DInv, OnTheWay
      <3> HIDE DEF live
      <3> QED
        BY <3>4
    <2> QED
      BY <2>1, <2>2
  <1>3. /\ todo[1].move = "UREG" /\ todo[1].v \in live => todo[1].v \in inreg[todo[1].h]
        /\ todo[1].move = "LREG" /\ todo[1].v \in live => todo[1].v \in inmem
    <2> HIDE DEF live
    <2> QED
      BY <1>1, <1>2, HeadCurrent
  <1> QED
    BY <1>1, <1>3 DEF MovesCurrent

LEMMA ReadsAreCurrent == IInv /\ MInv /\ RunInv /\ DInv => ReadsCurrent
  <1> SUFFICES ASSUME IInv, MInv, RunInv, DInv,
                      Executing(Kinds \ {"PUTARG", "FPUTARG", "CALL", "FORCE_SPILL"}),
                      NEW v \in prog[at].use
               PROVE  CASE prog[at].kind \in {"GETARG", "GETARG_CONV"} -> InPlace(v, regmap[at])
                        [] prog[at].kind = "NOP" -> v \in inreg[r_arg[at][prog[at].args[1]]]
                        [] OTHER -> v \in inreg[r_arg[at][v]]
    BY DEF ReadsCurrent
  <1>1. /\ Allocated /\ Running /\ todo = <<>> /\ ~leaving
        /\ prog[at].kind \in Kinds \ {"PUTARG", "FPUTARG", "CALL", "FORCE_SPILL"}
    BY DEF Allocated, Executing, Running
  <1>2. /\ at \in Ops /\ at > 0
        /\ \A u \in Needs(prog[at], live_in[at]) : Found(u, Goal(at), inreg, inmem)
    BY <1>1, InHand DEF Running
  <1>3. v \in live_in[at] /\ v \in VReg
    BY <1>2, <1>1, OpFacts
  <1>4. OperandsFormed(prog, at) /\ (at # 1 => Complete(prog[at], r_arg[at], regmap[at - 1], live_out[at]))
    BY <1>1, <1>2, OpFacts
  <1>5. at # 1 /\ prog[at].kind # "PROLOG"
    BY <1>1, <1>2, <1>4, OpFacts DEF OperandsFormed
  <1>6. prog[at].kind \notin {"PREPARE", "FULL_SPILL", "JMPI", "RETVAL", "FRETVAL"}
    BY <1>4 DEF OperandsFormed, ToSet
  <1>7. CASE prog[at].kind \in {"GETARG", "GETARG_CONV"}
    <2>1. Found(v, regmap[at], inreg, inmem)
      BY <1>2, <1>3, <1>7 DEF Needs, Goal
    <2> QED
      BY <1>7, <2>1 DEF Found, InPlace
  <1>8. CASE prog[at].kind = "NOP"
    <2>1. PICK x, d \in VReg :
              /\ prog[at].use = {x} /\ prog[at].args = <<d>>
              /\ r_arg[at][d] # NoReg /\ regmap[at - 1][x] = r_arg[at][d]
      BY <1>4, <1>5, <1>8 DEF Complete
    <2>2. before[at] = <<>>
      <3>1. Fine(prog[at], prog[at - 1], regmap[at - 1], regmap[at], before[at],
                 live_in[at], live_out[at])
        BY <1>1, <1>2, <1>5, <1>8, OpFacts
      <3> QED
        BY <1>8, <3>1 DEF Fine, Still
    <2>3. at > 1
      BY <1>1, <1>2, <1>5, OpFacts
    <2>4. Found(v, regmap[at - 1], inreg, inmem)
      BY <1>1, <1>2, <1>3, <2>2, <2>3 DEF DInv, Arrived
    <2>5. v = x /\ prog[at].args[1] = d
      BY <2>1
    <2> QED
      BY <1>8, <2>1, <2>4, <2>5 DEF Found
  <1>9. CASE prog[at].kind \notin {"GETARG", "GETARG_CONV", "NOP"}
    <2>1. prog[at].kind \in Placing
      BY <1>1, <1>5, <1>6, <1>9 DEF Kinds, Placing
    <2>2. v \in ToSet(prog[at].args)
      BY <1>4, <1>5, <1>9 DEF OperandsFormed
    <2>3. r_arg[at][v] # NoReg
      BY <1>4, <1>5, <2>1, <2>2 DEF Complete
    <2>4. regmap[at][v] = r_arg[at][v]
      BY <1>1, <1>2, <1>3, <2>3, OpFacts
    <2>5. Found(v, regmap[at], inreg, inmem)
      BY <1>2, <1>3, <1>6, <1>9 DEF Needs, Goal
    <2>6. v \in inreg[r_arg[at][v]]
      BY <2>3, <2>4, <2>5 DEF Found
    <2> QED
      BY <1>9, <2>6
  <1> QED
    BY <1>7, <1>8, <1>9

-----------------------------------------------------------------------------
(* What a call passes.                                                     *)

(* The k-th argument of the call is an immediate that goes through the     *)
(* return register: emit_fp_push_imm, and every push of an immediate on    *)
(* the stack.                                                              *)
GoesByReturn(p, args, k) ==
    /\ p[args[k]].args = <<>>
    /\ \/ p[args[k]].kind = "FPUTARG"
       \/ Cardinality({j \in 1 .. k : p[args[j]].kind = "PUTARG"}) \notin DOMAIN GpArgRegs

(* No such immediate follows an argument that is in a register.            *)
ReturnUnused(p) ==
    \A q \in DOMAIN p : p[q].kind = "PREPARE" =>
        \A j, k \in DOMAIN PutArgs(p, q) :
            k < j /\ GoesByReturn(p, PutArgs(p, q), j) => p[PutArgs(p, q)[k]].use = {}

NoLateImmediates(programs) == \A p \in programs : ReturnUnused(p)

LEMMA ReturnUnusedInvariance ==
    ASSUME NoLateImmediates(Programs)
    PROVE  Spec => []ReturnUnused(prog)
  <1>1. Init => ReturnUnused(prog)
    BY DEF Init, NoLateImmediates
  <1>2. IInv /\ ReturnUnused(prog) /\ [Next]_allocVars => ReturnUnused(prog)'
    <2> SUFFICES ASSUME IInv, ReturnUnused(prog), [Next]_allocVars PROVE ReturnUnused(prog)'
      OBVIOUS
    <2>1. CASE AssignGetArgFast
      <3>1. /\ cur \in Ops /\ WellFormed(prog) /\ prog[cur].kind = "GETARG"
            /\ BecomesNop(prog', cur)
        BY <2>1, InheritedFacts DEF AssignGetArgFast, Beginning, BecomesNop, Kind
      <3>2. /\ DOMAIN prog' = Ops /\ prog'[cur].kind = "NOP" /\ Len(prog') = Len(prog)
            /\ \A o \in Ops : o # cur => prog'[o] = prog[o]
        BY <3>1, NopWellFormed
      <3> SUFFICES ASSUME NEW q \in DOMAIN prog', prog'[q].kind = "PREPARE",
                          NEW j \in DOMAIN PutArgs(prog', q), NEW k \in DOMAIN PutArgs(prog', q),
                          k < j, GoesByReturn(prog', PutArgs(prog', q), j)
                   PROVE  prog'[PutArgs(prog', q)[k]].use = {}
        BY DEF ReturnUnused
      <3>3. q \in Ops /\ prog[q].kind = "PREPARE" /\ q \in Nat
            /\ Len(prog) \in Nat /\ Ops = 1 .. Len(prog)
        BY <3>1, <3>2, ProgFacts
      <3>4. PICK c \in Ops : CallAt(prog, q, c)
        BY <3>1, <3>3, CallExists DEF Ops
      <3>5. CallAt(prog', q, c) /\ \A i \in (q + 1) .. (c - 1) : i \in Ops /\ prog'[i] = prog[i]
        <4>1. \A i \in (q + 1) .. (c - 1) : i \in Ops
          BY <3>3
        <4> QED
          BY <3>1, <3>2, <3>3, <3>4, <4>1 DEF CallAt
      <3> DEFINE A == [i \in 1 .. (c - q - 1) |-> q + i]
      <3>6. PutArgs(prog, q) = A /\ PutArgs(prog', q) = A
        BY <3>2, <3>3, <3>4, <3>5, CallArgs
      <3>7. \A i \in DOMAIN A : A[i] \in (q + 1) .. (c - 1) /\ i \in 1 .. (c - q - 1)
        BY <3>3
      <3>8. DOMAIN A = 1 .. (c - q - 1)
        OBVIOUS
      <3> HIDE DEF A
      <3>9. \A i \in DOMAIN A : prog'[A[i]] = prog[A[i]]
        BY <3>5, <3>7
      <3>10. \A n \in DOMAIN A : \A i \in 1 .. n : i \in DOMAIN A
        BY <3>3, <3>8
      <3>11. j \in DOMAIN A /\ k \in DOMAIN A
        BY <3>6
      <3>12. {i \in 1 .. j : prog'[A[i]].kind = "PUTARG"} = {i \in 1 .. j : prog[A[i]].kind = "PUTARG"}
        BY <3>9, <3>10, <3>11
      <3>13. GoesByReturn(prog, A, j)
        BY <3>6, <3>9, <3>11, <3>12 DEF GoesByReturn
      <3>14. prog[A[k]].use = {}
        BY <3>3, <3>6, <3>11, <3>13 DEF ReturnUnused, Ops
      <3> QED
        BY <3>6, <3>9, <3>11, <3>14
    <2>2. CASE prog' = prog
      BY <2>2 
    <2>3. AssignGetArgFast \/ prog' = prog
      BY DEF Next, AssignProlog, AssignPlain, AssignPutArg, AssignGetArg, AssignPrepare,
             AssignCall, AssignRetVal, AssignJmpr, AssignFullSpill, AssignForceSpill,
             OperandAssociated, OperandToRegister, StartAdjusting, AdjustBranches,
             AdjustJumps, allocVars
    <2> QED
      BY <2>1, <2>2, <2>3
  <1> QED
    BY <1>1, <1>2, Invariance, PTL DEF Spec

(* An argument passed in a register is passed in one that was vacated.     *)
LEMMA DestinationPassing ==
    ASSUME Allocated, NEW q \in Ops, NEW c \in Ops, CallAt(prog, q, c),
           NEW k \in DOMAIN PutArgs(prog, q)
    PROVE  Destination(PutArgs(prog, q), k) \in Passing(q) \cup {NoReg}
  <1> DEFINE A == PutArgs(prog, q)
             kind == prog[A[k]].kind
             S == {j \in 1 .. k : prog[A[j]].kind = kind}
             T == {o \in ToSet(A) : prog[o].kind = kind}
  <1>1. /\ A = [i \in 1 .. (c - q - 1) |-> q + i]
        /\ q \in Nat /\ c \in Nat /\ Len(prog) \in Nat /\ Ops = 1 .. Len(prog)
    BY CallMaps, OpFacts, ProgFacts
  <1>2. /\ DOMAIN A = 1 .. (c - q - 1) /\ c - q - 1 \in Int
        /\ k \in Nat /\ k >= 1 /\ k <= c - q - 1
    BY <1>1
  <1>3. \A j \in 1 .. k : j \in DOMAIN A /\ A[j] = q + j /\ A[j] \in ToSet(A)
    <2>1. \A j \in 1 .. k : j \in DOMAIN A
      <3> HIDE DEF A
      <3> QED
        BY <1>2
    <2>2. \A j \in DOMAIN A : A[j] = q + j
      BY <1>1
    <2>3. ToSet(A) = {A[j] : j \in DOMAIN A}
      BY DEF ToSet
    <2> HIDE DEF A
    <2> QED
      BY <2>1, <2>2, <2>3
  <1>4. kind \in {"PUTARG", "FPUTARG"}
    <2>1. A[k] \in (q + 1) .. (c - 1)
      BY <1>1, <1>2
    <2> QED
      BY <2>1 DEF CallAt
  <1>5. IsFiniteSet(T)
    <2>1. T \subseteq 1 .. Len(prog)
      BY <1>1, <1>2 DEF ToSet
    <2>2. IsFiniteSet(1 .. Len(prog))
      BY <1>1, FS_Interval
    <2> QED
      BY <2>1, <2>2, FS_Subset
  <1>6. IsFiniteSet(S) /\ Cardinality(S) <= Cardinality(T)
    <2> DEFINE fn == [j \in S |-> A[j]]
    <2>1. \A j \in S : A[j] \in T
      BY <1>3
    <2>2. \A i, j \in S : A[i] = A[j] => i = j
      BY <1>1, <1>2, <1>3
    <2> HIDE DEF A, S, T
    <2>3. fn \in Injection(S, T)
      BY <2>1, <2>2 DEF Injection, IsInjective
    <2> QED
      BY <1>5, <2>3, FS_Injection
  <1>7. Cardinality(S) \in Nat /\ Cardinality(T) \in Nat
    BY <1>5, <1>6, FS_CardinalityType
  <1>8. Cardinality(T) = ArgCount(prog, q, kind)
    BY DEF ArgCount
  <1>9. Destination(A, k) = LET regs == IF kind = "PUTARG" THEN GpArgRegs ELSE FpArgRegs
                            IN IF Cardinality(S) \in DOMAIN regs THEN regs[Cardinality(S)] ELSE NoReg
    BY DEF Destination
  <1>10. Destination(A, k) \in Passing(q) \cup {NoReg}
    <2> HIDE DEF A, S, T, kind
    <2>1. CASE kind = "PUTARG"
      <3>1. Cardinality(S) \in DOMAIN GpArgRegs =>
              GpArgRegs[Cardinality(S)] \in FirstRegs(GpArgRegs, ArgCount(prog, q, "PUTARG"))
        BY <1>6, <1>8, <2>1 DEF FirstRegs
      <3> QED
        BY <1>9, <2>1, <3>1 DEF Passing
    <2>2. CASE kind = "FPUTARG"
      <3>1. Cardinality(S) \in DOMAIN FpArgRegs =>
              FpArgRegs[Cardinality(S)] \in FirstRegs(FpArgRegs, ArgCount(prog, q, "FPUTARG"))
        BY <1>6, <1>8, <2>2 DEF FirstRegs
      <3> QED
        BY <1>9, <2>2, <3>1 DEF Passing
    <2> QED
      BY <1>4, <2>1, <2>2
  <1> QED
    BY <1>10

LEMMA CallsAreCurrent ==
    IInv /\ MInv /\ RunInv /\ DInv /\ ReturnUnused(prog) => CallsReadCurrent
  <1> SUFFICES ASSUME IInv, MInv, RunInv, DInv, ReturnUnused(prog), Executing({"CALL"})
               PROVE  LET prepare == PrepareOf(prog, at)
                          args    == PutArgs(prog, prepare)
                      IN /\ \A k \in DOMAIN args : ArgumentInPlace(args, k, prepare)
                         /\ CalleeInPlace(args, at)
    BY DEF CallsReadCurrent
  <1>1. /\ Allocated /\ Running /\ todo = <<>> /\ ~leaving /\ prog[at].kind = "CALL"
    BY DEF Allocated, Executing, Running
  <1>2. at \in Ops /\ at > 0 /\ at \in Nat
    BY <1>1, InHand, OpFacts DEF Running
  <1>3. PICK q \in Ops : InCall(q, at)
    BY <1>1, InCallFacts
  <1>4. /\ CallAt(prog, q, at)
        /\ \A v \in live_in[q] : Found(v, regmap[q], inreg, inmem)
    BY <1>3 DEF InCall
  <1>5. /\ PrepareOf(prog, at) = q
        /\ PutArgs(prog, q) = [k \in 1 .. (at - q - 1) |-> q + k]
        /\ regmap[at] = Without(regmap[q], Returning(regmap[q]))
        /\ \A k \in q .. (at - 1) : live_in[k] \subseteq live_in[q]
        /\ q \in Nat /\ regmap[q] \in Map
    BY <1>1, <1>2, <1>4, CallMaps, OpFacts
  <1> DEFINE A == PutArgs(prog, q)
  <1>6. \A k \in DOMAIN A : Destination(A, k) \in Passing(q) \cup {NoReg}
    BY <1>1, <1>2, <1>4, DestinationPassing
  <1>7. \A v \in VReg : regmap[q][v] \notin Passing(q)
    <2>1. prog[q].kind = "PREPARE" /\ Done(q)
      <3>1. cur = Len(prog) + 1
        BY <1>1 DEF Allocated, MInv, Ended
      <3>2. Len(prog) \in Nat /\ Ops = 1 .. Len(prog)
        BY ProgFacts DEF IInv, TypeOK
      <3> QED
        BY <1>4, <3>1, <3>2 DEF CallAt, Done
    <2> QED
      BY <2>1 DEF Allocated, MInv, Vacated
  <1>8. Len(A) = at - q - 1 /\ DOMAIN A = 1 .. (at - q - 1) /\ at - q - 1 \in Nat
    BY <1>2, <1>4, <1>5 DEF CallAt
  <1>9. \A n \in Nat : \A j \in (n + 1) .. Len(A) : j \in DOMAIN A
    <2> HIDE DEF A
    <2> QED
      BY <1>8
  <1>10. \A n \in Nat : Overwritten(A, n) \subseteq Passing(q) \cup {NoReg, RetReg}
    <2> HIDE DEF A
    <2> QED
      BY <1>6, <1>9 DEF Overwritten
  <1>11. ASSUME NEW k \in DOMAIN A PROVE ArgumentInPlace(A, k, q)
    <2> SUFFICES ASSUME NEW v \in prog[A[k]].use
                 PROVE  /\ InPlace(v, regmap[q])
                        /\ regmap[q][v] # NoReg => regmap[q][v] \notin Overwritten(A, k)
      BY DEF ArgumentInPlace
    <2>1. A[k] = q + k /\ q + k \in q .. (at - 1) /\ q + k \in Ops /\ k \in Nat
      <3>1. WellFormed(prog) /\ Ops = 1 .. Len(prog) /\ Len(prog) \in Nat
        BY <1>1, <1>2, OpFacts, ProgFacts
      <3> QED
        BY <3>1, <1>2, <1>5, <1>8
    <2>2. v \in live_in[q] /\ v \in VReg
      <3>1. v \in live_in[q + k] /\ live_in[q + k] \subseteq VReg
        BY <1>1, <2>1, OpFacts
      <3> QED
        BY <3>1, <2>1, <1>5
    <2>3. InPlace(v, regmap[q])
      BY <1>4, <2>2 DEF InPlace, Found
    <2>4. ASSUME regmap[q][v] = RetReg PROVE RetReg \notin Overwritten(A, k)
      <3>1. RetReg \notin Passing(q) /\ RetReg # NoReg
        BY <1>7, <2>2, <2>4, RegisterAssumption
      <3>2. ASSUME NEW j \in (k + 1) .. Len(A), prog[A[j]].args = <<>>,
                   prog[A[j]].kind = "FPUTARG" \/ Destination(A, j) = NoReg
            PROVE  FALSE
        <4>1. j \in DOMAIN A /\ k < j
          <5> HIDE DEF A
          <5> QED
            BY <1>9, <2>1, <1>8
        <4>2. GoesByReturn(prog, A, j)
          <5>1. CASE prog[A[j]].kind = "FPUTARG"
            BY <3>2, <5>1 DEF GoesByReturn
          <5>2. CASE prog[A[j]].kind # "FPUTARG"
            <6>1. prog[A[j]].kind = "PUTARG"
              <7>1. A[j] \in (q + 1) .. (at - 1)
                BY <4>1, <1>2, <1>5
              <7> QED
                BY <1>4, <5>2, <7>1 DEF CallAt
            <6>2. ASSUME Cardinality({i \in 1 .. j : prog[A[i]].kind = "PUTARG"}) \in DOMAIN GpArgRegs
                  PROVE  FALSE
              <7>1. Destination(A, j) = GpArgRegs[Cardinality({i \in 1 .. j : prog[A[i]].kind = "PUTARG"})]
                <8> HIDE DEF A
                <8> QED
                  BY <6>1, <6>2 DEF Destination
              <7>2. \A i \in DOMAIN GpArgRegs : GpArgRegs[i] \in HReg
                BY RegisterAssumption, ElementOfSeq, LenProperties
              <7> HIDE DEF A
              <7> QED
                BY <3>2, <5>2, <6>2, <7>1, <7>2, RegisterAssumption
            <6> HIDE DEF A
            <6> QED
              BY <3>2, <6>2 DEF GoesByReturn
          <5> QED
            BY <5>1, <5>2
        <4>3. prog[A[k]].use = {}
          BY <1>4, <4>1, <4>2 DEF ReturnUnused, Ops, CallAt
        <4> QED
          BY <4>3
      <3>3. \A j \in (k + 1) .. Len(A) : Destination(A, j) # RetReg
        <4> HIDE DEF A
        <4> QED
          BY <1>6, <1>9, <2>1, <3>1
      <3> HIDE DEF A
      <3> QED
        BY <3>2, <3>3 DEF Overwritten
    <2>5. regmap[q][v] \notin Passing(q)
      BY <1>7, <2>2
    <2>6. Overwritten(A, k) \subseteq Passing(q) \cup {NoReg, RetReg}
      BY <1>10, <2>1
    <2> HIDE DEF A
    <2> QED
      BY <2>3, <2>4, <2>5, <2>6
  <1>12. CalleeInPlace(A, at)
    <2> SUFFICES ASSUME NEW v \in prog[at].use
                 PROVE  /\ InPlace(v, regmap[at])
                        /\ regmap[at][v] \notin (Overwritten(A, 0) \ {NoReg}) \cup {RetReg}
      BY DEF CalleeInPlace
    <2>1. v \in live_in[at] /\ v \in VReg
      BY <1>1, <1>2, OpFacts
    <2>2. prog[at].def = {}
      <3>1. OperandsFormed(prog, at)
        BY <1>1, <1>2, OpFacts
      <3> QED
        BY <1>1, <3>1 DEF OperandsFormed, NoTarget
    <2>3. Found(v, regmap[at], inreg, inmem)
      BY <1>1, <2>1, <2>2, NothingWritten
    <2>4. InPlace(v, regmap[at])
      BY <2>3 DEF InPlace, Found
    <2>5. regmap[at][v] # NoReg => regmap[at][v] = regmap[q][v] /\ regmap[at][v] # RetReg
      BY <1>5, <2>1 DEF Without, Returning
    <2>6. Overwritten(A, 0) \subseteq Passing(q) \cup {NoReg, RetReg}
      BY <1>10
    <2>7. regmap[q][v] \notin Passing(q)
      BY <1>7, <2>1
    <2>8. RetReg # NoReg
      BY RegisterAssumption
    <2> HIDE DEF A
    <2> QED
      BY <2>4, <2>5, <2>6, <2>7, <2>8
  <1> QED
    BY <1>5, <1>11, <1>12

-----------------------------------------------------------------------------
(***************************************************************************)
(* In every function without the branches on bit masks, which              *)
(* branch_adjustment passes over (is_cond_branch_op does not know them),   *)
(* every live value is where the map an operation inherits has it,         *)
(* whichever way control comes: what branch_adjustment, jump_adjustment,   *)
(* assign_jmp and the spills before labels together are for.               *)
(***************************************************************************)
THEOREM ValuesKept ==
    ASSUME NoMasks(Programs)
    PROVE  SystemSpec => []NoValueLost
  <1>1. SystemSpec => [](IInv /\ MInv /\ RunInv /\ DInv)
    BY ValuesInvariance
  <1> QED
    BY <1>1, NothingLost, PTL

(***************************************************************************)
(* In every such function, no UREG or SYNCREG writes an outdated value of  *)
(* a live register to its slot, and no LREG reads one from there.          *)
(***************************************************************************)
THEOREM MovesCarryValues ==
    ASSUME NoMasks(Programs)
    PROVE  SystemSpec => []MovesCurrent
  <1>1. SystemSpec => [](IInv /\ MInv /\ RunInv /\ DInv)
    BY ValuesInvariance
  <1> QED
    BY <1>1, MovesAreCurrent, PTL

(***************************************************************************)
(* In every such function, on every path, every operation but those of a   *)
(* call finds the current value of each operand in the register that was   *)
(* put into its r_arg, or where emit_get_arg looks for an argument.        *)
(***************************************************************************)
THEOREM OperandsCurrent ==
    ASSUME NoMasks(Programs)
    PROVE  SystemSpec => []ReadsCurrent
  <1>1. SystemSpec => [](IInv /\ MInv /\ RunInv /\ DInv)
    BY ValuesInvariance
  <1> QED
    BY <1>1, ReadsAreCurrent, PTL

(***************************************************************************)
(* In every such function whose calls pass no immediate through the return *)
(* register before an argument that may be in it (emit_arguments goes from *)
(* the last to the first), every call passes the current values and calls  *)
(* the address its operand holds.                                          *)
(***************************************************************************)
THEOREM CallsPassValues ==
    ASSUME NoMasks(Programs), NoLateImmediates(Programs)
    PROVE  SystemSpec => []CallsReadCurrent
  <1>1. SystemSpec => [](IInv /\ MInv /\ RunInv /\ DInv)
    BY ValuesInvariance
  <1>2. Spec => []ReturnUnused(prog)
    BY ReturnUnusedInvariance
  <1>3. SystemSpec => Spec
    BY SystemImplementsAllocator
  <1> QED
    BY <1>1, <1>2, <1>3, CallsAreCurrent, PTL

=============================================================================
