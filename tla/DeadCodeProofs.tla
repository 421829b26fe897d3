--------------------------- MODULE DeadCodeProofs ---------------------------
(***************************************************************************)
(* What the dead-code analysis guarantees for every list of operations:    *)
(* the depth of its recursion, and that its result is exactly what control *)
(* flow can reach.  Besides the properties themselves, the inductive       *)
(* invariant says that the entries passed so far are not forgotten         *)
(* (EntriesSeen), that nothing unreachable is ever about to be marked      *)
(* (OnlyReachable), what holds once the marks are complete (Marked), and    *)
(* what is left of the list up to where deletion has come (Deleted).        *)
(***************************************************************************)
EXTENDS DeadCode, FiniteSetTheorems, SequenceTheorems, TLAPS

EntriesOf(o) == {Roots(o)[i] : i \in DOMAIN Roots(o)}

EntriesSeen ==
    pc = "mark" => \A o \in 1 .. (cur - 1) : EntriesOf(o) \subseteq in_use \cup Open

OnlyReachable ==
    pc = "mark" => in_use \cup (Open \ {0}) \subseteq Reachable

Marked ==
    /\ pc = "mark" => list = Ops
    /\ pc # "mark" => in_use = Reachable \cup DirectiveOps

(* The operations that deletion leaves in the list.                        *)
Kept(o) == o \in in_use \/ prog[o].kind = "FULL_SPILL"

Deleted ==
    /\ pc = "delete" => remove
    /\ pc # "mark" =>
         list = {o \in Ops : Kept(o) \/ ~remove \/ (pc = "delete" /\ o >= cur)}

IInv == TypeOK /\ NothingSkipped /\ DepthBounded
        /\ EntriesSeen /\ OnlyReachable /\ Marked /\ Deleted

-----------------------------------------------------------------------------
(* Facts about the list of operations. *)

LEMMA ProgFacts ==
    ASSUME WellFormed(prog)
    PROVE  /\ Len(prog) \in Nat
           /\ Ops = 1 .. Len(prog)
           /\ \A o \in Ops : /\ prog[o].kind \in Kinds
                             /\ prog[o].jmp \in {0} \cup Ops
                             /\ prog[o].kind = "DATA_REF_CODE" => prog[o].jmp # 0
  <1>1. prog \in Seq(Op)
    BY DEF WellFormed
  <1>2. Len(prog) \in Nat /\ Ops = 1 .. Len(prog)
    BY <1>1 DEF Ops
  <1>3. ASSUME NEW o \in Ops
        PROVE  /\ prog[o].kind \in Kinds
               /\ prog[o].jmp \in {0} \cup Ops
               /\ prog[o].kind = "DATA_REF_CODE" => prog[o].jmp # 0
    <2>1. prog[o] \in Op
      BY <1>1, <1>2, <1>3, ElementOfSeq
    <2> QED
      BY <2>1, <1>3 DEF WellFormed, Op, Ops
  <1> QED
    BY <1>2, <1>3

LEMMA FollowsType ==
    ASSUME WellFormed(prog), NEW o \in Ops
    PROVE  /\ Follows(o) \subseteq Ops
           /\ Follows(o) \subseteq Int \ {0}
  BY ProgFacts DEF Follows

(* Reachable is the least set closed under control flow. *)
LEMMA ReachableLeast ==
    ASSUME WellFormed(prog)
    PROVE  /\ Reachable \subseteq Ops
           /\ Entries \subseteq Reachable
           /\ \A o \in Reachable : Follows(o) \subseteq Reachable
           /\ \A S \in SUBSET Ops : Closed(S) => Reachable \subseteq S
  <1>1. Entries \subseteq Ops
    BY ProgFacts DEF Entries
  <1>2. Entries \subseteq Reachable
    BY <1>1 DEF Reachable, Closed
  <1>3. ASSUME NEW o \in Reachable PROVE Follows(o) \subseteq Reachable
    <2>1. o \in Ops /\ Follows(o) \subseteq Ops
      BY FollowsType DEF Reachable
    <2> QED
      BY <2>1 DEF Reachable, Closed
  <1> QED
    BY <1>2, <1>3 DEF Reachable

LEMMA EntriesReached ==
    ASSUME WellFormed(prog), NEW o \in Ops
    PROVE  /\ Roots(o) \in Seq({0} \cup Ops)
           /\ (Len(Roots(o)) = 0 \/ Len(Roots(o)) = 1)
           /\ EntriesOf(o) \subseteq Entries
           /\ prog[o].kind = "PROLOG" => o \in EntriesOf(o)
           /\ prog[o].kind = "DATA_REF_CODE" => prog[o].jmp \in EntriesOf(o)
  <1>1. CASE prog[o].kind = "PROLOG"
    BY <1>1, ProgFacts DEF Roots, EntriesOf, Entries
  <1>2. CASE prog[o].kind = "DATA_REF_CODE"
    BY <1>2, ProgFacts DEF Roots, EntriesOf, Entries
  <1>3. CASE prog[o].kind \notin {"PROLOG", "DATA_REF_CODE"}
    BY <1>3, ProgFacts DEF Roots, EntriesOf, Entries
  <1> QED
    BY <1>1, <1>2, <1>3

-----------------------------------------------------------------------------
(* What the two steps of a walk do to the open activations. *)

Elems(s) == {s[i] : i \in DOMAIN s}

(* The head of s is replaced by m. *)
LEMMA Spliced ==
    ASSUME NEW S, NEW s \in Seq(S), s # <<>>, NEW m \in Seq(S),
           NEW r, r = m \o Tail(s)
    PROVE  /\ r \in Seq(S)
           /\ Len(s) \in Nat /\ Len(m) \in Nat
           /\ Len(r) = Len(m) + Len(s) - 1
           /\ Elems(s) \subseteq Elems(r) \cup {Head(s)}
           /\ Elems(m) \subseteq Elems(r)
           /\ Elems(r) \subseteq Elems(m) \cup Elems(s)
  <1> DEFINE t == Tail(s)
  <1>1. /\ t \in Seq(S)
        /\ Len(t) = Len(s) - 1
        /\ \A i \in 1 .. Len(t) : t[i] = s[i + 1]
    BY HeadTailProperties
  <1>2. /\ r = m \o t /\ Head(s) = s[1]
        /\ Len(s) \in Nat /\ DOMAIN s = 1 .. Len(s)
        /\ Len(m) \in Nat /\ DOMAIN m = 1 .. Len(m)
    BY LenProperties
  <1> HIDE DEF t
  <1>3. /\ r \in Seq(S) /\ Len(r) = Len(m) + Len(t)
        /\ \A i \in 1 .. Len(m) + Len(t) :
             r[i] = IF i <= Len(m) THEN m[i] ELSE t[i - Len(m)]
    <2>1. /\ m \o t \in Seq(S) /\ Len(m \o t) = Len(m) + Len(t)
          /\ \A i \in 1 .. Len(m) + Len(t) :
               (m \o t)[i] = IF i <= Len(m) THEN m[i] ELSE t[i - Len(m)]
      BY <1>1, ConcatProperties
    <2> QED
      BY <1>2, <2>1
  <1>4. DOMAIN r = 1 .. Len(r) /\ Len(t) \in Nat
    BY <1>1, <1>3, LenProperties
  <1>5. ASSUME NEW i \in DOMAIN s PROVE s[i] \in Elems(r) \cup {Head(s)}
    <2>1. CASE i = 1
      BY <2>1, <1>2
    <2>2. CASE i # 1
      <3>1. i - 1 \in 1 .. Len(t)
        BY <2>2, <1>1, <1>2
      <3>2. Len(m) + (i - 1) \in DOMAIN r
        BY <3>1, <1>2, <1>3, <1>4
      <3>3. t[i - 1] = s[i]
        BY <3>1, <1>1, <1>2
      <3>4. r[Len(m) + (i - 1)] = t[i - 1]
        BY <3>1, <3>2, <1>2, <1>3, <1>4
      <3> QED
        BY <3>2, <3>3, <3>4 DEF Elems
    <2> QED
      BY <2>1, <2>2
  <1>6. ASSUME NEW i \in DOMAIN m PROVE m[i] \in Elems(r)
    <2>1. i \in DOMAIN r /\ r[i] = m[i]
      BY <1>2, <1>3, <1>4
    <2> QED
      BY <2>1 DEF Elems
  <1>7. ASSUME NEW i \in DOMAIN r PROVE r[i] \in Elems(m) \cup Elems(s)
    <2>1. CASE i <= Len(m)
      <3>1. i \in DOMAIN m /\ r[i] = m[i]
        BY <2>1, <1>2, <1>3, <1>4
      <3> QED
        BY <3>1 DEF Elems
    <2>2. CASE ~(i <= Len(m))
      <3>1. i - Len(m) \in 1 .. Len(t)
        BY <2>2, <1>2, <1>3, <1>4
      <3>2. i - Len(m) + 1 \in DOMAIN s
        BY <3>1, <1>1, <1>2
      <3>3. r[i] = s[i - Len(m) + 1]
        BY <2>2, <3>1, <1>1, <1>3, <1>4
      <3> QED
        BY <3>2, <3>3 DEF Elems
    <2> QED
      BY <2>1, <2>2
  <1>8. Len(r) = Len(m) + Len(s) - 1
    BY <1>1, <1>2, <1>3
  <1>9. Elems(s) \subseteq Elems(r) \cup {Head(s)}
    BY <1>5 DEF Elems
  <1>10. Elems(m) \subseteq Elems(r)
    BY <1>6 DEF Elems
  <1>11. Elems(r) \subseteq Elems(m) \cup Elems(s)
    BY <1>7 DEF Elems
  <1> QED
    BY <1>2, <1>3, <1>8, <1>9, <1>10, <1>11

LEMMA Returning ==
    ASSUME TypeOK, MarkReturns
    PROVE  /\ stack' \in Seq({0} \cup Ops)
           /\ Len(stack) \in Nat /\ Len(stack') = Len(stack) - 1
           /\ Open \subseteq Open' \cup {Head(stack)}
           /\ Open' \subseteq Open
  <1> DEFINE S == {0} \cup Ops
  <1>1. stack \in Seq(S) /\ stack # <<>> /\ stack' = Tail(stack)
    BY DEF TypeOK, MarkReturns
  <1>2. <<>> \in Seq(S) /\ Len(<<>>) = 0 /\ stack' = <<>> \o Tail(stack)
    BY <1>1, HeadTailProperties, ConcatEmptySeq
  <1>3. Elems(<<>>) = {}
    BY DEF Elems
  <1> HIDE DEF S
  <1>4. /\ stack' \in Seq(S) /\ Len(stack) \in Nat
        /\ Len(stack') = Len(<<>>) + Len(stack) - 1
        /\ Elems(stack) \subseteq Elems(stack') \cup {Head(stack)}
        /\ Elems(stack') \subseteq Elems(<<>>) \cup Elems(stack)
    BY <1>1, <1>2, Spliced
  <1>5. Len(stack') = Len(stack) - 1
    BY <1>2, <1>4
  <1> QED
    BY <1>3, <1>4, <1>5 DEF Open, Elems, S

LEMMA Walking ==
    ASSUME TypeOK, MarkOp
    PROVE  /\ Head(stack) \in Ops
           /\ stack' \in Seq({0} \cup Ops)
           /\ Len(stack) \in Nat /\ Len(stack') \in Nat
           /\ Len(stack') <= Len(stack) + 1
           /\ Open \subseteq Open' \cup {Head(stack)}
           /\ Follows(Head(stack)) \subseteq Open'
           /\ Open' \subseteq Open \cup {0} \cup Follows(Head(stack))
  <1> DEFINE S    == {0} \cup Ops
             o    == Head(stack)
             rest == IF prog[o].kind \in Stops THEN 0 ELSE NextOf(o)
             call == IF prog[o].jmp # 0 THEN <<prog[o].jmp>> ELSE <<>>
             m    == call \o <<rest>>
  <1>1. /\ stack \in Seq(S) /\ stack # <<>> /\ o \notin in_use \cup {0}
        /\ stack' = m \o Tail(stack) /\ WellFormed(prog)
    BY DEF TypeOK, MarkOp
  <1>2. o \in Ops
    BY <1>1, HeadTailProperties
  <1>3. rest \in S /\ prog[o].jmp \in S
    BY <1>1, <1>2, ProgFacts DEF NextOf
  <1>4. Follows(o) = {x \in {rest, prog[o].jmp} : x # 0}
    BY <1>1, <1>2, ProgFacts DEF Follows, NextOf
  <1>5. /\ m \in Seq(S) /\ Len(m) \in {1, 2}
        /\ Elems(m) \cup {0} = {rest, prog[o].jmp, 0}
    <2> DEFINE r == <<rest>>
    <2>1. r \in Seq(S) /\ Len(r) = 1 /\ r[1] = rest
      BY <1>3
    <2>2. CASE prog[o].jmp = 0
      <3>1. m = r
        BY <2>1, <2>2, ConcatEmptySeq
      <3>2. DOMAIN r = {1}
        BY <2>1
      <3> HIDE DEF m, r
      <3> QED
        BY <2>1, <2>2, <3>1, <3>2 DEF Elems
    <2>3. CASE prog[o].jmp # 0
      <3> DEFINE c == <<prog[o].jmp>>
      <3>1. m = c \o r
        BY <2>3
      <3>2. c \in Seq(S) /\ Len(c) = 1 /\ c[1] = prog[o].jmp
        BY <1>3
      <3> HIDE DEF m, c, r
      <3>3. /\ m \in Seq(S) /\ Len(m) = Len(c) + Len(r)
            /\ \A i \in 1 .. Len(c) + Len(r) :
                 m[i] = IF i <= Len(c) THEN c[i] ELSE r[i - Len(c)]
        BY <3>1, <3>2, <2>1, ConcatProperties
      <3>4. Len(m) = 2 /\ DOMAIN m = {1, 2}
        BY <3>2, <3>3, <2>1, LenProperties
      <3>5. m[1] = prog[o].jmp /\ m[2] = rest
        BY <3>2, <3>3, <2>1
      <3>6. Elems(m) = {prog[o].jmp, rest}
        BY <3>4, <3>5 DEF Elems
      <3> QED
        BY <3>3, <3>4, <3>6
    <2> QED
      BY <2>2, <2>3
  <1> HIDE DEF m, rest, S
  <1>6. /\ stack' \in Seq(S)
        /\ Len(stack) \in Nat /\ Len(m) \in Nat
        /\ Len(stack') = Len(m) + Len(stack) - 1
        /\ Elems(stack) \subseteq Elems(stack') \cup {o}
        /\ Elems(m) \subseteq Elems(stack')
        /\ Elems(stack') \subseteq Elems(m) \cup Elems(stack)
    BY <1>1, <1>5, Spliced
  <1>7. /\ Open \subseteq Open' \cup {o}
        /\ Elems(m) \subseteq Open'
        /\ Open' \subseteq Elems(m) \cup Open
    BY <1>6 DEF Open, Elems
  <1>8. Len(stack') \in Nat /\ Len(stack') <= Len(stack) + 1
    <2>1. Len(m) = 1 \/ Len(m) = 2
      BY <1>5
    <2>2. Len(stack) \in Nat /\ Len(stack') = Len(m) + Len(stack) - 1
      BY <1>6
    <2>3. CASE Len(m) = 1
      BY <2>2, <2>3
    <2>4. CASE Len(m) = 2
      BY <2>2, <2>4
    <2> QED
      BY <2>1, <2>3, <2>4
  <1>9. Follows(o) \subseteq Open' /\ Open' \subseteq Open \cup {0} \cup Follows(o)
    BY <1>4, <1>5, <1>7
  <1> QED
    BY <1>2, <1>6, <1>7, <1>8, <1>9 DEF S

-----------------------------------------------------------------------------
(* The invariant. *)

LEMMA Initially == Init => IInv
  <1> SUFFICES ASSUME Init PROVE IInv
    OBVIOUS
  <1>1. WellFormed(prog)
    BY ProgramsAssumption DEF Init
  <1>2. Len(prog) \in Nat /\ Ops = 1 .. Len(prog)
    BY <1>1, ProgFacts
  <1>3. TypeOK
    BY <1>1, <1>2 DEF Init, TypeOK, Ops
  <1>4. Len(stack) = 0 /\ Cardinality(in_use) = 0 /\ Open = {}
    BY FS_EmptySet DEF Init, Open
  <1> QED
    BY <1>3, <1>4 DEF Init, IInv, NothingSkipped, DepthBounded, EntriesSeen,
                      OnlyReachable, Marked, Deleted, Ops

(* Definitions that depend on the list alone do not change. *)
LEMMA SameProg ==
    ASSUME prog' = prog
    PROVE  /\ WellFormed(prog)' = WellFormed(prog)
           /\ Ops' = Ops /\ Reachable' = Reachable
           /\ DirectiveOps' = DirectiveOps
           /\ \A o : Follows(o)' = Follows(o) /\ EntriesOf(o)' = EntriesOf(o)
  BY DEF WellFormed, Ops, Reachable, Closed, Entries, DirectiveOps, Follows,
         EntriesOf, Roots

LEMMA FiniteMarks ==
    ASSUME TypeOK PROVE IsFiniteSet(in_use) /\ Cardinality(in_use) \in Nat
  <1>1. WellFormed(prog) /\ in_use \subseteq Ops
    BY DEF TypeOK
  <1>2. IsFiniteSet(Ops)
    BY <1>1, ProgFacts, FS_Interval
  <1> QED
    BY <1>1, <1>2, FS_Subset, FS_CardinalityType

LEMMA FiniteMarksNext ==
    ASSUME TypeOK' PROVE Cardinality(in_use') \in Nat
  <1>1. (Len(prog) \in Nat /\ Ops = 1 .. Len(prog))'
    BY DEF TypeOK, WellFormed, Ops
  <1>2. IsFiniteSet(Ops')
    BY <1>1, FS_Interval
  <1> QED
    BY <1>2, FS_Subset, FS_CardinalityType DEF TypeOK

LEMMA SeekRootStep == ASSUME IInv, SeekRoot PROVE IInv'
  <1>1. /\ TypeOK /\ WellFormed(prog) /\ prog' = prog /\ cur \in Ops
        /\ stack = <<>> /\ Open = {}
    BY ProgFacts DEF IInv, TypeOK, SeekRoot, Open
  <1>2. /\ stack' = Roots(cur) /\ Open' = EntriesOf(cur)
        /\ stack' \in Seq({0} \cup Ops)
        /\ Len(stack') = 0 \/ Len(stack') = 1
        /\ EntriesOf(cur) \subseteq Entries
    BY <1>1, EntriesReached DEF SeekRoot, Open, EntriesOf
  <1>3. TypeOK'
    BY <1>1, <1>2, ProgFacts, SameProg DEF SeekRoot, TypeOK
  <1>4. NothingSkipped'
    BY <1>1, SameProg DEF IInv, NothingSkipped, SeekRoot
  <1>5. DepthBounded'
    <2>1. Cardinality(in_use) \in Nat /\ in_use' = in_use
      BY <1>1, FiniteMarks DEF SeekRoot
    <2>2. Len(stack') = 0 \/ Len(stack') = 1
      BY <1>2
    <2>3. Len(stack') <= Cardinality(in_use) + 1
      <3>1. CASE Len(stack') = 0
        BY <2>1, <3>1
      <3>2. CASE Len(stack') = 1
        BY <2>1, <3>2
      <3> QED
        BY <2>2, <3>1, <3>2
    <2> QED
      BY <2>1, <2>3 DEF DepthBounded
  <1>6. EntriesSeen'
    <2>1. \A o \in 1 .. cur : EntriesOf(o) \subseteq in_use \cup Open'
      BY <1>1, <1>2, ProgFacts DEF IInv, EntriesSeen, SeekRoot
    <2> QED
      BY <2>1, <1>1, ProgFacts, SameProg DEF EntriesSeen, SeekRoot
  <1>7. OnlyReachable'
    BY <1>1, <1>2, ReachableLeast, SameProg DEF IInv, OnlyReachable, SeekRoot
  <1>8. Marked'
    BY <1>1, SameProg DEF IInv, Marked, SeekRoot
  <1>9. Deleted'
    BY <1>1 DEF Deleted, SeekRoot
  <1> QED
    BY <1>3, <1>4, <1>5, <1>6, <1>7, <1>8, <1>9 DEF IInv

LEMMA MarkReturnsStep == ASSUME IInv, MarkReturns PROVE IInv'
  <1>1. /\ TypeOK /\ WellFormed(prog) /\ prog' = prog
        /\ pc = "mark" /\ pc' = pc /\ in_use' = in_use
        /\ Head(stack) \in in_use \cup {0}
    BY DEF IInv, TypeOK, MarkReturns
  <1>2. /\ stack' \in Seq({0} \cup Ops)
        /\ Len(stack) \in Nat /\ Len(stack') = Len(stack) - 1
        /\ Open \subseteq Open' \cup {Head(stack)}
        /\ Open' \subseteq Open
    BY <1>1, Returning
  <1>3. TypeOK'
    BY <1>1, <1>2, SameProg DEF MarkReturns, TypeOK
  <1>4. NothingSkipped'
    <2>1. ASSUME NEW o \in in_use
          PROVE  Follows(o) \subseteq in_use \cup Open'
      <3>1. o \in Ops /\ 0 \notin Follows(o)
        BY <1>1, FollowsType DEF TypeOK
      <3>2. Follows(o) \subseteq in_use \cup Open
        BY <1>1 DEF IInv, NothingSkipped
      <3> QED
        BY <3>1, <3>2, <1>1, <1>2
    <2> QED
      BY <2>1, <1>1, SameProg DEF NothingSkipped
  <1>5. DepthBounded'
    BY <1>1, <1>2, FiniteMarks DEF IInv, DepthBounded
  <1>6. EntriesSeen'
    <2>1. ASSUME NEW o \in 1 .. (cur - 1)
          PROVE  EntriesOf(o) \subseteq in_use \cup Open'
      <3>1. o \in Ops
        BY <1>1, ProgFacts DEF TypeOK
      <3>2. 0 \notin EntriesOf(o)
        BY <3>1, <1>1, EntriesReached, ReachableLeast, ProgFacts
      <3>3. EntriesOf(o) \subseteq in_use \cup Open
        BY <1>1 DEF IInv, EntriesSeen
      <3> QED
        BY <3>2, <3>3, <1>1, <1>2
    <2> QED
      BY <2>1, <1>1, SameProg DEF EntriesSeen, MarkReturns
  <1>7. OnlyReachable'
    BY <1>1, <1>2, SameProg DEF IInv, OnlyReachable
  <1>8. Marked'
    BY <1>1, SameProg DEF IInv, Marked, MarkReturns
  <1>9. Deleted'
    BY <1>1 DEF Deleted, MarkReturns
  <1> QED
    BY <1>3, <1>4, <1>5, <1>6, <1>7, <1>8, <1>9 DEF IInv

LEMMA MarkOpStep == ASSUME IInv, MarkOp PROVE IInv'
  <1> DEFINE h == Head(stack)
  <1>1. /\ TypeOK /\ WellFormed(prog) /\ prog' = prog
        /\ pc = "mark" /\ pc' = pc /\ in_use' = in_use \cup {h}
        /\ stack # <<>> /\ h \notin in_use \cup {0}
    BY DEF IInv, TypeOK, MarkOp
  <1>2. /\ h \in Ops
        /\ stack' \in Seq({0} \cup Ops)
        /\ Len(stack) \in Nat /\ Len(stack') \in Nat
        /\ Len(stack') <= Len(stack) + 1
        /\ Open \subseteq Open' \cup {h}
        /\ Follows(h) \subseteq Open'
        /\ Open' \subseteq Open \cup {0} \cup Follows(h)
    BY <1>1, Walking
  <1>3. h \in Open
    <2>1. stack \in Seq({0} \cup Ops) /\ Len(stack) \in Nat \ {0}
      BY <1>1, EmptySeq DEF TypeOK
    <2>2. 1 \in DOMAIN stack /\ h = stack[1]
      BY <2>1, LenProperties
    <2> QED
      BY <2>2 DEF Open
  <1> HIDE DEF h
  <1>4. TypeOK'
    BY <1>1, <1>2, SameProg DEF MarkOp, TypeOK
  <1>5. NothingSkipped'
    <2>1. ASSUME NEW o \in in_use'
          PROVE  Follows(o) \subseteq in_use' \cup Open'
      <3>1. CASE o = h
        BY <3>1, <1>2
      <3>2. CASE o \in in_use
        <4>1. Follows(o) \subseteq in_use \cup Open
          BY <3>2, <1>1 DEF IInv, NothingSkipped
        <4> QED
          BY <4>1, <1>1, <1>2
      <3> QED
        BY <3>1, <3>2, <1>1
    <2> QED
      BY <2>1, <1>1, SameProg DEF NothingSkipped
  <1>6. DepthBounded'
    <2>1. Cardinality(in_use') = Cardinality(in_use) + 1
      BY <1>1, FiniteMarks, FS_AddElement
    <2>2. Len(stack) <= Cardinality(in_use) + 1 /\ Cardinality(in_use) \in Nat
      BY <1>1, FiniteMarks DEF IInv, DepthBounded
    <2>3. Len(stack') <= Cardinality(in_use') + 1
      BY <2>1, <2>2, <1>2
    <2> QED
      BY <2>3 DEF DepthBounded
  <1>7. EntriesSeen'
    <2>1. ASSUME NEW o \in 1 .. (cur - 1)
          PROVE  EntriesOf(o) \subseteq in_use' \cup Open'
      <3>1. EntriesOf(o) \subseteq in_use \cup Open
        BY <1>1 DEF IInv, EntriesSeen
      <3> QED
        BY <3>1, <1>1, <1>2
    <2> QED
      BY <2>1, <1>1, SameProg DEF EntriesSeen, MarkOp
  <1>8. OnlyReachable'
    <2>1. in_use \cup (Open \ {0}) \subseteq Reachable
      BY <1>1 DEF IInv, OnlyReachable
    <2>2. h \in Reachable /\ Follows(h) \subseteq Reachable
      BY <2>1, <1>1, <1>3, ReachableLeast
    <2> QED
      BY <2>1, <2>2, <1>1, <1>2, SameProg DEF OnlyReachable
  <1>9. Marked'
    BY <1>1, SameProg DEF IInv, Marked, MarkOp
  <1>10. Deleted'
    BY <1>1 DEF Deleted, MarkOp
  <1> QED
    BY <1>4, <1>5, <1>6, <1>7, <1>8, <1>9, <1>10 DEF IInv

(* When the walks are over, the marks are closed under control flow. *)
LEMMA MarkDirectivesStep == ASSUME IInv, MarkDirectives PROVE IInv'
  <1>1. /\ TypeOK /\ WellFormed(prog) /\ prog' = prog
        /\ pc = "mark" /\ pc' \in {"delete", "done"}
        /\ in_use' = in_use \cup DirectiveOps /\ list' = list
        /\ stack = <<>> /\ stack' = <<>> /\ Open = {} /\ Open' = {}
        /\ cur > Len(prog) /\ in_use \subseteq Ops
    BY DEF IInv, TypeOK, MarkDirectives, Open
  <1>2. in_use \subseteq Reachable
    BY <1>1 DEF IInv, OnlyReachable
  <1>3. Closed(in_use)
    <2>1. \A o \in in_use : Follows(o) \subseteq in_use
      BY <1>1 DEF IInv, NothingSkipped
    <2>2. \A o \in Ops : EntriesOf(o) \subseteq in_use
      BY <1>1, ProgFacts DEF IInv, EntriesSeen, TypeOK
    <2>3. Entries \subseteq in_use
      BY <2>2, <1>1, EntriesReached DEF Entries
    <2> QED
      BY <2>1, <2>3 DEF Closed
  <1>4. in_use = Reachable
    BY <1>1, <1>2, <1>3, ReachableLeast
  <1>5. TypeOK'
    <2>1. 1 \in 1 .. (Len(prog) + 1)
      BY <1>1, ProgFacts
    <2>2. DirectiveOps \subseteq Ops
      BY DEF DirectiveOps
    <2> QED
      BY <1>1, <2>1, <2>2, SameProg DEF TypeOK, MarkDirectives
  <1>6. DepthBounded'
    <2>1. Len(stack') = 0 /\ Cardinality(in_use') \in Nat
      BY <1>1, <1>5, FiniteMarksNext, EmptySeq
    <2> QED
      BY <2>1 DEF DepthBounded
  <1>7. Marked'
    BY <1>1, <1>4, ReachableLeast, SameProg DEF IInv, Marked
  <1>8. Deleted'
    <2>1. /\ list' = Ops /\ remove' = remove /\ cur' = 1 /\ Ops = 1 .. Len(prog)
          /\ pc' = IF remove THEN "delete" ELSE "done"
      BY <1>1, ProgFacts DEF IInv, Marked, MarkDirectives
    <2>2. \A o \in Ops : o >= 1
      BY <2>1, <1>1, ProgFacts
    <2>3. CASE remove
      BY <2>1, <2>2, <2>3, <1>1, SameProg DEF Deleted
    <2>4. CASE ~remove
      BY <2>1, <2>4, <1>1, SameProg DEF Deleted
    <2> QED
      BY <2>3, <2>4
  <1> QED
    BY <1>1, <1>5, <1>6, <1>7, <1>8
       DEF IInv, NothingSkipped, EntriesSeen, OnlyReachable

(* After the marks are complete, only the list gets shorter. *)
LEMMA LaterStep ==
    ASSUME IInv, UNCHANGED <<prog, remove, stack, in_use>>,
           pc # "mark", pc' \in {"delete", "done"},
           cur' \in 1 .. (Len(prog) + 1), Deleted'
    PROVE  IInv'
  <1>1. TypeOK /\ WellFormed(prog) /\ prog' = prog /\ in_use' = in_use
    BY DEF IInv, TypeOK
  <1>2. list' \subseteq Ops
    BY <1>1, SameProg DEF Deleted
  <1>3. TypeOK'
    BY <1>1, <1>2, SameProg DEF TypeOK
  <1>4. DepthBounded'
    BY DEF IInv, DepthBounded
  <1>5. Marked'
    BY <1>1, SameProg DEF IInv, Marked
  <1> QED
    BY <1>3, <1>4, <1>5
       DEF IInv, NothingSkipped, EntriesSeen, OnlyReachable

(* Behind the operation deletion has come to, the list is complete.        *)
LEMMA DeleteOrKeepStep == ASSUME IInv, DeleteOrKeep PROVE IInv'
  <1>1. /\ TypeOK /\ prog' = prog /\ in_use' = in_use /\ remove' = remove
        /\ pc = "delete" /\ pc' = "delete" /\ remove
        /\ cur \in Ops /\ cur' = cur + 1
    BY ProgFacts DEF IInv, Deleted, TypeOK, DeleteOrKeep
  <1>2. Len(prog) \in Nat /\ Ops = 1 .. Len(prog)
    BY <1>1, ProgFacts DEF TypeOK
  <1>3. list = {o \in Ops : Kept(o) \/ o >= cur}
    BY <1>1 DEF IInv, Deleted
  <1>4. list' = IF Kept(cur) THEN list ELSE list \ {cur}
    BY DEF DeleteOrKeep, Kept
  <1>5. list' = {o \in Ops : Kept(o) \/ o >= cur + 1}
    BY <1>1, <1>2, <1>3, <1>4
  <1>6. Deleted'
    BY <1>1, <1>5, SameProg DEF Deleted, Kept, Ops
  <1> QED
    BY <1>1, <1>2, <1>6, LaterStep DEF DeleteOrKeep

LEMMA FinishStep == ASSUME IInv, Finish PROVE IInv'
  <1>1. /\ TypeOK /\ prog' = prog /\ in_use' = in_use /\ remove' = remove
        /\ pc = "delete" /\ pc' = "done" /\ remove /\ list' = list
        /\ cur' = cur /\ cur \in 1 .. (Len(prog) + 1) /\ cur > Len(prog)
    BY DEF IInv, Deleted, TypeOK, Finish
  <1>2. Len(prog) \in Nat /\ Ops = 1 .. Len(prog)
    BY <1>1, ProgFacts DEF TypeOK
  <1>3. list = {o \in Ops : Kept(o)}
    BY <1>1, <1>2 DEF IInv, Deleted
  <1>4. Deleted'
    BY <1>1, <1>3, SameProg DEF Deleted, Kept, Ops
  <1> QED
    BY <1>1, <1>4, LaterStep DEF Finish

LEMMA Inductive == IInv /\ [Next]_vars => IInv'
  <1> SUFFICES ASSUME IInv, [Next]_vars PROVE IInv'
    OBVIOUS
  <1>1. CASE SeekRoot
    BY <1>1, SeekRootStep
  <1>2. CASE MarkReturns
    BY <1>2, MarkReturnsStep
  <1>3. CASE MarkOp
    BY <1>3, MarkOpStep
  <1>4. CASE MarkDirectives
    BY <1>4, MarkDirectivesStep
  <1>5. CASE DeleteOrKeep
    BY <1>5, DeleteOrKeepStep
  <1>6. CASE Finish
    BY <1>6, FinishStep
  <1>7. CASE UNCHANGED vars
    <2>1. /\ prog' = prog /\ in_use' = in_use /\ stack' = stack /\ Open' = Open
          /\ pc' = pc /\ cur' = cur /\ list' = list /\ remove' = remove
      BY <1>7 DEF vars, Open
    <2>2. TypeOK' /\ DepthBounded'
      BY <2>1, SameProg DEF IInv, TypeOK, DepthBounded
    <2>3. NothingSkipped' /\ EntriesSeen' /\ OnlyReachable' /\ Marked' /\ Deleted'
      BY <2>1, SameProg DEF IInv, NothingSkipped, EntriesSeen, OnlyReachable,
                            Marked, Deleted, Kept, Ops
    <2> QED
      BY <2>2, <2>3 DEF IInv
  <1> QED
    BY <1>1, <1>2, <1>3, <1>4, <1>5, <1>6, <1>7 DEF Next

LEMMA Invariance == Spec => []IInv
  BY Initially, Inductive, PTL DEF Spec

-----------------------------------------------------------------------------
(* The theorems. *)

(***************************************************************************)
(* The state of the three loops and of the recursion is well formed.       *)
(***************************************************************************)
THEOREM TypeCorrect == Spec => []TypeOK
  <1>1. IInv => TypeOK
    BY DEF IInv
  <1> QED
    BY <1>1, Invariance, PTL

(***************************************************************************)
(* Whatever follows a marked operation is marked or about to be visited by *)
(* an open activation of mark_livecode.                                    *)
(***************************************************************************)
THEOREM Unskipped == Spec => []NothingSkipped
  <1>1. IInv => NothingSkipped
    BY DEF IInv
  <1> QED
    BY <1>1, Invariance, PTL

(***************************************************************************)
(* The recursion of mark_livecode is bounded by the operations marked.     *)
(***************************************************************************)
THEOREM BoundedDepth == Spec => []DepthBounded
  <1>1. IInv => DepthBounded
    BY DEF IInv
  <1> QED
    BY <1>1, Invariance, PTL

(***************************************************************************)
(* When the analysis is over, the marks are the operations control can     *)
(* reach and the directives, and what was deleted is the rest but for      *)
(* FULL_SPILL.                                                             *)
(***************************************************************************)
THEOREM Exactness == Spec => []ExactlyReachable
  <1>1. IInv => ExactlyReachable
    <2> SUFFICES ASSUME IInv, pc = "done" PROVE ExactlyReachable
      BY DEF ExactlyReachable
    <2>1. in_use \subseteq Ops /\ in_use = Reachable \cup DirectiveOps
      BY DEF IInv, TypeOK, Marked
    <2>2. list = {o \in Ops : Kept(o) \/ ~remove}
      BY DEF IInv, Deleted
    <2> QED
      BY <2>1, <2>2 DEF ExactlyReachable, Kept
  <1> QED
    BY <1>1, Invariance, PTL

=============================================================================
