------------------------------ MODULE Assembly ------------------------------
(***************************************************************************)
(* What the library promises a program that builds a list of operations:   *)
(* jit_generate_code makes code in which every function starts where its   *)
(* pointer says, runs operation after operation, jumps where the program   *)
(* said, and in which references to data lead to the data as it was given. *)
(*                                                                         *)
(* Nothing is said about layout: dead operations may be missing, and       *)
(* instructions that do nothing to the program (fillers, moves of          *)
(* registers, jumps) may stand between two operations.                     *)
(***************************************************************************)
EXTENDS Items

VARIABLES
    program,   \* the items added so far
    code,      \* the generated code, address by address
    place      \* where the items that are used begin

vars == <<program, code, place>>

(***************************************************************************)
(* A cell belongs to an item, of = i, or to none, of = 0; then it is       *)
(* passed over, or it is a jump the compiler added.  dest is an address or *)
(* 0; turned says that a branch jumps where it should go on, and goes on   *)
(* where it should jump.                                                   *)
(***************************************************************************)
Lands(c, a) ==
    LET walk[n \in 0..Cardinality(DOMAIN c)] ==
            IF n = 0 THEN a
            ELSE LET b == walk[n - 1]
                 IN IF b \notin DOMAIN c \/ c[b].of # 0 THEN b
                    ELSE IF c[b].dest # 0 THEN c[b].dest
                    ELSE b + 1
    IN walk[Cardinality(DOMAIN c)]

Faithful(p, pl, c) ==
    /\ DOMAIN pl = Reached(p)
    /\ \A i \in DOMAIN pl :
        LET end  == pl[i] + p[i].n
            next == FirstFrom(p, i + 1)
            goal == FirstFrom(p, p[i].to)
            dest == c[end - 1].dest
            turned == c[end - 1].turned
        IN /\ \A a \in pl[i]..end - 1 : a \in DOMAIN c /\ c[a].of = i
           /\ FallsThrough(p, i) => Lands(c, IF turned THEN dest ELSE end) = pl[next]
           /\ p[i].kind \in Refers /\ goal \in Sized(p) =>
                /\ Lands(c, IF turned THEN end ELSE dest) = pl[goal]
                /\ p[i].kind \in {"REF_DATA", "DATA_REF_DATA"} => dest = pl[goal]
           /\ p[i].kind = "TRANSFER_CPY" =>
                LET t == p[i].to IN dest = pl[t] + p[t].n - 1
    /\ \A i \in DOMAIN p :
        LET next == FirstFrom(p, i)
        IN p[i].kind = "CODE_ALIGN" /\ next \in DOMAIN pl /\ p[next].kind \in DataKinds
             => pl[next] % p[i].n = 0

-----------------------------------------------------------------------------
Init ==
    /\ program = <<>>
    /\ code = <<>>
    /\ place = <<>>

(* The program adds an operation. *)
Add ==
    /\ code = <<>>
    /\ \E p \in Programs :
        /\ Len(program) < Len(p)
        /\ program' = SubSeq(p, 1, Len(program) + 1)
    /\ UNCHANGED <<code, place>>

(* The program calls jit_generate_code once the list is complete. *)
Generate ==
    /\ program \in Programs
    /\ code = <<>>
    /\ \E pl \in {place'}, c \in {code'} : Faithful(program, pl, c)
    /\ UNCHANGED program

(* The program calls jit_free. *)
Free ==
    /\ program' = <<>>
    /\ code' = <<>>
    /\ place' = <<>>

Next == Add \/ Generate \/ Free

Spec == Init /\ [][Next]_vars
=============================================================================
