-------------------------------- MODULE Items -------------------------------
(***************************************************************************)
(* What a program adds to the list of operations with the macros of        *)
(* jitlib.h, as far as the layout of the generated code depends on it.     *)
(***************************************************************************)
EXTENDS Integers, Sequences, FiniteSets

CONSTANT Programs   \* sequences of items

Kinds == {"PROLOG", "OTHER", "RET", "JMP", "BRANCH", "CALL", "LABEL", "PATCH",
          "REF_CODE", "REF_DATA", "DATA_REF_CODE", "DATA_REF_DATA",
          "DATA_BYTE", "DATA_BYTES", "CODE_ALIGN", "TRANSFER", "TRANSFER_CPY"}

(***************************************************************************)
(* to: for jumps, calls and references the LABEL or PATCH they lead to,    *)
(* for TRANSFER_CPY its TRANSFER; 0 for the others.  n: how many cells     *)
(* (the unit of addresses) of code or data; the alignment of CODE_ALIGN.   *)
(***************************************************************************)
Item == [kind : Kinds, to : Nat, n : Nat]

DataKinds == {"DATA_BYTE", "DATA_BYTES", "DATA_REF_CODE", "DATA_REF_DATA"}

Refers == {"JMP", "BRANCH", "CALL", "REF_CODE", "REF_DATA", "DATA_REF_CODE", "DATA_REF_DATA"}

(* jit_get_label and jit_patch put their operation where they are called:  *)
(* a label lies behind, what is patched lies ahead.  A jump ends with its  *)
(* instruction and the displacement.                                       *)
WellFormed(p) ==
    /\ p \in Seq(Item)
    /\ p # <<>>
    /\ p[1].kind = "PROLOG"
    /\ \A i \in DOMAIN p :
        /\ p[i].kind \in Refers =>
             \/ p[i].to \in 1..i - 1 /\ p[p[i].to].kind = "LABEL"
             \/ p[i].to \in i + 1..Len(p) /\ p[p[i].to].kind = "PATCH"
        /\ p[i].kind = "PATCH" => Cardinality({k \in DOMAIN p : p[k].to = i}) = 1
        /\ p[i].kind = "CALL" => p[i].to < i
        /\ p[i].kind = "TRANSFER_CPY" =>
             /\ p[i].to \in 1..i - 1
             /\ p[p[i].to].kind = "TRANSFER"
        /\ p[i].kind \notin Refers \cup {"TRANSFER_CPY"} => p[i].to = 0
        /\ p[i].n > 0
        /\ p[i].kind \in {"JMP", "BRANCH", "CALL"} => p[i].n >= 2

ASSUME ProgramsAssumption == \A p \in Programs : WellFormed(p)

(* The items that occupy cells. *)
Sized(p) == {i \in DOMAIN p : p[i].kind \notin {"LABEL", "PATCH", "CODE_ALIGN"}}

(* The first of them at or after i; Len(p) + 1 if there is none. *)
FirstFrom(p, i) ==
    CHOOSE k \in {m \in Sized(p) : m >= i} \cup {Len(p) + 1} :
        \A m \in Sized(p) : m >= i => k <= m

FallsThrough(p, i) == p[i].kind \notin {"RET", "JMP"} /\ FirstFrom(p, i + 1) \in Sized(p)

(* What control or a reader can get to from the functions, and from the   *)
(* code that data refers to.  Everything else need not be in the code.     *)
Reached(p) ==
    LET Roots == {i \in DOMAIN p : p[i].kind = "PROLOG"}
                   \cup {FirstFrom(p, p[i].to) : i \in {k \in DOMAIN p : p[k].kind = "DATA_REF_CODE"}}
        Onward(S) == {FirstFrom(p, i + 1) : i \in {k \in S : FallsThrough(p, k)}}
                       \cup {FirstFrom(p, p[i].to) : i \in {k \in S : p[k].kind \in Refers}}
        steps[n \in 0..Len(p)] ==
            IF n = 0 THEN Roots \cap Sized(p)
            ELSE LET S == steps[n - 1] IN S \cup (Onward(S) \cap Sized(p))
    IN steps[Len(p)]

(* Every operation that is to be patched is reached. *)
PatchedIsReached(p) ==
    \A i \in DOMAIN p : p[i].to > i => i \in Reached(p)

(* What starts a transfer whose loop is reached is reached itself. *)
TransfersReached(p) ==
    \A i \in Reached(p) : p[i].kind = "TRANSFER_CPY" => p[i].to \in Reached(p)

(* What references to code name: registers are stored in front of it. *)
CodeNamed(p) ==
    {p[k].to : k \in {m \in DOMAIN p : p[m].kind \in {"REF_CODE", "DATA_REF_CODE"}}}

(* Between i and what it stands before, nothing is aligned or stored. *)
Bare(p, i) ==
    \A k \in i + 1..FirstFrom(p, i) - 1 : p[k].kind # "CODE_ALIGN" /\ k \notin CodeNamed(p)

(***************************************************************************)
(* A reference to data, and the alignment of data, stand right before what *)
(* they are about: otherwise the reference names the filler, or the stored *)
(* registers, in between.                                                  *)
(***************************************************************************)
Direct(p) ==
    \A i \in DOMAIN p :
        LET goal == FirstFrom(p, p[i].to)
            following == FirstFrom(p, i)
        IN /\ p[i].kind \in {"REF_DATA", "DATA_REF_DATA"} /\ goal \in Sized(p) =>
                p[goal].kind # "PROLOG" /\ Bare(p, p[i].to)
           /\ p[i].kind = "CODE_ALIGN" /\ following \in Sized(p) /\ p[following].kind \in DataKinds =>
                Bare(p, i)
=============================================================================
