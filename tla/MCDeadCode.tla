----------------------------- MODULE MCDeadCode -----------------------------
(* All lists of Length operations behind a first PROLOG and a label.       *)
EXTENDS DeadCode

CONSTANT Length

O(k, j) == [kind |-> k, jmp |-> j]

Prefix == <<O("PROLOG", 0), O("LABEL", 0)>>

Positions == (Len(Prefix) + 1) .. (Len(Prefix) + Length)

(* Jumps go back to the label or forward to any later position; those that *)
(* do not find a PATCH of their own there are left out by WellFormed.      *)
Alphabet ==
    {O("PROLOG", 0), O("RET", 0), O("JMP", 0), O("FULL_SPILL", 0),
     O("DATA", 0), O("PATCH", 0), O("OTHER", 0)}
    \cup {O(k, j) : k \in {"OTHER", "JMP"}, j \in {2, Len(Prefix) + Length}}
    \cup {O("REF", 2)}
    \cup {O("DATA_REF_CODE", j) : j \in {2, Len(Prefix) + Length - 1}}

Lists == {Prefix \o s : s \in [1 .. Length -> Alphabet]}

MCPrograms == {p \in Lists : WellFormed(p)}
=============================================================================
