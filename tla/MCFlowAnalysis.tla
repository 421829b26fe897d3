--------------------------- MODULE MCFlowAnalysis ---------------------------
(* Every program of at most MaxLen operations over a small alphabet.       *)
EXTENDS FlowAnalysis

CONSTANTS
    a, b,     \* two registers
    MaxLen,   \* operations after the first PROLOG
    Targets   \* where jumps, calls and code references may lead

O(k, j, u, d) == [kind |-> k, jmp |-> j, use |-> u, def |-> d]

Prolog == O("PROLOG", 0, {}, {a})

(* a is an argument of every function; b is only ever a local.             *)
Alphabet ==
    {Prolog,
     O("RET", 0, {a}, {}),
     O("OTHER", 0, {a}, {b}),        \* b := f(a)
     O("OTHER", 0, {b}, {a, b}),     \* two results: a, b := f(b)
     O("JMPR", 0, {b}, {})}
    \cup [kind : {"JMPI", "DATA_REF_CODE"}, jmp : Targets,
          use : {{}}, def : {{}}]
    \cup [kind : {"OTHER"}, jmp : Targets, use : {{b}}, def : {{}}]
    \cup [kind : {"REF_CODE"}, jmp : Targets, use : {{}}, def : {{b}}]

(* Programs that begin with a function, and those with data before it.     *)
MCPrograms ==
    UNION {{<<Prolog>> \o s : s \in [1 .. MaxLen -> Alphabet]},
           {<<d, Prolog>> \o s :
              d \in {x \in Alphabet : x.kind = "DATA_REF_CODE"},
              s \in [1 .. (MaxLen - 1) -> Alphabet]}}

(* Two functions, the branch table of the first at the end of the code.    *)
TablePrograms ==
    {<<Prolog>> \o s \o
       <<O("RET", 0, {a}, {}), Prolog, O("RET", 0, {a}, {}),
         O("DATA_REF_CODE", 4, {}, {})>> :
       s \in [1 .. 2 -> {x \in Alphabet : x.kind \in {"OTHER", "JMPR"}}]}

MCReg == {a, b}
=============================================================================
