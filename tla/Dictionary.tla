------------------------------ MODULE Dictionary ----------------------------
(***************************************************************************)
(* What the passes expect of a set of registers or a map from registers:   *)
(* each is a finite partial function from keys to values, and an operation *)
(* changes the one it is given and no other.                               *)
(***************************************************************************)
EXTENDS Integers, FiniteSets

CONSTANTS Names, Bindings

Keys == {b[1] : b \in Bindings}

VARIABLES
    maps,     \* the maps, by name
    result    \* what the last operation returned

vars == <<maps, result>>

Restricted(f, S) == [k \in S |-> f[k]]

Init ==
    /\ maps = [m \in Names |-> [k \in {} |-> 0]]
    /\ result = 0

Insert(m, k, v) ==
    /\ maps' = [maps EXCEPT ![m] = [j \in DOMAIN @ \cup {k} |-> IF j = k THEN v ELSE @[j]]]
    /\ result' = IF k \in DOMAIN maps[m] THEN 1 ELSE 0

Delete(m, k) ==
    /\ maps' = [maps EXCEPT ![m] = Restricted(@, DOMAIN @ \ {k})]
    /\ result' = IF k \in DOMAIN maps[m] THEN 1 ELSE 0

(* The keys of a come from n wherever both have them. *)
AddAll(m, n) ==
    /\ maps' = [maps EXCEPT ![m] =
         [k \in DOMAIN @ \cup DOMAIN maps[n] |->
            IF k \in DOMAIN maps[n] THEN maps[n][k] ELSE @[k]]]
    /\ UNCHANGED result

Clone(m, n) == maps' = [maps EXCEPT ![m] = maps[n]] /\ UNCHANGED result

Search(m, k) ==
    /\ result' = IF k \in DOMAIN maps[m] THEN maps[m][k] ELSE 0
    /\ UNCHANGED maps

Equal(m, n) ==
    /\ result' = IF DOMAIN maps[m] = DOMAIN maps[n] THEN 1 ELSE 0
    /\ UNCHANGED maps

Size(m) == result' = Cardinality(DOMAIN maps[m]) /\ UNCHANGED maps

Next ==
    \E m \in Names :
        \/ Size(m)
        \/ \E b \in Bindings : Insert(m, b[1], b[2])
        \/ \E k \in Keys : Delete(m, k) \/ Search(m, k)
        \/ \E n \in Names : Equal(m, n) \/ (m # n /\ (AddAll(m, n) \/ Clone(m, n)))

Spec == Init /\ [][Next]_vars
=============================================================================
