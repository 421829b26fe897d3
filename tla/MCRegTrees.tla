----------------------------- MODULE MCRegTrees -----------------------------
(* Instances of RegTrees for TLC. *)
EXTENDS RegTrees, TLC

(* Five registers, each with a value of its own, and a second for one.     *)
MCBindings == {<<k, k>> : k \in 1..5} \cup {<<2, 9>>}

NameSymmetry == Permutations(Names)
=============================================================================
