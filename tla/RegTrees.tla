------------------------------ MODULE RegTrees ------------------------------
(***************************************************************************)
(* The left-leaning red-black trees of myjit/llrb.c, which are the sets of *)
(* registers of set.h and the register maps of rmap.h.                     *)
(*                                                                         *)
(* A tree is changed in place, but no two trees share a node, so a tree is *)
(* a value here: Null, or a node with its two subtrees.  The functions are *)
(* those of llrb.c, with its deviations from the published algorithm.      *)
(***************************************************************************)
EXTENDS Integers, FiniteSets

CONSTANTS
    Names,     \* the sets and maps of the library
    Bindings   \* pairs of a virtual register and what it may be given, not 0 (NULL)

ASSUME BindingsAssumption == Bindings \subseteq Int \X (Int \ {0})

Keys == {b[1] : b \in Bindings}

VARIABLES
    trees,    \* the root of each
    result    \* what the last function returned

vars == <<trees, result>>

Null == [null |-> TRUE]
Node(c, k, v, l, r) == [null |-> FALSE, color |-> c, key |-> k, value |-> v, left |-> l, right |-> r]

IsRed(h) == ~h.null /\ h.color = "red"

Flipped(c) == IF c = "red" THEN "black" ELSE "red"

(* rotate_left *)
RotateLeft(h) ==
    LET x == h.right
    IN [x EXCEPT !.left = [h EXCEPT !.right = x.left, !.color = "red"], !.color = h.color]

(* rotate_right *)
RotateRight(h) ==
    LET x == h.left
    IN [x EXCEPT !.right = [h EXCEPT !.left = x.right, !.color = "red"], !.color = h.color]

(* color_flip *)
ColorFlip(h) ==
    [h EXCEPT !.color = Flipped(@), !.left.color = Flipped(@), !.right.color = Flipped(@)]

(* Slip: two reds in a row are left to the caller. *)
FixupOnlyRight(h) == IF IsRed(h.right) THEN RotateLeft(h) ELSE h

(* fixup *)
Fixup(h) ==
    LET a == IF IsRed(h.right) THEN RotateLeft(h) ELSE h
        b == IF IsRed(a.left) /\ IsRed(a.left.left) THEN ColorFlip(RotateRight(a)) ELSE a
    IN IF IsRed(b.left) /\ IsRed(b.right) THEN ColorFlip(b) ELSE b

(* jit_tree_search; the node, or Null *)
RECURSIVE Find(_, _)
Find(h, key) ==
    IF h.null \/ h.key = key THEN h
    ELSE Find(IF h.key > key THEN h.left ELSE h.right, key)

(* node_insert *)
RECURSIVE NodeInsert(_, _, _)
NodeInsert(h, key, value) ==
    IF h.null THEN Node("red", key, value, Null, Null)
    ELSE LET g == IF IsRed(h.left) /\ IsRed(h.right) THEN ColorFlip(h) ELSE h
         IN Fixup(CASE g.key = key -> [g EXCEPT !.value = value]
                    [] g.key > key -> [g EXCEPT !.left = NodeInsert(@, key, value)]
                    [] g.key < key -> [g EXCEPT !.right = NodeInsert(@, key, value)])

(* jit_tree_insert *)
Inserted(root, key, value) == [NodeInsert(root, key, value) EXCEPT !.color = "black"]

(* move_red_left *)
MoveRedLeft(h) ==
    LET g == ColorFlip(h)
    IN IF IsRed(g.right.left)
       THEN ColorFlip(RotateLeft([g EXCEPT !.right = RotateRight(@)]))
       ELSE g

(* move_red_right *)
MoveRedRight(h) ==
    LET g == ColorFlip(h)
    IN IF IsRed(g.left.left) THEN ColorFlip(RotateRight(g)) ELSE g

(* node_min *)
RECURSIVE NodeMin(_)
NodeMin(h) == IF h.left.null THEN h.key ELSE NodeMin(h.left)

(* delete_min *)
RECURSIVE DeleteMin(_)
DeleteMin(h) ==
    IF h.left.null THEN Null
    ELSE LET g == IF ~IsRed(h.left) /\ ~IsRed(h.left.left) THEN MoveRedLeft(h) ELSE h
         IN Fixup([g EXCEPT !.left = DeleteMin(@)])

(* Slip: the value stays that of the deleted key. *)
WithSuccessorKeyOnly(h) ==
    [h EXCEPT !.key = NodeMin(h.right), !.right = DeleteMin(@)]

(* A node with two subtrees takes over the next key and its value. *)
WithSuccessor(h) ==
    LET next == NodeMin(h.right)
    IN [h EXCEPT !.value = Find(h.right, next).value, !.key = next, !.right = DeleteMin(@)]

(* Slip: red links are not turned to the right on the way down. *)
LeanRightNever(h) == h

(* What delete_node does to a node before it goes right or removes it. *)
LeanRight(h) == IF IsRed(h.left) THEN RotateRight(h) ELSE h

(* delete_node *)
RECURSIVE DeleteNode(_, _)
DeleteNode(h, key) ==
    IF h.null THEN Null
    ELSE IF key < h.key
    THEN LET g == IF ~IsRed(h.left) /\ ~h.left.null /\ ~IsRed(h.left.left)
                  THEN MoveRedLeft(h) ELSE h
         IN Fixup([g EXCEPT !.left = DeleteNode(@, key)])
    ELSE LET g == LeanRight(h)
         IN IF key = g.key /\ g.right.null THEN Null
            ELSE LET f == IF ~IsRed(g.right) /\ ~g.right.null /\ ~IsRed(g.right.left)
                          THEN MoveRedRight(g) ELSE g
                 IN Fixup(IF key = f.key THEN WithSuccessor(f)
                          ELSE [f EXCEPT !.right = DeleteNode(@, key)])

(* jit_tree_delete *)
Deleted(root, key) ==
    LET h == DeleteNode(root, key)
    IN IF h.null THEN h ELSE [h EXCEPT !.color = "black"]

(* jit_tree_addall, and jit_tree_clone when the target is Null *)
RECURSIVE AllAdded(_, _)
AllAdded(target, n) ==
    IF n.null THEN target
    ELSE AllAdded(Inserted(AllAdded(target, n.left), n.key, n.value), n.right)

(* jit_tree_subset: n of root *)
RECURSIVE Subset(_, _)
Subset(root, n) ==
    n.null \/ (~Find(root, n.key).null /\ Subset(root, n.left) /\ Subset(root, n.right))

(* jit_tree_size *)
RECURSIVE TreeSize(_)
TreeSize(h) == IF h.null THEN 0 ELSE TreeSize(h.left) + TreeSize(h.right) + 1

-----------------------------------------------------------------------------
Init ==
    /\ trees = [m \in Names |-> Null]
    /\ result = 0

Change(m, tree) == trees' = [trees EXCEPT ![m] = tree]

FoundIn(m, key) == IF Find(trees[m], key).null THEN 0 ELSE 1

(* jit_tree_insert with its found; jit_set_add, rmap_assoc *)
Insert(m, key, value) ==
    /\ Change(m, Inserted(trees[m], key, value))
    /\ result' = FoundIn(m, key)

(* jit_tree_delete with its found; jit_set_remove, rmap_unassoc *)
Delete(m, key) ==
    /\ Change(m, Deleted(trees[m], key))
    /\ result' = FoundIn(m, key)

(* jit_set_addall *)
AddAll(m, n) == Change(m, AllAdded(trees[m], trees[n])) /\ UNCHANGED result

(* jit_set_clone, rmap_clone *)
Clone(m, n) == Change(m, AllAdded(Null, trees[n])) /\ UNCHANGED result

(* jit_set_get, rmap_get: the value if there is one *)
Search(m, key) ==
    /\ result' = LET h == Find(trees[m], key) IN IF h.null THEN 0 ELSE h.value
    /\ UNCHANGED trees

(* jit_set_equal *)
Equal(m, n) ==
    /\ result' = IF Subset(trees[m], trees[n]) /\ Subset(trees[n], trees[m]) THEN 1 ELSE 0
    /\ UNCHANGED trees

(* jit_set_size *)
Size(m) == result' = TreeSize(trees[m]) /\ UNCHANGED trees

Next ==
    \E m \in Names :
        \/ Size(m)
        \/ \E b \in Bindings : Insert(m, b[1], b[2])
        \/ \E k \in Keys : Delete(m, k) \/ Search(m, k)
        \/ \E n \in Names : Equal(m, n) \/ (m # n /\ (AddAll(m, n) \/ Clone(m, n)))

Spec == Init /\ [][Next]_vars

-----------------------------------------------------------------------------
RECURSIVE NodesOf(_)
NodesOf(h) == IF h.null THEN {} ELSE {h} \cup NodesOf(h.left) \cup NodesOf(h.right)

(* The longest and the shortest way down, in black nodes. *)
RECURSIVE BlackHeights(_)
BlackHeights(h) ==
    IF h.null THEN {0}
    ELSE {n + (IF h.color = "black" THEN 1 ELSE 0) : n \in BlackHeights(h.left) \cup BlackHeights(h.right)}

(***************************************************************************)
(* A tree of n keys never gets deeper than 2 log n: after every function,  *)
(* also those that delete what is not there, red links lean left, none     *)
(* follows another, and all ways down have as many black nodes.            *)
(***************************************************************************)
Balanced ==
    \A m \in Names :
        /\ ~IsRed(trees[m])
        /\ Cardinality(BlackHeights(trees[m])) = 1
        /\ \A h \in NodesOf(trees[m]) :
             ~IsRed(h.right) /\ ~(IsRed(h) /\ IsRed(h.left))

(* The content of a tree, found the way the library finds it. *)
Content(h) ==
    [k \in {k \in Keys : ~Find(h, k).null} |-> Find(h, k).value]

(* Every tree behaves as the set or map it stands for: nothing that is     *)
(* rotated, flipped or moved on the way is lost, doubled or given the      *)
(* value of another key, and sizes and comparisons are right.              *)
Contents == INSTANCE Dictionary WITH maps <- [m \in Names |-> Content(trees[m])]

Implements == Contents!Spec
=============================================================================
