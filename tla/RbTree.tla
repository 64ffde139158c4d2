------------------------------- MODULE RbTree -------------------------------
(***************************************************************************)
(* The kernel's red-black trees (kernel/lib/rbtree.cpp and                 *)
(* include/chariot/rbtree_augmented.h, after Linux), as operators on a     *)
(* tree's pointers. What the code writes twice, once for each side, is     *)
(* written once here with the side as a parameter.                         *)
(*                                                                         *)
(* A tree t has a root, and for each node its children t.kid[side], its    *)
(* parent t.up and whether it is red. Null is a node of the functions, so  *)
(* that a store through a null pointer shows.                              *)
(***************************************************************************)
EXTENDS Integers, Sequences, FiniteSets

CONSTANT Keys  \* the nodes, which are ordered: a set of integers above Null

Null == 0

Nodes == Keys \union {Null}
Sides == {"rb_left", "rb_right"}
Other(s) == IF s = "rb_left" THEN "rb_right" ELSE "rb_left"
Empty == [root |-> Null, kid |-> [s \in Sides |-> [n \in Nodes |-> Null]],
          up |-> [n \in Nodes |-> Null], red |-> {}]

rb_set_parent(t, n, p) == [t EXCEPT !.up[n] = p]
rb_set_parent_color(t, n, p, isred) ==
  [t EXCEPT !.up[n] = p, !.red = IF isred THEN @ \union {n} ELSE @ \ {n}]
\* The same behind "if (n)".
SetBlackIf(t, n, p) == IF n = Null THEN t ELSE rb_set_parent_color(t, n, p, FALSE)

rb_change_child(t, old, new, parent) ==
  IF parent = Null THEN [t EXCEPT !.root = new]
  ELSE [t EXCEPT !.kid[IF t.kid["rb_left"][parent] = old THEN "rb_left" ELSE "rb_right"][parent] = new]

\* Mutant of rb_rotate_set_parents: the colours stay.
RotateOnly(t, old, new, isred) ==
  rb_change_child(rb_set_parent(rb_set_parent(t, new, t.up[old]), old, new), old, new, t.up[old])

\* new gets old's parent and colour; old gets new as its parent.
rb_rotate_set_parents(t, old, new, isred) ==
  rb_change_child(
    rb_set_parent_color(rb_set_parent_color(t, new, t.up[old], old \in t.red), old, new, isred),
    old, new, t.up[old])

------------------------------------------------------------------------------
\* __rb_insert: node is red

\* Case 2: node, on the far side of its parent, changes places with it.
Case2(t, node, parent, s) ==
  LET tmp == t.kid[s][node] IN
  rb_set_parent_color(
    SetBlackIf([t EXCEPT !.kid[Other(s)][parent] = tmp, !.kid[s][node] = parent], tmp, parent),
    parent, node, TRUE)

\* Case 3: rotate at the grandparent.
Case3(t, parent, gparent, s) ==
  LET tmp == t.kid[Other(s)][parent] IN
  rb_rotate_set_parents(
    SetBlackIf([t EXCEPT !.kid[s][gparent] = tmp, !.kid[Other(s)][parent] = gparent], tmp, gparent),
    gparent, parent, TRUE)

RECURSIVE rb_insert_color(_, _)
rb_insert_color(t, node) ==
  LET parent == t.up[node]
      gparent == t.up[parent]
      s == IF t.kid["rb_right"][gparent] # parent THEN "rb_left" ELSE "rb_right"
      uncle == t.kid[Other(s)][gparent]
  IN  IF parent = Null THEN rb_set_parent_color(t, node, Null, FALSE)
      ELSE IF parent \notin t.red THEN t
      ELSE IF uncle # Null /\ uncle \in t.red
      THEN \* Case 1: the colours flip, and the grandparent may be wrong now
           rb_insert_color([t EXCEPT !.red = (@ \ {uncle, parent}) \union {gparent}], gparent)
      ELSE IF t.kid[Other(s)][parent] = node
      THEN Case3(Case2(t, node, parent, s), node, gparent, s)
      ELSE Case3(t, parent, gparent, s)

\* rb_insert, with the comparison of add_region: nothing happens for a key that
\* is there already.
RECURSIVE LinkAt(_, _, _)
LinkAt(t, node, parent) ==
  LET s == IF node < parent THEN "rb_left" ELSE "rb_right" IN
  IF node = parent THEN t
  ELSE IF t.kid[s][parent] # Null THEN LinkAt(t, node, t.kid[s][parent])
  ELSE rb_insert_color(
         [t EXCEPT !.kid[s][parent] = node, !.up[node] = parent, !.red = @ \union {node}], node)

rb_insert(t, node) ==
  IF t.root = Null
  THEN rb_insert_color([t EXCEPT !.root = node, !.red = @ \union {node}], node)
  ELSE LinkAt(t, node, t.root)

------------------------------------------------------------------------------
\* __rb_erase_color: the paths through node, a child of parent, are one black
\* node short; s is its side

\* Case 4: rotate at the parent, with the sibling's red child on the far side.
Erase4(t, parent, sibling, s) ==
  LET far == t.kid[Other(s)][sibling]
      near == t.kid[s][sibling]
      t1 == rb_set_parent_color(
              [t EXCEPT !.kid[Other(s)][parent] = near, !.kid[s][sibling] = parent],
              far, sibling, FALSE)
  IN  rb_rotate_set_parents(IF near = Null THEN t1 ELSE rb_set_parent(t1, near, parent),
                            parent, sibling, FALSE)

\* Case 3: rotate at the sibling, whose red child is on the near side.
Erase3(t, parent, sibling, s) ==
  LET near == t.kid[s][sibling]
      tmp == t.kid[Other(s)][near]
  IN  SetBlackIf([t EXCEPT !.kid[s][sibling] = tmp, !.kid[Other(s)][near] = sibling,
                           !.kid[Other(s)][parent] = near], tmp, sibling)

\* Case 1: rotate at the parent, whose child on the far side is red.
Erase1(t, parent, sibling, s) ==
  LET near == t.kid[s][sibling] IN
  rb_rotate_set_parents(
    rb_set_parent_color([t EXCEPT !.kid[Other(s)][parent] = near, !.kid[s][sibling] = parent],
                        near, parent, FALSE),
    parent, sibling, TRUE)

RECURSIVE rb_erase_color(_, _, _)
rb_erase_color(t, node, parent) ==
  LET s == IF t.kid["rb_right"][parent] # node THEN "rb_left" ELSE "rb_right"
      first == t.kid[Other(s)][parent]
      t1 == IF first \in t.red THEN Erase1(t, parent, first, s) ELSE t
      sibling == t1.kid[Other(s)][parent]
      black(n) == n = Null \/ n \notin t1.red
  IN  IF ~black(t1.kid[Other(s)][sibling]) THEN Erase4(t1, parent, sibling, s)
      ELSE IF ~black(t1.kid[s][sibling])
      THEN Erase4(Erase3(t1, parent, sibling, s), parent, t1.kid[s][sibling], s)
      ELSE \* Case 2: the sibling turns red
           LET t2 == rb_set_parent_color(t1, sibling, parent, TRUE) IN
           IF parent \in t1.red THEN [t2 EXCEPT !.red = @ \ {parent}]
           ELSE IF t1.up[parent] = Null THEN t2
           ELSE rb_erase_color(t2, parent, t1.up[parent])

RECURSIVE Deepest(_, _, _)
Deepest(t, n, s) == IF t.kid[s][n] = Null THEN n ELSE Deepest(t, t.kid[s][n], s)

\* child takes the place of n, with its parent and its colour.
Replace(t, n, child) ==
  rb_set_parent_color(rb_change_child(t, n, child, t.up[n]), child, t.up[n], n \in t.red)

\* __rb_erase_augmented of a node with two children: its successor moves up.
\* Returns the tree, and the parent to rebalance at or Null.
EraseInner(t, node) ==
  LET child == t.kid["rb_right"][node]
      successor == Deepest(t, child, "rb_left")
      child2 == t.kid["rb_right"][successor]
      parent == IF successor = child THEN successor ELSE t.up[successor]
      t1 == IF successor = child THEN t
            ELSE rb_set_parent([t EXCEPT !.kid["rb_left"][parent] = child2,
                                         !.kid["rb_right"][successor] = child], child, successor)
      left == t.kid["rb_left"][node]
      t2 == rb_set_parent([t1 EXCEPT !.kid["rb_left"][successor] = left], left, successor)
  IN  <<Replace(SetBlackIf(t2, child2, parent), node, successor),
        IF child2 = Null /\ successor \notin t.red THEN parent ELSE Null>>

\* The same with one child or none.
EraseOuter(t, node) ==
  LET only == IF t.kid["rb_left"][node] = Null THEN t.kid["rb_right"][node]
                                               ELSE t.kid["rb_left"][node]
  IN  IF only # Null THEN <<Replace(t, node, only), Null>>
      ELSE <<rb_change_child(t, node, Null, t.up[node]),
             IF node \in t.red THEN Null ELSE t.up[node]>>

\* The erased node is forgotten by the model; the code leaves its fields as they were.
rb_erase(t, node) ==
  LET r == IF t.kid["rb_left"][node] # Null /\ t.kid["rb_right"][node] # Null
           THEN EraseInner(t, node) ELSE EraseOuter(t, node)
      t1 == IF r[2] = Null THEN r[1] ELSE rb_erase_color(r[1], Null, r[2])
  IN  [t1 EXCEPT !.kid["rb_left"][node] = Null, !.kid["rb_right"][node] = Null,
                 !.up[node] = Null, !.red = @ \ {node}]

------------------------------------------------------------------------------
\* Walks

rb_last(t) == IF t.root = Null THEN Null ELSE Deepest(t, t.root, "rb_right")

RECURSIVE Ascend(_, _, _)
Ascend(t, n, s) ==
  IF t.up[n] # Null /\ t.kid[s][t.up[n]] = n THEN Ascend(t, t.up[n], s) ELSE t.up[n]

rb_prev(t, n) ==
  IF t.kid["rb_left"][n] # Null THEN Deepest(t, t.kid["rb_left"][n], "rb_right")
  ELSE Ascend(t, n, "rb_left")

\* Mutant of rb_left_deepest_node: the walk down stops at a node without a left child.
LeftmostNode(t, n) == Deepest(t, n, "rb_left")

RECURSIVE rb_left_deepest_node(_, _)
rb_left_deepest_node(t, n) ==
  IF t.kid["rb_left"][n] # Null THEN rb_left_deepest_node(t, t.kid["rb_left"][n])
  ELSE IF t.kid["rb_right"][n] # Null THEN rb_left_deepest_node(t, t.kid["rb_right"][n])
  ELSE n

rb_first_postorder(t) == IF t.root = Null THEN Null ELSE rb_left_deepest_node(t, t.root)
rb_next_postorder(t, n) ==
  LET parent == t.up[n] IN
  IF parent # Null /\ n = t.kid["rb_left"][parent] /\ t.kid["rb_right"][parent] # Null
  THEN rb_left_deepest_node(t, t.kid["rb_right"][parent])
  ELSE parent

------------------------------------------------------------------------------
\* What a red-black tree of the nodes ns is

RECURSIVE Inorder(_, _)
Inorder(t, n) ==
  IF n = Null THEN <<>>
  ELSE Inorder(t, t.kid["rb_left"][n]) \o <<n>> \o Inorder(t, t.kid["rb_right"][n])

\* The black nodes on every path from n down; -1 when paths differ.
RECURSIVE BlackHeight(_, _)
BlackHeight(t, n) ==
  IF n = Null THEN 0
  ELSE LET l == BlackHeight(t, t.kid["rb_left"][n])
           r == BlackHeight(t, t.kid["rb_right"][n])
       IN  IF l = -1 \/ l # r THEN -1 ELSE IF n \in t.red THEN l ELSE l + 1

RedBlackTree(t, ns) ==
  /\ LET order == Inorder(t, t.root) IN
     /\ {order[i] : i \in DOMAIN order} = ns
     /\ \A i \in 1..(Len(order) - 1) : order[i] < order[i + 1]
  /\ t.root \notin t.red
  /\ \A n \in t.red, s \in Sides : t.kid[s][n] \notin t.red
  /\ BlackHeight(t, t.root) # -1
  /\ t.up[Null] = Null /\ \A s \in Sides : t.kid[s][Null] = Null
  /\ t.root # Null => t.up[t.root] = Null
  /\ \A n \in ns, s \in Sides : t.kid[s][n] # Null => t.up[t.kid[s][n]] = n
=============================================================================
