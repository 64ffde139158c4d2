------------------------------ MODULE Regions ------------------------------
(***************************************************************************)
(* The regions of an address space (kernel/mm/space.cpp): a red-black tree *)
(* of areas by address, which mmap(), unmap() and the page fault handler   *)
(* search. Addresses count pages. space::lock is held throughout each      *)
(* operation, so it is one step.                                           *)
(***************************************************************************)
EXTENDS RbTree

CONSTANTS
  hi,          \* the end of the space; Keys is 1..(hi - 1)
  Sizes,       \* lengths of areas
  Fixed        \* may a caller choose an address itself?

VARIABLES
  regions,     \* the tree, whose nodes are the areas' addresses
  len          \* the length of the area at each address, 0 without one

vars == <<regions, len>>

Areas == {va \in Keys : len[va] # 0}
Extent(va) == va .. (va + len[va] - 1)

Init == regions = Empty /\ len = [va \in Keys |-> 0]

\* Mutant of Inside: an area's end is taken for a part of it.
InsideOrEnd(va, r) == r <= va /\ va <= r + len[r]

Inside(va, r) == r <= va /\ va < r + len[r]

RECURSIVE LookupFrom(_, _)
LookupFrom(n, va) ==
  IF n = Null \/ Inside(va, n) THEN n
  ELSE LookupFrom(regions.kid[IF va < n THEN "rb_left" ELSE "rb_right"][n], va)

lookup(va) == LookupFrom(regions.root, va)

\* Mutant of Clashes: only an area's start is looked at.
ClashesAtStart(va, size, r) == va <= r /\ r < va + size

Clashes(va, size, r) == va <= r + len[r] /\ r < va + size

\* find_hole: from the last area down, to below each one in the way.
RECURSIVE HoleBelow(_, _, _)
HoleBelow(va, size, n) ==
  IF n = Null THEN va
  ELSE HoleBelow(IF Clashes(va, size, n) THEN n - size ELSE va, size, rb_prev(regions, n))

find_hole(size) == HoleBelow(hi - size, size, rb_last(regions))

\* add_region refuses an address that has an area; mmap() does not look.
add_region(va, size) ==
  /\ regions' = rb_insert(regions, va)
  /\ len' = IF va \in Areas THEN len ELSE [len EXCEPT ![va] = size]

\* A space without room for the area is not modelled: find_hole() then returns
\* an address below the space.
mmap(size) == find_hole(size) \in Keys /\ add_region(find_hole(size), size)

mmap_fixed(va, size) == Fixed /\ va + size <= hi /\ add_region(va, size)

unmap(va) ==
  /\ lookup(va) # Null
  /\ regions' = rb_erase(regions, lookup(va))
  /\ len' = [len EXCEPT ![lookup(va)] = 0]

Next ==
  \/ \E size \in Sizes : mmap(size) \/ \E va \in Keys : mmap_fixed(va, size)
  \/ \E va \in Keys : unmap(va)

Spec == Init /\ [][Next]_vars
------------------------------------------------------------------------------
\* rb_insert, rb_erase: after any sequence of insertions and erasures the tree
\* holds exactly the areas, in order, and is a red-black tree by the five
\* properties of rbtree.cpp; its parent pointers agree with its children, and
\* no store went through a null pointer.
RedBlack == RedBlackTree(regions, Areas)

\* lookup: with no two areas overlapping, the area found is the one that
\* contains the address, and one is found whenever there is one.
LookupFinds ==
  (\A r, q \in Areas : r # q => Extent(r) \intersect Extent(q) = {})
    => \A va \in Keys : {r \in Areas : va \in Extent(r)} = {lookup(va)} \ {Null}

\* find_hole: the hole is free, even among areas that overlap.
HoleIsFree ==
  \A size \in Sizes, r \in Areas :
    LET va == find_hole(size) IN Extent(r) \intersect (va .. (va + size - 1)) = {}

RECURSIVE Walk(_)
Walk(n) == IF n = Null THEN <<>> ELSE <<n>> \o Walk(rb_next_postorder(regions, n))

\* ~space: the walk that deletes the areas meets each one once, and after its
\* children, so that it reads no area that is gone.
DeletesEachOnce ==
  LET w == Walk(rb_first_postorder(regions)) IN
  /\ Len(w) = Cardinality(Areas) /\ {w[i] : i \in DOMAIN w} = Areas
  /\ \A i, j \in DOMAIN w : regions.up[w[i]] = w[j] => i < j
=============================================================================
