-------------------------------- MODULE Phys --------------------------------
(***************************************************************************)
(* The allocator of physical pages (kernel/phys.cpp): a list of free       *)
(* blocks, each kept in its own first page. Addresses are page numbers.    *)
(* Every operation holds phys_lck throughout, so it is one step.           *)
(***************************************************************************)
EXTENDS Integers, Sequences, FiniteSets

CONSTANTS
  Ranges,      \* what boot hands to free_range(), a sequence of disjoint [start, len]
  Sizes        \* the npages of alloc()

Block == [start : Nat, len : Nat \ {0}]
PagesOf(b) == b.start .. (b.start + b.len - 1)

VARIABLES
  freelist,    \* kmem.freelist, a sequence of blocks
  nfree,       \* kmem.nfree
  booted,      \* how many of Ranges have been handed over
  allocated    \* the blocks alloc() returned and nobody has freed

vars == <<freelist, nfree, booted, allocated>>

\* r->setnext(prev->next), prev->setnext(r): r becomes the k-th block of l.
Link(l, k, r) == SubSeq(l, 1, k - 1) \o <<r>> \o SubSeq(l, k, Len(l))

\* p->setnext(c->getnext()): the k-th block leaves l.
Unlink(l, k) == SubSeq(l, 1, k - 1) \o SubSeq(l, k + 1, Len(l))

Init == freelist = <<>> /\ nfree = 0 /\ booted = 0 /\ allocated = {}

\* A range goes to the head of an empty list, or after the head.
free_range ==
  /\ booted < Len(Ranges)
  /\ LET r == Ranges[booted + 1] IN
     /\ freelist' = IF freelist = <<>> THEN <<r>> ELSE Link(freelist, 2, r)
     /\ nfree' = nfree + r.len
  /\ booted' = booted + 1
  /\ UNCHANGED allocated

\* Mutant of Taken: the block's length is not reduced.
TakenWhole(i, n) ==
  IF freelist[i].len = n THEN Unlink(freelist, i) ELSE freelist

\* The block i loses n pages: it leaves the list, or loses its last ones.
Taken(i, n) ==
  IF freelist[i].len = n THEN Unlink(freelist, i)
  ELSE [freelist EXCEPT ![i].len = @ - n]

\* late_phys_alloc: the first block that is long enough. With none, the code
\* goes on with the null frame; such a call is not modelled.
alloc(n) ==
  LET fits == {i \in DOMAIN freelist : freelist[i].len >= n} IN
  /\ fits # {}
  /\ LET i == CHOOSE i \in fits : \A j \in fits : i <= j
         b == freelist[i] IN
     /\ freelist' = Taken(i, n)
     /\ allocated' = allocated \union {[start |-> b.start + b.len - n, len |-> n]}
  /\ nfree' = nfree - n
  /\ UNCHANGED booted

\* The block at i ends where its successor in the list starts.
Touches(l, i) == i < Len(l) /\ l[i].start + l[i].len = l[i + 1].start

\* Where the loop "patch up" goes from i: a block that takes its successor in is
\* followed by the one behind it.
After(l, i) == IF Touches(l, i) THEN i + 2 ELSE i + 1

\* The places the loop visits, from the head on; those above Len(l) are none.
Visits(l) ==
  LET visit[n \in DOMAIN l] == IF n = 1 THEN 1 ELSE After(l, visit[n - 1]) IN visit

\* What the loop makes of the list.
Patched(l) ==
  LET at == Visits(l)
      joined(i) == [l[i] EXCEPT !.len = @ + l[i + 1].len]
  IN  [n \in {m \in DOMAIN l : at[m] <= Len(l)} |->
         IF Touches(l, at[n]) THEN joined(at[n]) ELSE l[at[n]]]

\* After the first block whose successor lies above r, and never before the head.
Linked(r) ==
  IF freelist = <<>> THEN <<r>>
  ELSE LET below == {i \in DOMAIN freelist : i = Len(freelist) \/ freelist[i + 1].start > r.start}
       IN  Link(freelist, 1 + CHOOSE i \in below : \A j \in below : i <= j, r)

free(r) ==
  /\ r \in allocated
  /\ freelist' = Patched(Linked(r))
  /\ nfree' = nfree + r.len
  /\ allocated' = allocated \ {r}
  /\ UNCHANGED booted

Next == free_range \/ (\E n \in Sizes : alloc(n)) \/ (\E r \in allocated : free(r))
Spec == Init /\ [][Next]_vars
------------------------------------------------------------------------------
\* The pages boot has handed over, and the blocks that have a page.
Given == UNION {PagesOf(Ranges[i]) : i \in 1..booted}
FreeIn(pg) == {i \in DOMAIN freelist : pg \in PagesOf(freelist[i])}
UsedIn(pg) == {b \in allocated : pg \in PagesOf(b)}

\* alloc, free, free_range: every page given to the allocator is in exactly one
\* block, free or allocated, and nfree counts the free ones: no page is handed
\* out twice, and none is lost, in whatever order blocks split, come back
\* and are joined.
EveryPageOnce ==
  /\ \A pg \in Given : Cardinality(FreeIn(pg)) + Cardinality(UsedIn(pg)) = 1
  /\ \A b \in {freelist[i] : i \in DOMAIN freelist} \union allocated : b \in Block /\ PagesOf(b) \subseteq Given
  /\ nfree = Cardinality({pg \in Given : FreeIn(pg) # {}})
=============================================================================
