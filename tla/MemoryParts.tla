---------------------------- MODULE MemoryParts ----------------------------
(***************************************************************************)
(* The pages of processes (Cow) and the allocator they come from (Phys),   *)
(* side by side: Cow has its own pages, and the two share no state.        *)
(***************************************************************************)
EXTENDS Cow, Sequences

CONSTANTS Ranges, Sizes

VARIABLES freelist, nfree, booted, allocated

Kmem == INSTANCE Phys

\* Boot hands over ranges that have no page in common, and nobody asks for no page.
ASSUME RangesAssumption ==
  /\ Ranges \in Seq(Kmem!Block)
  /\ \A i, j \in DOMAIN Ranges :
       i # j => Kmem!PagesOf(Ranges[i]) \intersect Kmem!PagesOf(Ranges[j]) = {}
  /\ Sizes \subseteq Nat \ {0}
------------------------------------------------------------------------------
\* phys::alloc, phys::free, phys::free_range: no frame is handed out twice or lost.
EveryPageOnce == Kmem!EveryPageOnce
=============================================================================
