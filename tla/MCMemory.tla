------------------------------ MODULE MCMemory -----------------------------
(***************************************************************************)
(* Memory management, one part of it in each behaviour: processes that     *)
(* share pages (Cow), the frames (Phys), the areas of a space (Regions).   *)
(* The parts have no state in common; the ones that a behaviour is not     *)
(* about stay as they are.                                                 *)
(***************************************************************************)
EXTENDS MemoryParts, TLC

VARIABLES part, regions, len

frames == <<freelist, nfree, booted, allocated>>
space == <<regions, len>>

\* Boot hands over two ranges with a page between them, and one that ends a page
\* below the first. Spaces have eight pages.
MCRanges == <<[start |-> 4, len |-> 4], [start |-> 9, len |-> 3], [start |-> 1, len |-> 2]>>

Space == INSTANCE Regions WITH
  hi <- 9, Keys <- 1..8, Sizes <- {1, 2}, Fixed <- TRUE

MCInit ==
  /\ part \in {"Cow", "Phys", "Regions"}
  /\ Init /\ Kmem!Init /\ Space!Init

MCNext ==
  \/ part = "Cow" /\ Next /\ UNCHANGED <<part, frames, space>>
  \/ part = "Phys" /\ Kmem!Next /\ UNCHANGED <<part, vars, space>>
  \/ part = "Regions" /\ Space!Next /\ UNCHANGED <<part, vars, frames>>

MCSpec == MCInit /\ [][MCNext]_<<part, vars, frames, space>>

Symmetry == Permutations(Procs) \union Permutations(Pages)
------------------------------------------------------------------------------
\* rb_insert, rb_erase: the areas of a space form a red-black tree.
RedBlack == Space!RedBlack

\* space::lookup finds the area an address is in.
LookupFinds == Space!LookupFinds

\* space::find_hole finds addresses no area has.
HoleIsFree == Space!HoleIsFree

\* space::~space deletes each area once, and after its children.
DeletesEachOnce == Space!DeletesEachOnce
=============================================================================
