---------------------------- MODULE MCTwoThreads ---------------------------
(***************************************************************************)
(* Two threads, in one part of the kernel in each behaviour: scheduled on  *)
(* two processors (Mlfq), or calling into the file system (Files), where   *)
(* they are threads of one process. The parts have no state in common;     *)
(* the Files variables are None in a behaviour of Mlfq, and those of Mlfq  *)
(* stay as they are in a behaviour of Files.                               *)
(***************************************************************************)
EXTENDS Mlfq, TLC

CONSTANTS
  Callers, Procs, Owner, Names,    \* the threads and processes of Files, and its bounds
  NInodes, NFiles, NFds,
  parent, forked

ASSUME OwnerAssumption == Owner \in [Callers -> Procs] /\ None \notin Names
ASSUME BoundsAssumption == NInodes \in Nat /\ NFiles \in Nat /\ NFds \in Nat /\ None \notin Nat

VARIABLES part, name, dir, rc, deleted, file, fds, live, call, held, early

files == <<name, dir, rc, deleted, file, fds, live, call, held, early>>

Open == INSTANCE Files WITH Threads <- Callers

\* The threads are of one process, which may fork one that holds its descriptors
\* and ends.
MCOwner == [t \in Callers |-> parent]

MCInit ==
  /\ Init
  /\ \/ /\ part = "Mlfq" /\ name = None /\ dir = None /\ rc = None /\ deleted = None /\ file = None
        /\ fds = None /\ live = None /\ call = None /\ held = None /\ early = None
     \/ part = "Files" /\ Open!Init

\* System calls may stop at a bound, or in undefined behaviour.
MCNext ==
  \/ part = "Mlfq" /\ Next /\ UNCHANGED <<part, files>>
  \/ part = "Files" /\ Open!Next /\ UNCHANGED <<part, vars>>
  \/ part = "Files" /\ UNCHANGED <<part, vars, files>>

all == <<part, vars, files>>
MCSpec == MCInit /\ [][MCNext]_all

\* The scheduler with the fairness of Mlfq.
LiveInit == MCInit /\ part = "Mlfq"
LiveSpec == LiveInit /\ [][MCNext]_all /\ Fairness

Symmetry == Permutations(Threads) \union Permutations(Callers)
------------------------------------------------------------------------------
\* open, unlink, close, inode::release: no inode is deleted while it is in use.
InodeIsThere == part = "Files" => Open!InodeIsThere
=============================================================================
