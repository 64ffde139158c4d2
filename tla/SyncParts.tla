----------------------------- MODULE SyncParts -----------------------------
(***************************************************************************)
(* Three of the things that threads synchronise with, side by side: a      *)
(* rwlock (RWLock), a semaphore (Semaphore) and usleep() (Sleep). Nothing  *)
(* is shared between them but the names of the threads.                    *)
(***************************************************************************)
EXTENDS RWLock

CONSTANTS
  Waiters, Posters, Initial, MaxPosts, MaxWaits, Ticks,
  Cpus, Delays, MaxNow,
  Signals, None

ASSUME NoneAssumption == None \notin Threads \union Waiters \union Posters
ASSUME WaitersAssumption == IsFiniteSet(Waiters) /\ Waiters \intersect Posters = {} /\ Initial \in Nat

VARIABLES
  value, slock, clock, main_seq, wakeup_seq, woken_seq, nwaiters, wq, blocked, asleep, intr, seq,
  where, calls,
  now, sleepers, snext, sprev, cpu, wakeup_us, spc, queued, ret, ticking, blk, since

Sema == INSTANCE Semaphore WITH pc <- where, lock <- slock
Timer == INSTANCE Sleep WITH
  next <- snext, prev <- sprev, pc <- spc, locked <- ticking, at <- since, NULL <- None
------------------------------------------------------------------------------
\* condvar: the sequence numbers leave room for every thread inside wait().
SeqsInOrder == Sema!SeqsInOrder

\* semaphore: a value that is there is taken by a thread that waits for it.
ValueIsTaken == Sema!ValueIsTaken

\* sleep_waiter: the list of a CPU holds exactly the sleeps under way, and
\* check_wakeups looks only at waiters that exist.
TickSeesLive == Timer!ListsAreExact /\ Timer!TickSeesLive

\* do_usleep returns.
SleepEnds == Timer!SleepEnds
=============================================================================
