------------------------------- MODULE RWLock -------------------------------
(***************************************************************************)
(* spinlock and rwlock of kernel/lib/lock.cpp, used by threads that take   *)
(* the rwlock for reading or for writing.                                  *)
(*                                                                         *)
(* m_lock is the one-bit test-and-set lock, m_readers the unsigned reader  *)
(* count. Every access to shared memory is a step of its own: the          *)
(* test-and-set, the read-modify-write of m_readers, the clear.            *)
(***************************************************************************)
EXTENDS Naturals, FiniteSets

CONSTANTS
  Threads,  \* the threads that use the lock
  Wrap      \* unsigned arithmetic is modulo Wrap (2^32 in the code)

ASSUME ThreadsAssumption == IsFiniteSet(Threads)
ASSUME WrapAssumption == Wrap \in Nat /\ Cardinality(Threads) < Wrap

VARIABLES
  locked,   \* spinlock::locked of m_lock
  readers,  \* rwlock::m_readers
  pc        \* where each thread is

vars == <<locked, readers, pc>>

Locations ==
  {"idle", "r_spin", "r_inc", "r_unlock", "reading",
   "ru_spin", "ru_dec", "ru_unlock",
   "w_spin", "w_test", "w_backoff", "writing"}

Init ==
  /\ locked = 0
  /\ readers = 0
  /\ pc = [t \in Threads |-> "idle"]

Goto(t, from, to) == pc[t] = from /\ pc' = [pc EXCEPT ![t] = to]

\* spinlock::lock: the atomic test-and-set that finds the bit clear. A failed
\* test-and-set and the relaxed spinning change nothing.
SpinLock(t, from, to) ==
  /\ Goto(t, from, to)
  /\ locked = 0
  /\ locked' = 1
  /\ UNCHANGED readers

\* spinlock::unlock: the clear is unconditional.
SpinUnlock(t, from, to) ==
  /\ Goto(t, from, to)
  /\ locked' = 0
  /\ UNCHANGED readers

\* A call of one of the four rwlock operations.
Call(t) ==
  /\ \/ Goto(t, "idle", "r_spin")
     \/ Goto(t, "idle", "w_spin")
     \/ Goto(t, "reading", "ru_spin")
  /\ UNCHANGED <<locked, readers>>

\* rwlock::read_lock
ReadLock(t) ==
  \/ SpinLock(t, "r_spin", "r_inc")
  \/ /\ Goto(t, "r_inc", "r_unlock")
     /\ readers' = (readers + 1) % Wrap
     /\ UNCHANGED locked
  \/ SpinUnlock(t, "r_unlock", "reading")

\* Mutant of ReadUnlock: m_readers is left as it is.
ReadUnlockUncounted(t) ==
  \/ SpinLock(t, "ru_spin", "ru_unlock")
  \/ SpinUnlock(t, "ru_unlock", "idle")

\* rwlock::read_unlock
ReadUnlock(t) ==
  \/ SpinLock(t, "ru_spin", "ru_dec")
  \/ /\ Goto(t, "ru_dec", "ru_unlock")
     /\ readers' = (readers + Wrap - 1) % Wrap
     /\ UNCHANGED locked
  \/ SpinUnlock(t, "ru_unlock", "idle")

\* Mutant of WriteLock: m_readers is tested before m_lock is taken.
WriteLockTestFirst(t) ==
  \/ Goto(t, "w_spin", "w_test") /\ readers = 0 /\ UNCHANGED <<locked, readers>>
  \/ SpinLock(t, "w_test", "writing")

\* rwlock::write_lock: returns with m_lock held once it saw no reader.
WriteLock(t) ==
  \/ SpinLock(t, "w_spin", "w_test")
  \/ /\ Goto(t, "w_test", IF readers = 0 THEN "writing" ELSE "w_backoff")
     /\ UNCHANGED <<locked, readers>>
  \/ SpinUnlock(t, "w_backoff", "w_spin")

\* rwlock::write_unlock
WriteUnlock(t) == SpinUnlock(t, "writing", "idle")

Step(t) == ReadLock(t) \/ ReadUnlock(t) \/ WriteLock(t) \/ WriteUnlock(t)

Next == \E t \in Threads : Call(t) \/ Step(t)

Spec == Init /\ [][Next]_vars

-----------------------------------------------------------------------------

\* The threads read_lock has counted and read_unlock has not yet uncounted.
Counted == {t \in Threads : pc[t] \in {"r_unlock", "reading", "ru_spin", "ru_dec"}}

\* The locations at which a thread holds m_lock.
Holding ==
  {"r_inc", "r_unlock", "ru_dec", "ru_unlock", "w_test", "w_backoff", "writing"}

TypeOK ==
  /\ locked \in {0, 1}
  /\ readers \in 0..(Wrap - 1)
  /\ pc \in [Threads -> Locations]

\* rwlock: a thread that returned from write_lock shares the lock with nobody.
\* No other thread has returned from write_lock, and none is between the return
\* of read_lock and the call of read_unlock.
WriterExcludesAll ==
  \A t, u \in Threads :
    pc[t] = "writing" /\ t # u => pc[u] \notin {"writing", "reading"}

\* rwlock: m_readers counts the readers exactly. The unsigned decrement of
\* read_unlock therefore never wraps, and a leftover count never keeps writers
\* out once the last reader has gone.
ReadersExact == readers = Cardinality(Counted)

\* spinlock: m_lock has exactly one holder while it is set and none while it is
\* clear, so the unconditional clear of unlock() never drops another's lock.
OneHolder ==
  /\ locked = 1 <=> \E t \in Threads : pc[t] \in Holding
  /\ \A t, u \in Threads : pc[t] \in Holding /\ pc[u] \in Holding => t = u

\* The inductive invariant: the three facts above and what ties a writer to the
\* count, that write_lock keeps m_lock from its test of m_readers on.
IInv ==
  /\ TypeOK
  /\ OneHolder
  /\ ReadersExact
  /\ \A t \in Threads : pc[t] = "writing" => readers = 0
=============================================================================
