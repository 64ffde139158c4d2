------------------------------- MODULE MCSync -------------------------------
(***************************************************************************)
(* What threads synchronise with, one piece of it in each behaviour: a     *)
(* rwlock with three threads (RWLock), the run queues of a CPU with four   *)
(* threads (RunQueue), a semaphore with two waiters and a poster           *)
(* (Semaphore), and usleep() with three threads of a CPU (Sleep).          *)
(***************************************************************************)
EXTENDS SyncParts

CONSTANTS Tasks, NQueues

VARIABLES part, mem, runnable

tasks == <<mem, runnable>>
sema == <<value, slock, clock, main_seq, wakeup_seq, woken_seq, nwaiters, wq, blocked, asleep,
          intr, seq, where, calls>>
timers == <<now, sleepers, snext, sprev, cpu, wakeup_us, spc, queued, ret, ticking, blk, since>>
all == <<part, vars, tasks, sema, timers>>

Queue == INSTANCE RunQueue WITH Threads <- Tasks, NULL <- None

MCInit ==
  /\ part \in {"RWLock", "RunQueue", "Semaphore", "Sleep"}
  /\ Init /\ Queue!Init /\ Sema!Init /\ Timer!Init

InSema == part = "Semaphore" /\ UNCHANGED <<part, vars, tasks, timers>>
InTimer == part = "Sleep" /\ UNCHANGED <<part, vars, tasks, sema>>

\* The semaphore's calls are bounded, so that it may come to rest; the others go
\* on for ever.
MCNext ==
  \/ part = "RWLock" /\ Next /\ UNCHANGED <<part, tasks, sema, timers>>
  \/ part = "RunQueue" /\ Queue!Next /\ UNCHANGED <<part, vars, sema, timers>>
  \/ InSema /\ (Sema!Next \/ UNCHANGED sema)
  \/ InTimer /\ Timer!Next

\* The fairness of Semaphore!LiveSpec and Sleep!LiveSpec, each for its part.
GoesOn(t) ==
  \/ InSema /\ t \in Waiters /\ Sema!WaitStep(t)
  \/ InSema /\ t \in Posters /\ Sema!PostStep(t)
  \/ InTimer /\ t \in Threads /\ Timer!ThreadStep(t)

MCFairness ==
  /\ \A t \in Threads \union Sema!Callers : SF_all(GoesOn(t))
  /\ WF_timers(part = "Sleep" /\ Timer!Advance)
  /\ \A c \in Cpus :
       WF_timers(part = "Sleep" /\ Timer!Tick(c)) /\ WF_timers(part = "Sleep" /\ Timer!TickStep(c))

MCSpec == MCInit /\ [][MCNext]_all /\ MCFairness
------------------------------------------------------------------------------
\* mlfq::queue: the linked queues implement lists of threads.
ImplementsTaskLists == Queue!ImplementsTaskLists
=============================================================================
