----------------------------- MODULE Semaphore -----------------------------
(***************************************************************************)
(* condvar (kernel/sem.cpp) and the semaphore on top of it                 *)
(* (include/chariot/sem.h): two spinlocks, four sequence numbers and a     *)
(* wait queue. condvar::wait() never calls yield(): it queues itself, sets *)
(* its state, releases and retakes the lock, and looks; it is a timer tick *)
(* that takes the CPU from it, and then it sleeps until woken.             *)
(***************************************************************************)
EXTENDS Integers, FiniteSets

CONSTANTS
  Waiters, Posters,
  Initial,     \* the value the semaphore is made with
  MaxPosts,    \* the posts each poster makes
  MaxWaits,    \* the waits each waiter makes
  Signals,     \* may signals arrive?
  Ticks,       \* where a tick finds a thread about to sleep: "unlock", "relock"
  None

Callers == Waiters \union Posters

VARIABLES
  value, lock,                                    \* semaphore
  clock,                                          \* condvar::lock
  main_seq, wakeup_seq, woken_seq, nwaiters,      \* condvar
  wq,          \* the threads in condvar::wq
  blocked,     \* the threads whose state is not PS_RUNNING
  asleep,      \* those of them that are off their CPU
  intr,        \* the threads whose wait_entry::result is WAIT_RES_INTR
  seq,         \* seq[t]: wakeup_seq when t began to wait
  pc,
  calls        \* calls[t]: the calls t has finished

sema == <<value, lock>>
seqs == <<main_seq, wakeup_seq, woken_seq, nwaiters>>
sched == <<blocked, asleep, intr>>
vars == <<sema, clock, seqs, wq, sched, seq, pc, calls>>

Waiting == {"s_lock", "s_test", "c_lock", "c_enter", "prepare", "unlock", "look", "relock",
            "finish", "test", "leave", "s_relock", "i_lock", "i_leave", "i_relock", "i_end"}
Posting == {"p_lock", "p_add", "p_clock", "p_signal", "p_cunlock", "p_unlock"}

Init ==
  /\ value = Initial /\ lock = None
  /\ clock = None
  /\ main_seq = 0 /\ wakeup_seq = 0 /\ woken_seq = 0 /\ nwaiters = 0
  /\ wq = {} /\ blocked = {} /\ asleep = {} /\ intr = {}
  /\ seq = [t \in Callers |-> 0]
  /\ pc = [t \in Callers |-> "idle"]
  /\ calls = [t \in Callers |-> 0]

Run(t, from, to) == t \notin asleep /\ pc[t] = from /\ pc' = [pc EXCEPT ![t] = to]

\* spinlock::lock and unlock of the semaphore and of the condvar.
Lock(t, from, to) ==
  /\ Run(t, from, to) /\ lock = None /\ lock' = t
  /\ UNCHANGED <<value, clock, seqs, wq, sched, seq, calls>>
CLock(t, from, to) ==
  /\ Run(t, from, to) /\ clock = None /\ clock' = t
  /\ UNCHANGED <<sema, seqs, wq, sched, seq, calls>>

------------------------------------------------------------------------------
\* semaphore::wait and condvar::wait

wait(t) ==
  /\ calls[t] < MaxWaits
  /\ Run(t, "idle", "s_lock")
  /\ UNCHANGED <<sema, clock, seqs, wq, sched, seq, calls>>

\* while (value <= 0), and value-- once it is over.
TestValue(t) ==
  \/ /\ value <= 0
     /\ Run(t, "s_test", "c_lock")
     /\ UNCHANGED <<sema, clock, seqs, wq, sched, seq, calls>>
  \/ /\ value > 0
     /\ Run(t, "s_test", "idle")
     /\ value' = value - 1 /\ lock' = None
     /\ calls' = [calls EXCEPT ![t] = @ + 1]
     /\ UNCHANGED <<clock, seqs, wq, sched, seq>>

\* The semaphore's lock is released only with the condvar's held.
Enter(t) ==
  /\ Run(t, "c_enter", "prepare")
  /\ lock' = None
  /\ nwaiters' = nwaiters + 1
  /\ main_seq' = main_seq + 1
  /\ seq' = [seq EXCEPT ![t] = wakeup_seq]
  /\ UNCHANGED <<value, clock, wakeup_seq, woken_seq, wq, sched, calls>>

\* prepare_to_wait() and set_state().
Prepare(t) ==
  /\ Run(t, "prepare", "unlock")
  /\ wq' = wq \union {t}
  /\ blocked' = blocked \union {t}
  /\ intr' = intr \ {t}
  /\ UNCHANGED <<sema, clock, seqs, asleep, seq, calls>>

CUnlock(t, from, to) ==
  /\ Run(t, from, to)
  /\ clock' = None
  /\ UNCHANGED <<sema, seqs, wq, sched, seq, calls>>

\* A timer tick: a thread that is not in PS_RUNNING loses the CPU and does not
\* get it back.
Tick(t) ==
  /\ pc[t] \in Ticks /\ t \in blocked \ asleep
  /\ asleep' = asleep \union {t}
  /\ UNCHANGED <<sema, clock, seqs, wq, blocked, intr, seq, pc, calls>>

\* A signal makes the thread runnable and leaves it queued.
Interrupt(t) ==
  /\ Signals /\ t \in blocked
  /\ blocked' = blocked \ {t} /\ asleep' = asleep \ {t}
  /\ UNCHANGED <<sema, clock, seqs, wq, intr, seq, pc, calls>>

\* if (ent.result.interrupted())
Look(t) ==
  /\ Run(t, "look", IF t \in intr THEN "i_lock" ELSE "relock")
  /\ UNCHANGED <<sema, clock, seqs, wq, sched, seq, calls>>

\* finish_wait()
Finish(t) ==
  /\ Run(t, "finish", "test")
  /\ wq' = wq \ {t}
  /\ blocked' = blocked \ {t}
  /\ UNCHANGED <<sema, clock, seqs, asleep, intr, seq, calls>>

\* The way out of an interrupted wait, which leaves the sequence numbers alone.
IntrLeave(t) ==
  /\ Run(t, "i_leave", "i_relock")
  /\ nwaiters' = nwaiters - 1
  /\ clock' = None
  /\ UNCHANGED <<sema, main_seq, wakeup_seq, woken_seq, wq, sched, seq, calls>>
IntrEnd(t) ==
  /\ Run(t, "i_end", "idle")
  /\ lock' = None
  /\ calls' = [calls EXCEPT ![t] = @ + 1]
  /\ UNCHANGED <<value, clock, seqs, wq, sched, seq>>

\* while (val == seq || val == woken_seq)
TestSeq(t) ==
  \/ /\ wakeup_seq = seq[t] \/ wakeup_seq = woken_seq
     /\ Run(t, "test", "prepare")
     /\ UNCHANGED <<sema, clock, seqs, wq, sched, seq, calls>>
  \/ /\ wakeup_seq # seq[t] /\ wakeup_seq # woken_seq
     /\ Run(t, "test", "leave")
     /\ woken_seq' = woken_seq + 1
     /\ nwaiters' = nwaiters - 1
     /\ UNCHANGED <<sema, clock, main_seq, wakeup_seq, wq, sched, seq, calls>>

WaitStep(t) ==
  \/ Lock(t, "s_lock", "s_test") \/ TestValue(t)
  \/ CLock(t, "c_lock", "c_enter") \/ Enter(t) \/ Prepare(t)
  \/ CUnlock(t, "unlock", "look") \/ Look(t) \/ CLock(t, "relock", "finish") \/ Finish(t)
  \/ TestSeq(t) \/ CUnlock(t, "leave", "s_relock") \/ Lock(t, "s_relock", "s_test")
  \/ CLock(t, "i_lock", "i_leave") \/ IntrLeave(t) \/ Lock(t, "i_relock", "i_end")
  \/ IntrEnd(t)

------------------------------------------------------------------------------
\* semaphore::post and condvar::signal

post(t) ==
  /\ calls[t] < MaxPosts
  /\ Run(t, "idle", "p_lock")
  /\ UNCHANGED <<sema, clock, seqs, wq, sched, seq, calls>>

AddValue(t) ==
  /\ Run(t, "p_add", "p_clock")
  /\ value' = value + 1
  /\ UNCHANGED <<lock, clock, seqs, wq, sched, seq, calls>>

\* Mutants of signal: nobody is asked whether someone waits; the test is one
\* off.
signalAlways(t) ==
  /\ Run(t, "p_signal", "p_cunlock")
  /\ wakeup_seq' = wakeup_seq + 1
  /\ blocked' = blocked \ wq /\ asleep' = asleep \ wq /\ wq' = {}
  /\ UNCHANGED <<sema, clock, main_seq, woken_seq, nwaiters, intr, seq, calls>>
signalOneOff(t) ==
  /\ Run(t, "p_signal", "p_cunlock")
  /\ \/ /\ main_seq > wakeup_seq + 1
        /\ wakeup_seq' = wakeup_seq + 1
        /\ blocked' = blocked \ wq /\ asleep' = asleep \ wq /\ wq' = {}
        /\ \E hit \in SUBSET (IF Signals THEN wq ELSE {}) : intr' = intr \union hit
     \/ /\ ~(main_seq > wakeup_seq + 1)
        /\ UNCHANGED <<wakeup_seq, sched, wq>>
  /\ UNCHANGED <<sema, clock, main_seq, woken_seq, nwaiters, seq, calls>>

\* wake_up() wakes every entry of wq, none being exclusive. An entry whose
\* thread is sent a signal meanwhile is marked interrupted (WaitQueue.tla has
\* the steps of that race).
signal(t) ==
  /\ Run(t, "p_signal", "p_cunlock")
  /\ \/ /\ main_seq > wakeup_seq
        /\ wakeup_seq' = wakeup_seq + 1
        /\ blocked' = blocked \ wq /\ asleep' = asleep \ wq /\ wq' = {}
        /\ \E hit \in SUBSET (IF Signals THEN wq ELSE {}) : intr' = intr \union hit
     \/ /\ ~(main_seq > wakeup_seq)
        /\ UNCHANGED <<wakeup_seq, sched, wq>>
  /\ UNCHANGED <<sema, clock, main_seq, woken_seq, nwaiters, seq, calls>>

PostEnd(t) ==
  /\ Run(t, "p_unlock", "idle")
  /\ lock' = None
  /\ calls' = [calls EXCEPT ![t] = @ + 1]
  /\ UNCHANGED <<value, clock, seqs, wq, sched, seq>>

PostStep(t) ==
  \/ Lock(t, "p_lock", "p_add") \/ AddValue(t) \/ CLock(t, "p_clock", "p_signal")
  \/ signal(t) \/ CUnlock(t, "p_cunlock", "p_unlock") \/ PostEnd(t)

Next ==
  \/ \E t \in Waiters : wait(t) \/ WaitStep(t) \/ Tick(t) \/ Interrupt(t)
  \/ \E t \in Posters : post(t) \/ PostStep(t)

Spec == Init /\ [][Next]_vars

\* A thread that is not asleep gets a CPU, and whoever keeps trying a spinlock
\* gets it in the end. Nobody has to call wait() or post().
Fairness ==
  /\ \A t \in Waiters : SF_vars(WaitStep(t))
  /\ \A t \in Posters : SF_vars(PostStep(t))

LiveSpec == Spec /\ Fairness
------------------------------------------------------------------------------
TypeOK ==
  /\ value \in Nat
  /\ lock \in Callers \union {None} /\ clock \in Callers \union {None}
  /\ main_seq \in Nat /\ wakeup_seq \in Nat /\ woken_seq \in Nat /\ nwaiters \in Nat
  /\ wq \subseteq Waiters /\ asleep \subseteq blocked /\ blocked \subseteq Waiters
  /\ intr \subseteq Waiters
  /\ seq \in [Callers -> Nat]
  /\ pc \in [Callers -> Waiting \union Posting \union {"idle"}]
  /\ calls \in [Callers -> Nat]

\* condvar: the sequence numbers stay in order through interrupted waits, and
\* they leave room for every thread that is inside wait(), so that signal()
\* never takes the queue to be empty while one of them waits for it.
SeqsInOrder ==
  LET inside == {t \in Waiters : pc[t] \in {"prepare", "unlock", "look", "relock", "finish",
                                            "test", "i_lock", "i_leave"}} IN
  /\ woken_seq <= wakeup_seq /\ wakeup_seq <= main_seq
  /\ nwaiters = Cardinality(inside)
  /\ nwaiters <= main_seq - woken_seq
  /\ \A t \in wq : seq[t] = wakeup_seq => main_seq > wakeup_seq

\* semaphore: a wait() does not stay inside while the semaphore has a value to
\* take, whatever the order of posts, ticks, signals and other waits; unless a
\* tick found a thread between set_state() and unlock(), and it sleeps with the
\* condvar's lock.
ValueIsTaken ==
  value > 0 /\ (\E t \in Waiters : pc[t] # "idle")
    ~> \/ value = 0 \/ \A t \in Waiters : pc[t] = "idle"
       \/ [](clock \in asleep)

\* condvar::wait() is to "release the lock and go to sleep": nobody sleeps with
\* one of the two locks.
SleepersHoldNoLock == lock \notin asleep /\ clock \notin asleep
=============================================================================
