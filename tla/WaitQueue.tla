----------------------------- MODULE WaitQueue -----------------------------
(***************************************************************************)
(* The kernel's wait queues (kernel/wait.cpp, include/chariot/wait.h) with *)
(* the thread states and the interruption by signals they rest on          *)
(* (kernel/sched/core.cpp, kernel/thread.cpp).                             *)
(*                                                                         *)
(* An entry <<t, i>> is the wait_entry that t keeps on its stack for the   *)
(* i-th queue of its call; wait(), wait_exclusive() and prepare_to_wait()  *)
(* have one, multi_wait() one per queue. A queue is the task_list, head    *)
(* first. Interrupts are off exactly while a thread holds a queue's lock   *)
(* (lock_irqsave), so a tick can take the CPU from it anywhere else.       *)
(* There are as many CPUs as threads.                                      *)
(***************************************************************************)
EXTENDS Integers, Lists

CONSTANTS
  Threads,
  Queues,
  Calls,    \* the calls threads make, records of AllCalls
  None      \* nobody holds the lock

RUNNING == "PS_RUNNING"
INTERRUPTIBLE == "PS_INTERRUPTIBLE"
UNINTERRUPTIBLE == "PS_UNINTERRUPTIBLE"
States == {RUNNING, INTERRUPTIBLE, UNINTERRUPTIBLE}

WaitKinds == {"wait", "prepare", "multi_wait"}
Kinds == WaitKinds \union {"wake", "signal"}

\* kind, the queues named, exclusive or not, the state to sleep in, and for a
\* wake-up the nr_exclusive argument (0 in wake_up_all, 1 in wake_up).
AllCalls == [kind : Kinds, qs : Seq(Queues) \ {<<>>}, excl : BOOLEAN,
             st : {INTERRUPTIBLE, UNINTERRUPTIBLE}, nr : Nat]

\* A thread does not name one queue twice in a multi_wait: the second
\* lock_irqsave would spin on a lock the thread itself holds.
ASSUME CallsAssumption ==
  /\ Calls # {} /\ Calls \subseteq AllCalls
  /\ \A c \in Calls :
       /\ \A i, j \in DOMAIN c.qs : c.qs[i] = c.qs[j] => i = j
       /\ c.kind # "multi_wait" => Len(c.qs) = 1
ASSUME NoneAssumption == None \notin Threads

VARIABLES
  state,    \* thread::state
  oncpu,    \* is the thread on a CPU?
  rudely,   \* thread::wq.rudely_awoken
  pending,  \* has thread::sig.pending a signal in it?
  lock,     \* the holder of wait_queue::lock
  queue,    \* wait_queue::task_list, a sequence of entries
  pc,       \* where each thread is
  op,       \* the call each thread is in
  idx,      \* the loop counter over op.qs; in a wake-up what is left of nr_exclusive
  target,   \* the thread a signal is for
  awoken,   \* the entries of the call a waker reached (multi_wake_entry::awoken)
  intr,     \* the entries whose result has WAIT_RES_INTR
  ret,      \* what the call returned: an index, 0 for success, -EINTR
  first     \* history: the entry a waker reached first

vars == <<state, oncpu, rudely, pending, lock, queue, pc, op, idx, target,
          awoken, intr, ret, first>>
sched == <<state, oncpu, rudely, pending>>
wq == <<lock, queue>>
entry == <<awoken, intr, ret, first>>

EINTR == -1
Waiting == {"lock", "set_state", "link", "check", "yield", "resume", "which",
            "finish", "careful", "unlink"}
Waking == {"wake_lock", "wake", "wake_entry", "wake_unlock"}
Signalling == {"sig_pend", "sig_check", "sig_rude", "sig_state"}
Locations == {"idle"} \union Waiting \union Waking \union Signalling

Entries == Threads \X (Nat \ {0})
Members(q) == Range(queue[q])
QueueOf(e) == op[e[1]].qs[e[2]]

NoCall == CHOOSE c \in Calls : TRUE

Init ==
  /\ state = [t \in Threads |-> RUNNING]
  /\ oncpu = [t \in Threads |-> TRUE]
  /\ rudely = [t \in Threads |-> FALSE]
  /\ pending = [t \in Threads |-> FALSE]
  /\ lock = [q \in Queues |-> None]
  /\ queue = [q \in Queues |-> <<>>]
  /\ pc = [t \in Threads |-> "idle"]
  /\ op = [t \in Threads |-> NoCall]
  /\ idx = [t \in Threads |-> 0]
  /\ target = [t \in Threads |-> t]
  /\ awoken = [t \in Threads |-> {}]
  /\ intr = [t \in Threads |-> {}]
  /\ ret = [t \in Threads |-> 0]
  /\ first = [t \in Threads |-> 0]

At(t, from) == pc[t] = from /\ oncpu[t]
Goto(t, to) == pc' = [pc EXCEPT ![t] = to]

\* A thread outside the wait queues makes a call. On its way out of the kernel
\* it has taken its signals (claim_next_signal).
Call(t, c, u) ==
  /\ At(t, "idle")
  /\ op' = [op EXCEPT ![t] = c]
  /\ target' = [target EXCEPT ![t] = u]
  /\ c.kind = "signal" <=> u # t
  /\ idx' = [idx EXCEPT ![t] = IF c.kind = "wake" THEN c.nr ELSE 1]
  /\ pending' = [pending EXCEPT ![t] = FALSE]
  /\ Goto(t, CASE c.kind = "wake" -> "wake_lock"
               [] c.kind = "signal" -> "sig_pend"
               [] OTHER -> "lock")
  /\ UNCHANGED <<state, oncpu, rudely, wq, entry>>

Return(t) ==
  /\ Goto(t, "idle")
  /\ op' = [op EXCEPT ![t] = NoCall]
  /\ target' = [target EXCEPT ![t] = t]
  /\ idx' = [idx EXCEPT ![t] = 0]
  /\ awoken' = [awoken EXCEPT ![t] = {}]
  /\ intr' = [intr EXCEPT ![t] = {}]
  /\ ret' = [ret EXCEPT ![t] = 0]
  /\ first' = [first EXCEPT ![t] = 0]

-----------------------------------------------------------------------------
(* Waiting *)

\* lock_irqsave on the next queue of the call: every queue in turn in
\* multi_wait, the only one elsewhere.
LockQueue(t) ==
  LET q == op[t].qs[idx[t]] IN
  /\ At(t, "lock")
  /\ lock[q] = None
  /\ lock' = [lock EXCEPT ![q] = t]
  /\ IF idx[t] = Len(op[t].qs)
       THEN Goto(t, "set_state") /\ UNCHANGED idx
       ELSE idx' = [idx EXCEPT ![t] = @ + 1] /\ UNCHANGED pc
  /\ UNCHANGED <<sched, queue, op, target, entry>>

\* sched::set_state(state), every lock held.
SetState(t) ==
  /\ At(t, "set_state")
  /\ state' = [state EXCEPT ![t] = op[t].st]
  /\ Goto(t, "link")
  /\ UNCHANGED <<oncpu, rudely, pending, wq, op, idx, target, entry>>

\* Mutants of Insert: the old list is dropped; exclusive entries go first too.
InsertAlone(s, e, c) == <<e>>
InsertAtHead(s, e, c) == <<e>> \o s

\* wait and prepare_to_wait add their entry at the head, the exclusive forms at
\* the tail, multi_wait at the head whether or not it is exclusive.
Insert(s, e, c) ==
  IF c.excl /\ c.kind # "multi_wait" THEN Append(s, e) ELSE <<e>> \o s

\* The entries are added and the locks released. Nobody else looks at a queue
\* before its lock is released, so this is one step.
Link(t) ==
  LET c == op[t] IN
  /\ At(t, "link")
  /\ queue' = [q \in Queues |->
       IF \E i \in DOMAIN c.qs : c.qs[i] = q
         THEN Insert(queue[q], <<t, CHOOSE i \in DOMAIN c.qs : c.qs[i] = q>>, c)
         ELSE queue[q]]
  /\ lock' = [q \in Queues |-> IF lock[q] = t THEN None ELSE lock[q]]
  /\ Goto(t, IF c.kind = "prepare" THEN "check" ELSE "yield")
  /\ UNCHANGED <<sched, op, idx, target, entry>>

\* Between prepare_to_wait and yield the caller looks at its condition.
Check(t) ==
  /\ At(t, "check")
  /\ Goto(t, "yield") \/ Goto(t, "finish")
  /\ UNCHANGED <<sched, wq, op, idx, target, entry>>

\* sched::yield gives the CPU up, whatever the state of the thread.
Yield(t) ==
  /\ At(t, "yield")
  /\ oncpu' = [oncpu EXCEPT ![t] = FALSE]
  /\ Goto(t, "resume")
  /\ UNCHANGED <<state, rudely, pending, wq, op, idx, target, entry>>

\* The scheduler picks threads that are PS_RUNNING only.
Dispatch(t) ==
  /\ ~oncpu[t]
  /\ state[t] = RUNNING
  /\ oncpu' = [oncpu EXCEPT ![t] = TRUE]
  /\ UNCHANGED <<state, rudely, pending, wq, pc, op, idx, target, entry>>

\* handle_tick counts the tick before it looks at the thread's state, and
\* before_iret yields on the count alone: the state does not matter.
Preempt(t) ==
  /\ oncpu[t]
  /\ pc[t] # "idle"
  /\ \A q \in Queues : lock[q] # t
  /\ oncpu' = [oncpu EXCEPT ![t] = FALSE]
  /\ UNCHANGED <<state, rudely, pending, wq, pc, op, idx, target, entry>>

\* wait_entry::start after yield: the result of wait() and prepare_to_wait().
Resume(t) ==
  /\ At(t, "resume")
  /\ intr' = [intr EXCEPT ![t] =
       IF op[t].kind # "multi_wait" /\ rudely[t] THEN @ \union {1} ELSE @]
  /\ ret' = [ret EXCEPT ![t] =
       IF op[t].kind # "multi_wait" /\ 1 \in intr'[t] THEN EINTR ELSE 0]
  /\ idx' = [idx EXCEPT ![t] = 1]
  /\ Goto(t, IF op[t].kind = "multi_wait" THEN "which" ELSE "finish")
  /\ UNCHANGED <<sched, wq, op, target, awoken, first>>

\* multi_wait looks for the first of its entries, in its own order, that a
\* waker reached; none means it was interrupted.
Which(t) ==
  LET i == idx[t] IN
  /\ At(t, "which")
  /\ \/ /\ i \in awoken[t]
        /\ ret' = [ret EXCEPT ![t] = IF i \in intr[t] THEN EINTR ELSE i]
        /\ Goto(t, "finish") /\ idx' = [idx EXCEPT ![t] = Len(op[t].qs)]
     \/ /\ i \notin awoken[t] /\ i < Len(op[t].qs)
        /\ idx' = [idx EXCEPT ![t] = i + 1]
        /\ UNCHANGED <<pc, ret>>
     \/ /\ i \notin awoken[t] /\ i = Len(op[t].qs)
        /\ ret' = [ret EXCEPT ![t] = EINTR]
        /\ Goto(t, "finish") /\ UNCHANGED idx
  /\ UNCHANGED <<sched, wq, op, target, awoken, intr, first>>

\* wait_queue::finish, run for each entry as it is destroyed, the last first.
Finish(t) ==
  /\ At(t, "finish")
  /\ state' = [state EXCEPT ![t] = RUNNING]
  /\ Goto(t, "careful")
  /\ UNCHANGED <<oncpu, rudely, pending, wq, op, idx, target, entry>>

\* The next entry to destroy, or the end of the call.
NextEntry(t) ==
  IF idx[t] = 1
    THEN Return(t)
    ELSE /\ idx' = [idx EXCEPT ![t] = @ - 1]
         /\ Goto(t, "finish")
         /\ UNCHANGED <<op, target, entry>>

\* Mutant of Careful: finish() relies on the waker to have unlinked the entry.
CarefulNever(t) ==
  /\ At(t, "careful")
  /\ NextEntry(t)
  /\ UNCHANGED <<sched, wq>>

\* The unlocked look at the entry's links (is_empty_careful).
Careful(t) ==
  LET e == <<t, idx[t]>> IN
  /\ At(t, "careful")
  /\ IF e \in Members(QueueOf(e))
       THEN Goto(t, "unlink") /\ UNCHANGED <<op, idx, target, entry>>
       ELSE NextEntry(t)
  /\ UNCHANGED <<sched, wq>>

\* The lock is taken, the entry unlinked and the lock released.
Unlink(t) ==
  LET e == <<t, idx[t]>>
      q == QueueOf(e) IN
  /\ At(t, "unlink")
  /\ lock[q] = None
  /\ queue' = [queue EXCEPT ![q] = Del(@, e)]
  /\ NextEntry(t)
  /\ UNCHANGED <<sched, lock>>

-----------------------------------------------------------------------------
(* Waking up: __wake_up and wake_up_common *)

WakeLock(t) ==
  LET q == op[t].qs[1] IN
  /\ At(t, "wake_lock")
  /\ lock[q] = None
  /\ lock' = [lock EXCEPT ![q] = t]
  /\ Goto(t, "wake")
  /\ UNCHANGED <<sched, queue, op, idx, target, entry>>

\* Mutant of Unblock: the early return that the code has under #if 0.
UnblockChecked(u, interrupt) ==
  /\ IF state[u] = INTERRUPTIBLE
       THEN /\ rudely' = [rudely EXCEPT ![u] = interrupt]
            /\ state' = [state EXCEPT ![u] = RUNNING]
       ELSE UNCHANGED <<rudely, state>>
  /\ UNCHANGED <<oncpu, pending>>

\* sched::unblock(thd, interrupt)
Unblock(u, interrupt) ==
  /\ rudely' = [rudely EXCEPT ![u] = interrupt]
  /\ state' = [state EXCEPT ![u] = RUNNING]
  /\ UNCHANGED <<oncpu, pending>>

\* The wake function's first half: the entry is marked and its thread made
\* runnable. Every entry visited leaves the list, so the next one is the head.
WakeEntry(t) ==
  LET q == op[t].qs[1]
      e == Head(queue[q]) IN
  /\ At(t, "wake")
  /\ queue[q] # <<>>
  /\ Unblock(e[1], FALSE)
  /\ awoken' = [awoken EXCEPT ![e[1]] = @ \union {e[2]}]
  /\ first' = [first EXCEPT ![e[1]] = IF @ = 0 THEN e[2] ELSE @]
  /\ Goto(t, "wake_entry")
  /\ UNCHANGED <<wq, op, idx, target, intr, ret>>

\* Its second half: the result, the unlinking, and the count of exclusive
\* entries; 0 counts down past zero and never stops the loop.
AutoRemove(t) ==
  LET q == op[t].qs[1]
      e == Head(queue[q])
      stop == op[e[1]].excl /\ idx[t] = 1 IN
  /\ At(t, "wake_entry")
  /\ intr' = [intr EXCEPT ![e[1]] =
       IF rudely[e[1]] THEN @ \union {e[2]} ELSE @ \ {e[2]}]
  /\ queue' = [queue EXCEPT ![q] = Tail(@)]
  /\ idx' = [idx EXCEPT ![t] = IF op[e[1]].excl /\ @ # 0 THEN @ - 1 ELSE @]
  /\ Goto(t, IF stop THEN "wake_unlock" ELSE "wake")
  /\ UNCHANGED <<sched, lock, op, target, awoken, ret, first>>

\* Mutant of WakeUnlock: leaving the loop early leaves the lock held.
WakeUnlockForgets(t) ==
  LET q == op[t].qs[1] IN
  /\ \/ At(t, "wake") /\ queue[q] = <<>> /\ lock' = [lock EXCEPT ![q] = None]
     \/ At(t, "wake_unlock") /\ UNCHANGED lock
  /\ Return(t)
  /\ UNCHANGED <<sched, queue>>

WakeUnlock(t) ==
  LET q == op[t].qs[1] IN
  /\ \/ At(t, "wake") /\ queue[q] = <<>>
     \/ At(t, "wake_unlock")
  /\ lock' = [lock EXCEPT ![q] = None]
  /\ Return(t)
  /\ UNCHANGED <<sched, queue>>

-----------------------------------------------------------------------------
(* thread::send_signal, without any lock *)

SigPend(t) ==
  /\ At(t, "sig_pend")
  /\ pending' = [pending EXCEPT ![target[t]] = TRUE]
  /\ Goto(t, "sig_check")
  /\ UNCHANGED <<state, oncpu, rudely, wq, op, idx, target, entry>>

\* if (state == PS_INTERRUPTIBLE) this->interrupt()
SigCheck(t) ==
  /\ At(t, "sig_check")
  /\ IF state[target[t]] = INTERRUPTIBLE
       THEN Goto(t, "sig_rude") /\ UNCHANGED <<op, idx, target, entry>>
       ELSE Return(t)
  /\ UNCHANGED <<sched, wq>>

\* The two stores of unblock(*this, true), made while the target runs on.
SigRude(t) ==
  /\ At(t, "sig_rude")
  /\ rudely' = [rudely EXCEPT ![target[t]] = TRUE]
  /\ Goto(t, "sig_state")
  /\ UNCHANGED <<state, oncpu, pending, wq, op, idx, target, entry>>

SigState(t) ==
  /\ At(t, "sig_state")
  /\ state' = [state EXCEPT ![target[t]] = RUNNING]
  /\ Return(t)
  /\ UNCHANGED <<oncpu, rudely, pending, wq>>

Step(t) ==
  \/ LockQueue(t) \/ SetState(t) \/ Link(t) \/ Check(t) \/ Yield(t)
  \/ Resume(t) \/ Which(t) \/ Finish(t) \/ Careful(t) \/ Unlink(t)
  \/ WakeLock(t) \/ WakeEntry(t) \/ AutoRemove(t) \/ WakeUnlock(t)
  \/ SigPend(t) \/ SigCheck(t) \/ SigRude(t) \/ SigState(t)

Next == \E t \in Threads :
  \/ \E c \in Calls, u \in Threads : Call(t, c, u)
  \/ Step(t) \/ Dispatch(t) \/ Preempt(t)

Spec == Init /\ [][Next]_vars

\* Dispatch: the scheduler visits every runnable thread. Step: a thread that
\* can move again and again, as one that contends for a spinlock, moves. And
\* has_run starts from 0 at every switch_into, so a time slice is long enough
\* for a thread that spins: it is not preempted for ever without moving.
Fairness ==
  \A t \in Threads :
    /\ WF_vars(Dispatch(t))
    /\ SF_vars(Step(t))
    /\ []<><<Step(t)>>_vars \/ <>[][~Preempt(t)]_vars

FairSpec == Spec /\ Fairness

-----------------------------------------------------------------------------
(* Properties *)

\* Type correctness of the thread, queue and call state of kernel/wait.cpp.
TypeOK ==
  /\ state \in [Threads -> States]
  /\ oncpu \in [Threads -> BOOLEAN]
  /\ rudely \in [Threads -> BOOLEAN]
  /\ pending \in [Threads -> BOOLEAN]
  /\ lock \in [Queues -> Threads \union {None}]
  /\ queue \in [Queues -> Seq(Entries)]
  /\ pc \in [Threads -> Locations]
  /\ op \in [Threads -> Calls]
  /\ idx \in [Threads -> Nat]
  /\ target \in [Threads -> Threads]
  /\ awoken \in [Threads -> SUBSET (Nat \ {0})]
  /\ intr \in [Threads -> SUBSET (Nat \ {0})]
  /\ ret \in [Threads -> Nat \union {EINTR}]
  /\ first \in [Threads -> Nat]

\* No wake-up is lost: a thread that is still asleep, or about to be, in
\* wait(), wait_exclusive(), prepare_to_wait() or multi_wait() is on every
\* queue it named, and no waker has reached any of its entries.
SleeperIsQueued ==
  \A t \in Threads :
    pc[t] \in {"check", "yield", "resume"} /\ state[t] # RUNNING =>
      /\ awoken[t] = {}
      /\ \A i \in DOMAIN op[t].qs : <<t, i>> \in Members(op[t].qs[i])

\* A queue holds no entry twice and no entry of a call that has returned: the
\* entries live on the stack of the waiting thread, and finish() must have
\* unlinked each one before wait() returns.
NoDanglingEntry ==
  \A q \in Queues :
    /\ \A e \in Members(q) :
         /\ pc[e[1]] \in Waiting
         /\ op[e[1]].kind \in WaitKinds
         /\ e[2] \in DOMAIN op[e[1]].qs
         /\ QueueOf(e) = q
    /\ IsInjective(queue[q])

\* wait_exclusive() appends and the others prepend, so a wake_up() that stops at
\* a waiter of wait_exclusive() has woken every non-exclusive one by then.
\* (Not so when it stops at an exclusive multi_wait(), which prepends too.)
NonExclusiveFirst ==
  \A q \in Queues : \A j, k \in DOMAIN queue[q] :
    LET front == op[queue[q][j][1]]
        behind == op[queue[q][k][1]]
    IN j < k /\ front.excl /\ front.kind = "wait" => behind.excl

\* The queue locks never leave threads waiting for each other: the system stops
\* only when every thread is asleep. (multi_wait() holds one queue's lock while
\* it spins for the next, so this needs callers that agree on an order.)
OnlySleepStops ==
  LET asleep(t) == ~oncpu[t] /\ state[t] # RUNNING IN
  \/ \A t \in Threads : asleep(t)
  \/ \E t \in Threads : \/ ~oncpu[t] /\ ~asleep(t)
                        \/ oncpu[t] /\ (pc[t] = "idle" \/ ENABLED Step(t))

\* A thread whose entry a waker has reached comes back from its call.
WokenReturns == \A t \in Threads : awoken[t] # {} ~> pc[t] = "idle"

-----------------------------------------------------------------------------
(* The inductive invariant behind SleeperIsQueued and NoDanglingEntry *)

\* Where the entries of a call are, or have been, on their queues.
Linked == {"check", "yield", "resume", "which", "finish", "careful", "unlink"}

\* The loop counter is a position of op.qs; when the loop over the locks is
\* done it is the last one.
CallOK(t) ==
  /\ pc[t] \in Waiting => op[t].kind \in WaitKinds /\ idx[t] \in DOMAIN op[t].qs
  /\ pc[t] \in {"set_state", "link", "check"} => idx[t] = Len(op[t].qs)
CallsOK == \A t \in Threads : CallOK(t)

\* Whether t's call holds the lock of q here.
Holds(t, q) ==
  \/ pc[t] = "lock" /\ \E i \in 1..(idx[t] - 1) : op[t].qs[i] = q
  \/ pc[t] \in {"set_state", "link"} /\ \E i \in DOMAIN op[t].qs : op[t].qs[i] = q
  \/ pc[t] \in {"wake", "wake_entry", "wake_unlock"} /\ op[t].qs[1] = q

LocksOK == \A q \in Queues : \A t \in Threads : lock[q] = t <=> Holds(t, q)

\* An entry on a queue is of a call that is between Link and the unlinking of
\* that entry.
EntriesOK ==
  \A q \in Queues :
    /\ IsInjective(queue[q])
    /\ \A e \in Range(queue[q]) :
         /\ pc[e[1]] \in Linked
         /\ e[2] \in DOMAIN op[e[1]].qs
         /\ op[e[1]].qs[e[2]] = q
         /\ pc[e[1]] \in {"finish", "careful", "unlink"} => e[2] <= idx[e[1]]

\* The entry a waker is about to unlink is of a thread it has made runnable.
WakersOK ==
  \A t \in Threads :
    pc[t] = "wake_entry" =>
      /\ queue[op[t].qs[1]] # <<>>
      /\ state[Head(queue[op[t].qs[1]])[1]] = RUNNING

AwokenOK == \A t \in Threads : pc[t] \notin Linked => awoken[t] = {}

IInv ==
  /\ TypeOK /\ CallsOK /\ LocksOK /\ EntriesOK /\ WakersOK /\ AwokenOK
  /\ SleeperIsQueued

-----------------------------------------------------------------------------
(* What comments of the code say of it *)

\* "We don't get preempted if we aren't currently runnable. See wait.cpp for
\* why" (handle_tick, kernel/sched/core.cpp).
PreemptOnlyRunnable ==
  [][\A t \in Threads :
       oncpu[t] /\ ~oncpu'[t] /\ pc'[t] = pc[t] => state[t] = RUNNING]_vars

\* "these functions return if they were successful in waking or not"
\* (wait_entry_func_t, include/chariot/wait.h): autoremove_wake_function says
\* yes only for a thread that was asleep.
WakeMeansWoken ==
  [][\A t \in Threads :
       pc[t] = "wake" /\ pc'[t] = "wake_entry" =>
         state[Head(queue[op[t].qs[1]])[1]] # RUNNING]_vars

\* "Wait for several wait queues, returning the index of the queue that woke
\* first, or -EINTR" (multi_wait, include/chariot/wait.h).
FirstQueueReturned ==
  \A t \in Threads :
    pc[t] = "finish" /\ op[t].kind = "multi_wait" => ret[t] \in {first[t], EINTR}

\* "Notify a thread that a signal is available, interrupting it from a
\* waitqueue if there is one" (thread::interrupt, include/chariot/sched.h): a
\* thread with a pending signal does not stay in an interruptible wait.
SignalEndsWait == \A t \in Threads : pending[t] ~> pc[t] = "idle"

\* "we must go through each of the queues and take their lock" (multi_wait,
\* kernel/wait.cpp): a call gets all the locks it goes through.
LocksAreTaken == \A t \in Threads : pc[t] = "lock" ~> pc[t] # "lock"
====
