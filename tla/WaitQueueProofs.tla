-------------------------- MODULE WaitQueueProofs --------------------------
(***************************************************************************)
(* No wake-up is lost and no entry dangles, for every set of threads,      *)
(* queues and calls. IInv is inductive: SleeperIsQueued alone is not, it   *)
(* needs that the entry a waker unlinks is of a thread the waker has made  *)
(* runnable (WakersOK), that the queue cannot change under the waker       *)
(* (LocksOK), and that entries belong to calls in progress (EntriesOK).    *)
(***************************************************************************)
EXTENDS WaitQueue, ListLemmas

\* A step is for Zenon unless it names another prover.
USE Zenon

\* The queues of a call are distinct queues, and only multi_wait has several.
LEMMA OpOK ==
  ASSUME TypeOK
  PROVE  \A t \in Threads :
           /\ op[t] \in AllCalls
           /\ op[t].qs \in Seq(Queues) /\ op[t].qs # <<>> /\ Len(op[t].qs) >= 1
           /\ DOMAIN op[t].qs = 1..Len(op[t].qs)
           /\ \A i \in DOMAIN op[t].qs : op[t].qs[i] \in Queues
           /\ \A i, j \in DOMAIN op[t].qs : op[t].qs[i] = op[t].qs[j] => i = j
           /\ op[t].kind # "multi_wait" => Len(op[t].qs) = 1
<1> TAKE t \in Threads
<1>1. op[t] \in Calls /\ op[t] \in AllCalls
  BY CallsAssumption DEF TypeOK
<1>2. op[t].qs \in Seq(Queues) /\ op[t].qs # <<>>
  BY <1>1 DEF AllCalls
<1>3. Len(op[t].qs) >= 1 /\ DOMAIN op[t].qs = 1..Len(op[t].qs)
  BY <1>2, SMT
<1> QED BY <1>1, <1>2, <1>3, CallsAssumption, SMT

\* An entry on a list is a thread and the position of the queue in its call.
LEMMA EntryOK ==
  ASSUME TypeOK
  PROVE  \A q \in Queues : \A e \in Range(queue[q]) :
           e[1] \in Threads /\ e[2] \in Nat \ {0} /\ e = <<e[1], e[2]>>
BY SMT DEF TypeOK, Entries, Range

\* The invariant holds before any call is made.
LEMMA InitIInv == Init => IInv
<1> SUFFICES ASSUME Init PROVE IInv
  OBVIOUS
<1> USE DEF Init
<1>0. NoCall \in Calls
  BY CallsAssumption DEF NoCall
<1>1. TypeOK
  BY <1>0, SMT DEF TypeOK, States, Locations, Entries
<1>2. CallsOK /\ LocksOK
  BY NoneAssumption DEF CallsOK, CallOK, LocksOK, Holds, Waiting
<1>3. EntriesOK
  BY SMT DEF EntriesOK, Range, IsInjective
<1>4. WakersOK /\ AwokenOK /\ SleeperIsQueued
  BY DEF WakersOK, AwokenOK, SleeperIsQueued
<1> QED BY <1>1, <1>2, <1>3, <1>4 DEF IInv

\* What a step of t leaves alone.
Others(t) ==
  \A u \in Threads \ {t} : pc'[u] = pc[u] /\ op'[u] = op[u] /\ idx'[u] = idx[u]

NoEntries(t) == \A q \in Queues : \A e \in Range(queue[q]) : e[1] # t
Sleepy == {"check", "yield", "resume"}
Ending == {"finish", "careful", "unlink"}

\* EntriesOK survives a step of t that changes no list and keeps t linked, or
\* that t takes with no entry on a list.
LEMMA EntriesFrame ==
  ASSUME TypeOK, EntriesOK, NEW t \in Threads, Others(t), queue' = queue,
         \/ NoEntries(t)
         \/ /\ op'[t] = op[t] /\ pc'[t] \in Linked
            /\ pc'[t] \in Ending =>
                 \A i \in DOMAIN op[t].qs :
                   <<t, i>> \in Range(queue[op[t].qs[i]]) => i <= idx'[t]
  PROVE  EntriesOK'
<1> SUFFICES ASSUME NEW q \in Queues
             PROVE  /\ IsInjective(queue[q])'
                    /\ \A e \in Range(queue[q])' :
                         /\ pc'[e[1]] \in Linked
                         /\ e[2] \in DOMAIN op'[e[1]].qs
                         /\ op'[e[1]].qs[e[2]] = q
                         /\ pc'[e[1]] \in Ending => e[2] <= idx'[e[1]]
  BY DEF EntriesOK, Ending
<1>1. IsInjective(queue[q])' /\ Range(queue[q])' = Range(queue[q])
  BY DEF EntriesOK
<1>2. ASSUME NEW e \in Range(queue[q])
      PROVE /\ pc'[e[1]] \in Linked
            /\ e[2] \in DOMAIN op'[e[1]].qs
            /\ op'[e[1]].qs[e[2]] = q
            /\ pc'[e[1]] \in Ending => e[2] <= idx'[e[1]]
  <2>1. e[1] \in Threads /\ e = <<e[1], e[2]>>
    BY EntryOK
  <2>2. /\ pc[e[1]] \in Linked /\ e[2] \in DOMAIN op[e[1]].qs
        /\ op[e[1]].qs[e[2]] = q /\ (pc[e[1]] \in Ending => e[2] <= idx[e[1]])
    BY DEF EntriesOK, Ending
  <2>3. CASE e[1] # t
    BY <2>1, <2>2, <2>3 DEF Others
  <2>4. CASE e[1] = t
    BY <2>1, <2>2, <2>4 DEF NoEntries
  <2> QED BY <2>3, <2>4
<1> QED BY <1>1, <1>2

\* WakersOK survives a step of t that leaves alone the lists and makes no thread
\* but itself stop running.
LEMMA WakersFrame ==
  ASSUME TypeOK, EntriesOK, WakersOK, NEW t \in Threads, Others(t), queue' = queue,
         pc'[t] # "wake_entry",
         \A u \in Threads : state'[u] \in {state[u], RUNNING} \/ (u = t /\ NoEntries(t))
  PROVE  WakersOK'
<1> SUFFICES ASSUME NEW u \in Threads, pc'[u] = "wake_entry"
             PROVE  /\ queue'[op'[u].qs[1]] # <<>>
                    /\ state'[Head(queue'[op'[u].qs[1]])[1]] = RUNNING
  BY DEF WakersOK
<1> DEFINE s == queue[op[u].qs[1]]
           h == Head(s)
<1>1. u # t /\ pc[u] = "wake_entry" /\ op'[u] = op[u]
  BY DEF Others
<1>2. s # <<>> /\ state[h[1]] = RUNNING
  BY <1>1 DEF WakersOK
<1>3. op[u].qs[1] \in Queues /\ s \in Seq(Entries)
  BY OpOK, SMT DEF TypeOK
<1>4. h \in Range(s) /\ h[1] \in Threads
  BY <1>2, <1>3, RngTail, EntryOK, SMT DEF EntriesOK
<1>5. state'[h[1]] = RUNNING
  BY <1>2, <1>3, <1>4 DEF NoEntries
<1> QED BY <1>1, <1>2, <1>5

\* LocksOK survives a step of a thread that holds the same locks before and after.
LEMMA LocksFrame ==
  ASSUME LocksOK, NEW t \in Threads, Others(t), lock' = lock,
         \A q \in Queues : Holds(t, q)' <=> Holds(t, q)
  PROVE  LocksOK'
<1> SUFFICES ASSUME NEW q \in Queues, NEW u \in Threads
             PROVE  lock'[q] = u <=> Holds(u, q)'
  BY DEF LocksOK
<1>1. lock[q] = u <=> Holds(u, q)
  BY DEF LocksOK
<1>2. CASE u = t
  BY <1>1, <1>2
<1>3. CASE u # t
  BY <1>1, <1>3 DEF Others, Holds
<1> QED BY <1>2, <1>3

\* SleeperIsQueued survives for the other threads when no list shrinks and no
\* other thread falls asleep or is reached by a waker.
LEMMA SleepersFrame ==
  ASSUME SleeperIsQueued, NEW t \in Threads, Others(t), queue' = queue,
         \A u \in Threads : state'[u] \in {state[u], RUNNING} \/ u = t,
         \A u \in Threads : awoken'[u] \in {awoken[u], {}} \/ state'[u] = RUNNING,
         pc'[t] \in Sleepy /\ state'[t] # RUNNING =>
           pc[t] \in Sleepy /\ state[t] # RUNNING /\ op'[t] = op[t]
  PROVE  SleeperIsQueued'
<1> SUFFICES ASSUME NEW u \in Threads, pc'[u] \in Sleepy, state'[u] # RUNNING
             PROVE  /\ awoken'[u] = {}
                    /\ \A i \in DOMAIN op'[u].qs : <<u, i>> \in Range(queue'[op'[u].qs[i]])
  BY DEF SleeperIsQueued, Sleepy, Members
<1>1. pc[u] \in Sleepy /\ state[u] # RUNNING /\ op'[u] = op[u]
  BY DEF Others
<1>2. awoken[u] = {} /\ \A i \in DOMAIN op[u].qs : <<u, i>> \in Members(op[u].qs[i])
  BY <1>1 DEF SleeperIsQueued, Sleepy
<1> QED BY <1>1, <1>2 DEF Members
\* The invariant besides the types.
Rest ==
  CallsOK /\ LocksOK /\ EntriesOK /\ WakersOK /\ AwokenOK /\ SleeperIsQueued

\* A thread that is not between Link and the end of its call has no entry on a
\* list.
LEMMA Unlinked ==
  ASSUME TypeOK, EntriesOK, NEW t \in Threads, pc[t] \notin Linked
  PROVE  NoEntries(t)
BY EntryOK DEF EntriesOK, NoEntries

\* A step of t that leaves the queues and their locks alone, puts nobody to
\* sleep and wakes nobody through a queue.
LEMMA QuietStep ==
  ASSUME IInv, NEW t \in Threads, Others(t), lock' = lock, queue' = queue,
         \A u \in Threads : state'[u] \in {state[u], RUNNING},
         \A u \in Threads : awoken'[u] = awoken[u] \/ (u = t /\ awoken'[u] = {}),
         \A q \in Queues : ~Holds(t, q) /\ ~Holds(t, q)',
         \/ NoEntries(t)
         \/ /\ op'[t] = op[t] /\ pc'[t] \in Linked
            /\ pc'[t] \in Ending =>
                 \A i \in DOMAIN op[t].qs :
                   <<t, i>> \in Range(queue[op[t].qs[i]]) => i <= idx'[t],
         pc'[t] \in Sleepy => pc[t] \in Sleepy /\ op'[t] = op[t],
         CallOK(t)',
         pc'[t] \notin Linked => awoken'[t] = {},
         pc'[t] # "wake_entry"
  PROVE  Rest'
<1>1. CallsOK'
  BY DEF IInv, CallsOK, CallOK, Others
<1>2. LocksOK'
  BY LocksFrame DEF IInv
<1>3. EntriesOK'
  BY EntriesFrame DEF IInv
<1>4. WakersOK'
  BY WakersFrame DEF IInv
<1>5. AwokenOK'
  BY DEF IInv, AwokenOK, Others
<1>6. SleeperIsQueued'
  BY SleepersFrame DEF IInv
<1> QED BY <1>1, <1>2, <1>3, <1>4, <1>5, <1>6 DEF Rest

\* Call preserves the invariant.
LEMMA CallStep ==
  ASSUME IInv, NEW t \in Threads, NEW c \in Calls, NEW to \in Threads, Call(t, c, to)
  PROVE  Rest'
<1>1. /\ Others(t) /\ lock' = lock /\ queue' = queue
      /\ \A u \in Threads : state'[u] \in {state[u], RUNNING}
      /\ \A u \in Threads : awoken'[u] = awoken[u] \/ (u = t /\ awoken'[u] = {})
  BY DEF IInv, TypeOK, Others, Call, At, Goto, sched, wq, entry
<1>2. /\ pc[t] = "idle" /\ op'[t] = c
      /\ \/ c.kind \notin {"wake", "signal"} /\ pc'[t] = "lock" /\ idx'[t] = 1
         \/ pc'[t] \in {"wake_lock", "sig_pend"}
  BY DEF IInv, TypeOK, Call, At, Goto, sched, wq, entry
<1>3. \A q \in Queues : ~Holds(t, q) /\ ~Holds(t, q)'
  BY <1>2, SMT DEF Holds
<1>4. CallOK(t)'
  <2>1. c \in AllCalls
    BY CallsAssumption
  <2>2. c.kind \in Kinds /\ c.qs \in Seq(Queues) /\ c.qs # <<>>
    BY <2>1 DEF AllCalls
  <2>3. 1 \in DOMAIN c.qs
    BY <2>2, SMT
  <2> QED BY <1>2, <2>2, <2>3 DEF CallOK, Waiting, Kinds
<1>5. NoEntries(t) /\ awoken[t] = {}
  BY <1>2, Unlinked DEF IInv, Linked, AwokenOK
<1> QED
  BY <1>1, <1>2, <1>3, <1>4, <1>5, QuietStep DEF IInv, Linked, Ending, Sleepy

\* Check (prepare_to_wait returning) preserves the invariant.
LEMMA CheckStep ==
  ASSUME IInv, NEW t \in Threads, Check(t)
  PROVE  Rest'
<1>1. /\ Others(t) /\ lock' = lock /\ queue' = queue
      /\ \A u \in Threads : state'[u] \in {state[u], RUNNING}
      /\ \A u \in Threads : awoken'[u] = awoken[u] \/ (u = t /\ awoken'[u] = {})
  BY DEF IInv, TypeOK, Others, Check, At, Goto, sched, wq, entry
<1>2. pc[t] = "check" /\ pc'[t] \in {"yield", "finish"} /\ op'[t] = op[t] /\ idx'[t] = idx[t]
  BY DEF IInv, TypeOK, Check, At, Goto, sched, wq, entry
<1>3. \A q \in Queues : ~Holds(t, q) /\ ~Holds(t, q)'
  BY <1>2 DEF Holds
<1>4. CallOK(t)'
  BY <1>2, OpOK DEF IInv, CallsOK, CallOK, Waiting, Kinds, WaitKinds
<1>5. idx[t] = Len(op[t].qs) /\ DOMAIN op[t].qs = 1..Len(op[t].qs)
  BY <1>2, OpOK DEF IInv, CallsOK, CallOK
<1> QED
  BY <1>1, <1>2, <1>3, <1>4, <1>5, QuietStep, SMT DEF IInv, Linked, Ending, Sleepy

\* Yield preserves the invariant.
LEMMA YieldStep ==
  ASSUME IInv, NEW t \in Threads, Yield(t)
  PROVE  Rest'
<1>1. /\ Others(t) /\ lock' = lock /\ queue' = queue
      /\ \A u \in Threads : state'[u] \in {state[u], RUNNING}
      /\ \A u \in Threads : awoken'[u] = awoken[u] \/ (u = t /\ awoken'[u] = {})
  BY DEF IInv, TypeOK, Others, Yield, At, Goto, sched, wq, entry
<1>2. pc[t] = "yield" /\ pc'[t] = "resume" /\ op'[t] = op[t] /\ idx'[t] = idx[t]
  BY DEF IInv, TypeOK, Yield, At, Goto, sched, wq, entry
<1>3. \A q \in Queues : ~Holds(t, q) /\ ~Holds(t, q)'
  BY <1>2 DEF Holds
<1>4. CallOK(t)'
  BY <1>2, OpOK DEF IInv, CallsOK, CallOK, Waiting, Kinds, WaitKinds
<1> QED
  BY <1>1, <1>2, <1>3, <1>4, QuietStep DEF IInv, Linked, Ending, Sleepy

\* Resume (yield returning) preserves the invariant.
LEMMA ResumeStep ==
  ASSUME IInv, NEW t \in Threads, Resume(t)
  PROVE  Rest'
<1>1. /\ Others(t) /\ lock' = lock /\ queue' = queue
      /\ \A u \in Threads : state'[u] \in {state[u], RUNNING}
      /\ \A u \in Threads : awoken'[u] = awoken[u] \/ (u = t /\ awoken'[u] = {})
  BY DEF IInv, TypeOK, Others, Resume, At, Goto, sched, wq, entry
<1>2. /\ pc[t] = "resume" /\ op'[t] = op[t] /\ idx'[t] = 1
      /\ pc'[t] = IF op[t].kind = "multi_wait" THEN "which" ELSE "finish"
  BY DEF IInv, TypeOK, Resume, At, Goto, sched, wq, entry
<1>3. \A q \in Queues : ~Holds(t, q) /\ ~Holds(t, q)'
  BY <1>2 DEF Holds
<1>4. CallOK(t)'
  BY <1>2, OpOK, SMT DEF IInv, CallsOK, CallOK, Waiting, Kinds, WaitKinds
<1>5. op[t].kind # "multi_wait" => DOMAIN op[t].qs = 1..1
  BY OpOK DEF IInv
<1> QED
  BY <1>1, <1>2, <1>3, <1>4, <1>5, QuietStep, SMT DEF IInv, Linked, Ending, Sleepy

\* Which (multi_wait looking for the entry that was woken) preserves the invariant.
LEMMA WhichStep ==
  ASSUME IInv, NEW t \in Threads, Which(t)
  PROVE  Rest'
<1>1. /\ Others(t) /\ lock' = lock /\ queue' = queue
      /\ \A u \in Threads : state'[u] \in {state[u], RUNNING}
      /\ \A u \in Threads : awoken'[u] = awoken[u] \/ (u = t /\ awoken'[u] = {})
  BY SMT DEF IInv, TypeOK, Others, Which, At, Goto, sched, wq, entry
<1>2. /\ pc[t] = "which" /\ op'[t] = op[t]
      /\ \/ pc'[t] = "finish" /\ idx'[t] = Len(op[t].qs)
         \/ pc'[t] = "which" /\ idx'[t] = idx[t] + 1 /\ idx[t] < Len(op[t].qs)
  BY DEF IInv, TypeOK, Which, At, Goto, sched, wq, entry
<1>3. \A q \in Queues : ~Holds(t, q) /\ ~Holds(t, q)'
  BY <1>2 DEF Holds
<1>4. CallOK(t)'
  BY <1>2, OpOK, SMT DEF IInv, CallsOK, CallOK, Waiting, Kinds, WaitKinds
<1>5. DOMAIN op[t].qs = 1..Len(op[t].qs)
  BY OpOK DEF IInv
<1> QED
  BY <1>1, <1>2, <1>3, <1>4, <1>5, QuietStep, SMT DEF IInv, Linked, Ending, Sleepy

\* Finish preserves the invariant.
LEMMA FinishStep ==
  ASSUME IInv, NEW t \in Threads, Finish(t)
  PROVE  Rest'
<1>1. /\ Others(t) /\ lock' = lock /\ queue' = queue
      /\ \A u \in Threads : state'[u] \in {state[u], RUNNING}
      /\ \A u \in Threads : awoken'[u] = awoken[u] \/ (u = t /\ awoken'[u] = {})
  BY DEF IInv, TypeOK, Others, Finish, At, Goto, sched, wq, entry
<1>2. pc[t] = "finish" /\ pc'[t] = "careful" /\ op'[t] = op[t] /\ idx'[t] = idx[t]
  BY DEF IInv, TypeOK, Finish, At, Goto, sched, wq, entry
<1>3. \A q \in Queues : ~Holds(t, q) /\ ~Holds(t, q)'
  BY <1>2 DEF Holds
<1>4. CallOK(t)'
  BY <1>2, OpOK DEF IInv, CallsOK, CallOK, Waiting, Kinds, WaitKinds
<1>5. \A i \in DOMAIN op[t].qs : <<t, i>> \in Range(queue[op[t].qs[i]]) => i <= idx[t]
  BY <1>2, OpOK, SMT DEF IInv, EntriesOK
<1> QED
  BY <1>1, <1>2, <1>3, <1>4, <1>5, QuietStep DEF IInv, Linked, Ending, Sleepy

\* SigPend preserves the invariant.
LEMMA SigPendStep ==
  ASSUME IInv, NEW t \in Threads, SigPend(t)
  PROVE  Rest'
<1>1. /\ Others(t) /\ lock' = lock /\ queue' = queue
      /\ \A u \in Threads : state'[u] \in {state[u], RUNNING}
      /\ \A u \in Threads : awoken'[u] = awoken[u] \/ (u = t /\ awoken'[u] = {})
  BY DEF IInv, TypeOK, Others, SigPend, At, Goto, sched, wq, entry
<1>2. pc[t] = "sig_pend" /\ pc'[t] = "sig_check" /\ op'[t] = op[t] /\ idx'[t] = idx[t]
  BY DEF IInv, TypeOK, SigPend, At, Goto, sched, wq, entry
<1>3. \A q \in Queues : ~Holds(t, q) /\ ~Holds(t, q)'
  BY <1>2 DEF Holds
<1>4. CallOK(t)'
  BY <1>2, OpOK DEF IInv, CallsOK, CallOK, Waiting, Kinds, WaitKinds
<1>5. NoEntries(t) /\ awoken[t] = {}
  BY <1>2, Unlinked DEF IInv, Linked, AwokenOK
<1> QED
  BY <1>1, <1>2, <1>3, <1>4, <1>5, QuietStep DEF IInv, Linked, Ending, Sleepy

\* SigCheck preserves the invariant.
LEMMA SigCheckStep ==
  ASSUME IInv, NEW t \in Threads, SigCheck(t)
  PROVE  Rest'
<1>1. /\ Others(t) /\ lock' = lock /\ queue' = queue
      /\ \A u \in Threads : state'[u] \in {state[u], RUNNING}
      /\ \A u \in Threads : awoken'[u] = awoken[u] \/ (u = t /\ awoken'[u] = {})
  BY SMT DEF IInv, TypeOK, Others, SigCheck, At, Goto, sched, wq, entry, Return
<1>2. pc[t] = "sig_check" /\ pc'[t] \in {"sig_rude", "idle"}
  BY SMT DEF IInv, TypeOK, SigCheck, At, Goto, sched, wq, entry, Return
<1>3. \A q \in Queues : ~Holds(t, q) /\ ~Holds(t, q)'
  BY <1>2 DEF Holds
<1>4. CallOK(t)'
  BY <1>2, OpOK DEF IInv, CallsOK, CallOK, Waiting, Kinds, WaitKinds
<1>5. NoEntries(t) /\ awoken[t] = {}
  BY <1>2, Unlinked DEF IInv, Linked, AwokenOK
<1> QED
  BY <1>1, <1>2, <1>3, <1>4, <1>5, QuietStep DEF IInv, Linked, Ending, Sleepy

\* SigRude preserves the invariant.
LEMMA SigRudeStep ==
  ASSUME IInv, NEW t \in Threads, SigRude(t)
  PROVE  Rest'
<1>1. /\ Others(t) /\ lock' = lock /\ queue' = queue
      /\ \A u \in Threads : state'[u] \in {state[u], RUNNING}
      /\ \A u \in Threads : awoken'[u] = awoken[u] \/ (u = t /\ awoken'[u] = {})
  BY DEF IInv, TypeOK, Others, SigRude, At, Goto, sched, wq, entry
<1>2. pc[t] = "sig_rude" /\ pc'[t] = "sig_state" /\ op'[t] = op[t] /\ idx'[t] = idx[t]
  BY DEF IInv, TypeOK, SigRude, At, Goto, sched, wq, entry
<1>3. \A q \in Queues : ~Holds(t, q) /\ ~Holds(t, q)'
  BY <1>2 DEF Holds
<1>4. CallOK(t)'
  BY <1>2, OpOK DEF IInv, CallsOK, CallOK, Waiting, Kinds, WaitKinds
<1>5. NoEntries(t) /\ awoken[t] = {}
  BY <1>2, Unlinked DEF IInv, Linked, AwokenOK
<1> QED
  BY <1>1, <1>2, <1>3, <1>4, <1>5, QuietStep DEF IInv, Linked, Ending, Sleepy

\* SigState preserves the invariant: it only ever makes a thread runnable.
LEMMA SigStateStep ==
  ASSUME IInv, NEW t \in Threads, SigState(t)
  PROVE  Rest'
<1>1. /\ Others(t) /\ lock' = lock /\ queue' = queue
      /\ \A u \in Threads : state'[u] \in {state[u], RUNNING}
      /\ \A u \in Threads : awoken'[u] = awoken[u] \/ (u = t /\ awoken'[u] = {})
  BY DEF IInv, TypeOK, Others, SigState, At, Goto, sched, wq, entry, Return
<1>2. pc[t] = "sig_state" /\ pc'[t] = "idle"
  BY DEF IInv, TypeOK, SigState, At, Goto, sched, wq, entry, Return
<1>3. \A q \in Queues : ~Holds(t, q) /\ ~Holds(t, q)'
  BY <1>2 DEF Holds
<1>4. CallOK(t)'
  BY <1>2, OpOK DEF IInv, CallsOK, CallOK, Waiting, Kinds, WaitKinds
<1>5. NoEntries(t) /\ awoken[t] = {}
  BY <1>2, Unlinked DEF IInv, Linked, AwokenOK
<1> QED
  BY <1>1, <1>2, <1>3, <1>4, <1>5, QuietStep DEF IInv, Linked, Ending, Sleepy


\* The scheduler's steps move no thread along.
LEMMA SchedulerStep ==
  ASSUME IInv, NEW t \in Threads, Dispatch(t) \/ Preempt(t)
  PROVE  Rest'
<1>1. UNCHANGED <<state, lock, queue, pc, op, idx, awoken>>
  BY DEF Dispatch, Preempt, wq, entry
<1>2. CallsOK' /\ LocksOK' /\ AwokenOK'
  BY <1>1, SMT DEF IInv, CallsOK, CallOK, LocksOK, Holds, AwokenOK
<1>3. EntriesOK' /\ WakersOK'
  BY <1>1 DEF IInv, EntriesOK, WakersOK
<1>4. SleeperIsQueued'
  BY <1>1 DEF IInv, SleeperIsQueued, Members
<1> QED BY <1>2, <1>3, <1>4 DEF Rest

\* The entries of t still linked while its entry idx[t] is being destroyed.
LEMMA EndingEntries ==
  ASSUME IInv, NEW t \in Threads, pc[t] \in Ending
  PROVE  /\ op[t].kind \in WaitKinds /\ idx[t] \in 1..Len(op[t].qs)
         /\ op[t].qs[idx[t]] \in Queues
         /\ \A q \in Queues : \A e \in Range(queue[q]) : e[1] = t =>
              /\ e = <<t, e[2]>> /\ e[2] \in 1..idx[t] /\ e[2] \in DOMAIN op[t].qs
              /\ q = op[t].qs[e[2]]
<1>1. /\ op[t].kind \in WaitKinds /\ idx[t] \in 1..Len(op[t].qs)
      /\ DOMAIN op[t].qs = 1..Len(op[t].qs)
      /\ op[t].qs[idx[t]] \in Queues
  BY OpOK DEF IInv, CallsOK, CallOK, Ending, Waiting
<1>2. ASSUME NEW q \in Queues, NEW e \in Range(queue[q]), e[1] = t
      PROVE  /\ e = <<t, e[2]>> /\ e[2] \in 1..idx[t] /\ e[2] \in DOMAIN op[t].qs
             /\ q = op[t].qs[e[2]]
  <2>1. e = <<t, e[2]>> /\ e[2] \in Nat \ {0}
    BY <1>2, EntryOK DEF IInv
  <2>2. e[2] \in DOMAIN op[t].qs /\ op[t].qs[e[2]] = q /\ e[2] <= idx[t]
    BY <1>2 DEF IInv, EntriesOK, Ending
  <2> QED BY <1>1, <2>1, <2>2, SMT
<1> QED BY <1>1, <1>2

\* Careful preserves the invariant: when it skips the lock the entry has left.
LEMMA CarefulStep ==
  ASSUME IInv, NEW t \in Threads, Careful(t)
  PROVE  Rest'
<1> DEFINE e == <<t, idx[t]>>
<1>1. /\ Others(t) /\ lock' = lock /\ queue' = queue
      /\ \A u \in Threads : state'[u] \in {state[u], RUNNING}
      /\ \A u \in Threads : awoken'[u] = awoken[u] \/ (u = t /\ awoken'[u] = {})
  BY SMT DEF IInv, TypeOK, Others, Careful, NextEntry, Return, At, Goto, sched, wq, entry
<1>2. pc[t] = "careful"
  BY DEF Careful, At
<1>3. CASE e \in Members(QueueOf(e))
  <2>1. pc'[t] = "unlink" /\ op'[t] = op[t] /\ idx'[t] = idx[t]
    BY <1>3 DEF IInv, TypeOK, Careful, Goto
  <2>2. \A q \in Queues : ~Holds(t, q) /\ ~Holds(t, q)'
    BY <1>2, <2>1 DEF Holds
  <2>3. CallOK(t)'
    BY <1>2, <2>1 DEF IInv, CallsOK, CallOK, Waiting
  <2>4. \A i \in DOMAIN op[t].qs : <<t, i>> \in Range(queue[op[t].qs[i]]) => i <= idx[t]
    BY <1>2, OpOK, SMT DEF IInv, EntriesOK
  <2> QED
    BY <1>1, <1>2, <2>1, <2>2, <2>3, <2>4, QuietStep DEF IInv, Linked, Ending, Sleepy
<1>4. CASE e \notin Members(QueueOf(e)) /\ idx[t] = 1
  <2>1. pc'[t] = "idle" /\ awoken'[t] = {}
    BY <1>4, SMT DEF IInv, TypeOK, Careful, NextEntry, Return, Goto
  <2>2. \A q \in Queues : ~Holds(t, q) /\ ~Holds(t, q)'
    BY <1>2, <2>1 DEF Holds
  <2>3. CallOK(t)'
    BY <2>1 DEF CallOK, Waiting
  <2>4. NoEntries(t)
    BY <1>2, <1>4, EndingEntries, SMT DEF Ending, NoEntries, Members, QueueOf
  <2> QED
    BY <1>1, <1>2, <2>1, <2>2, <2>3, <2>4, QuietStep DEF IInv, Linked, Ending, Sleepy
<1>5. CASE e \notin Members(QueueOf(e)) /\ idx[t] # 1
  <2>1. pc'[t] = "finish" /\ op'[t] = op[t] /\ idx'[t] = idx[t] - 1
    BY <1>5 DEF IInv, TypeOK, Careful, NextEntry, Goto
  <2>2. \A q \in Queues : ~Holds(t, q) /\ ~Holds(t, q)'
    BY <1>2, <2>1 DEF Holds
  <2>3. CallOK(t)'
    BY <1>2, <1>5, <2>1, EndingEntries, OpOK, SMT DEF IInv, CallOK, Waiting, Ending
  <2>4. \A i \in DOMAIN op[t].qs :
          <<t, i>> \in Range(queue[op[t].qs[i]]) => i <= idx[t] - 1
    <3> SUFFICES ASSUME NEW i \in DOMAIN op[t].qs,
                        <<t, i>> \in Range(queue[op[t].qs[i]])
                 PROVE  i <= idx[t] - 1
      OBVIOUS
    <3>1. op[t].qs[i] \in Queues
      BY OpOK DEF IInv
    <3>2. i \in 1..idx[t]
      BY <1>2, <3>1, EndingEntries DEF Ending
    <3>3. i # idx[t]
      BY <1>5 DEF Members, QueueOf
    <3>4. idx[t] \in Nat
      BY DEF IInv, TypeOK
    <3> QED BY <3>2, <3>3, <3>4, SMT
  <2> QED
    BY <1>1, <1>2, <2>1, <2>2, <2>3, <2>4, QuietStep DEF IInv, Linked, Ending, Sleepy
<1> QED BY <1>3, <1>4, <1>5

\* A step of t that takes or releases locks and leaves the queues alone, at a
\* place where t has no entries.
LEMMA LockStep ==
  ASSUME IInv, NEW t \in Threads, Others(t), queue' = queue, LocksOK',
         NoEntries(t), CallOK(t)', pc'[t] \notin Linked \union {"wake_entry"},
         awoken' = awoken \/ awoken' = [awoken EXCEPT ![t] = {}],
         \A u \in Threads \ {t} : state'[u] = state[u]
  PROVE  pc[t] \notin Linked => Rest'
<1> SUFFICES ASSUME pc[t] \notin Linked PROVE Rest'
  OBVIOUS
<1>1. CallsOK'
  BY DEF IInv, CallsOK, CallOK, Others
<1>2. EntriesOK'
  BY EntriesFrame DEF IInv
<1>3. WakersOK'
  BY WakersFrame DEF IInv
<1>4. awoken[t] = {} /\ awoken' = awoken
  BY DEF IInv, TypeOK, AwokenOK
<1>5. AwokenOK'
  BY <1>4 DEF IInv, AwokenOK, Others
<1>6. SleeperIsQueued'
  BY <1>4, SleepersFrame DEF IInv, Sleepy, Linked
<1> QED BY <1>1, <1>2, <1>3, <1>5, <1>6 DEF Rest

\* LockQueue preserves the invariant.
LEMMA LockQueueStep ==
  ASSUME IInv, NEW t \in Threads, LockQueue(t)
  PROVE  Rest'
<1> DEFINE q == op[t].qs[idx[t]]
<1>1. /\ Others(t) /\ queue' = queue /\ awoken' = awoken /\ state' = state
      /\ lock' = [lock EXCEPT ![q] = t] /\ lock[q] = None /\ op'[t] = op[t]
      /\ pc[t] = "lock"
      /\ \/ idx[t] = Len(op[t].qs) /\ pc'[t] = "set_state" /\ idx'[t] = idx[t]
         \/ idx[t] # Len(op[t].qs) /\ pc'[t] = "lock" /\ idx'[t] = idx[t] + 1
  BY DEF IInv, TypeOK, LockQueue, At, Goto, Others, sched, entry
<1>2. /\ idx[t] \in 1..Len(op[t].qs) /\ DOMAIN op[t].qs = 1..Len(op[t].qs)
      /\ op[t].kind \in WaitKinds /\ q \in Queues
  BY <1>1, OpOK DEF IInv, CallsOK, CallOK, Waiting
<1>3. CallOK(t)'
  BY <1>1, <1>2, SMT DEF CallOK, Waiting
<1>4. LocksOK'
  <2> SUFFICES ASSUME NEW r \in Queues, NEW u \in Threads
               PROVE  lock'[r] = u <=> Holds(u, r)'
    BY DEF LocksOK
  <2>1. lock[r] = u <=> Holds(u, r)
    BY DEF IInv, LocksOK
  <2>2. CASE u # t
    BY <1>1, <1>2, <2>1, <2>2, NoneAssumption DEF IInv, TypeOK, Others, Holds
  <2>3. CASE u = t
    <3>1. Holds(t, r)' <=> Holds(t, r) \/ r = q
      <4>1. Holds(t, r) <=> \E i \in 1..(idx[t] - 1) : op[t].qs[i] = r
        BY <1>1 DEF Holds
      <4>2. Holds(t, r)' <=> \E i \in 1..idx[t] : op[t].qs[i] = r
        BY <1>1, <1>2, SMT DEF Holds
      <4>3. \A i \in 1..idx[t] : i \in 1..(idx[t] - 1) \/ i = idx[t]
        BY <1>2, SMT
      <4>4. \A i \in 1..(idx[t] - 1) : i \in 1..idx[t]
        BY <1>2, SMT
      <4> QED BY <1>2, <4>1, <4>2, <4>3, <4>4, SMT
    <3>2. lock'[r] = t <=> lock[r] = t \/ r = q
      BY <1>1, <1>2 DEF IInv, TypeOK
    <3> QED BY <2>1, <2>3, <3>1, <3>2
  <2> QED BY <2>2, <2>3
<1>5. NoEntries(t)
  BY <1>1, Unlinked DEF IInv, Linked
<1> QED BY <1>1, <1>3, <1>4, <1>5, LockStep DEF Linked

\* SetState preserves the invariant: the thread has no entry yet and is not yet
\* counted as a sleeper.
LEMMA SetStateStep ==
  ASSUME IInv, NEW t \in Threads, SetState(t)
  PROVE  Rest'
<1>1. /\ Others(t) /\ queue' = queue /\ lock' = lock /\ awoken' = awoken
      /\ \A u \in Threads \ {t} : state'[u] = state[u]
      /\ op'[t] = op[t] /\ idx'[t] = idx[t]
      /\ pc[t] = "set_state" /\ pc'[t] = "link"
  BY DEF IInv, TypeOK, SetState, At, Goto, Others, wq, entry
<1>2. CallOK(t)'
  BY <1>1 DEF IInv, CallsOK, CallOK, Waiting
<1>3. LocksOK'
  BY <1>1, LocksFrame DEF IInv, Holds
<1>4. NoEntries(t)
  BY <1>1, Unlinked DEF IInv, Linked
<1> QED BY <1>1, <1>2, <1>3, <1>4, LockStep DEF Linked

\* WakeLock preserves the invariant.
LEMMA WakeLockStep ==
  ASSUME IInv, NEW t \in Threads, WakeLock(t)
  PROVE  Rest'
<1> DEFINE q == op[t].qs[1]
<1>1. /\ Others(t) /\ queue' = queue /\ awoken' = awoken /\ state' = state
      /\ lock' = [lock EXCEPT ![q] = t] /\ lock[q] = None /\ op'[t] = op[t]
      /\ pc[t] = "wake_lock" /\ pc'[t] = "wake"
  BY DEF IInv, TypeOK, WakeLock, At, Goto, Others, sched, entry
<1>2. q \in Queues
  BY OpOK, SMT DEF IInv
<1>3. CallOK(t)'
  BY <1>1 DEF CallOK, Waiting
<1>4. LocksOK'
  <2> SUFFICES ASSUME NEW r \in Queues, NEW u \in Threads
               PROVE  lock'[r] = u <=> Holds(u, r)'
    BY DEF LocksOK
  <2>1. lock[r] = u <=> Holds(u, r)
    BY DEF IInv, LocksOK
  <2>2. CASE u # t
    BY <1>1, <1>2, <2>1, <2>2, NoneAssumption DEF IInv, TypeOK, Others, Holds
  <2>3. CASE u = t
    BY <1>1, <1>2, <2>1, <2>3 DEF IInv, TypeOK, Holds
  <2> QED BY <2>2, <2>3
<1>5. NoEntries(t)
  BY <1>1, Unlinked DEF IInv, Linked
<1> QED BY <1>1, <1>3, <1>4, <1>5, LockStep DEF Linked

\* WakeUnlock preserves the invariant.
LEMMA WakeUnlockStep ==
  ASSUME IInv, NEW t \in Threads, WakeUnlock(t)
  PROVE  Rest'
<1> DEFINE q == op[t].qs[1]
<1>1. /\ Others(t) /\ queue' = queue /\ state' = state
      /\ awoken' = [awoken EXCEPT ![t] = {}]
      /\ lock' = [lock EXCEPT ![q] = None]
      /\ pc[t] \in {"wake", "wake_unlock"} /\ pc'[t] = "idle"
  BY DEF IInv, TypeOK, WakeUnlock, Return, At, Goto, Others, sched, entry
<1>2. q \in Queues
  BY OpOK, SMT DEF IInv
<1>3. CallOK(t)'
  BY <1>1 DEF CallOK, Waiting
<1>4. LocksOK'
  <2> SUFFICES ASSUME NEW r \in Queues, NEW u \in Threads
               PROVE  lock'[r] = u <=> Holds(u, r)'
    BY DEF LocksOK
  <2>1. lock[r] = u <=> Holds(u, r)
    BY DEF IInv, LocksOK
  <2>2. lock[q] = t
    BY <1>1, <1>2, SMT DEF IInv, LocksOK, Holds
  <2>3. CASE u # t
    BY <1>1, <1>2, <2>1, <2>2, <2>3, NoneAssumption DEF IInv, TypeOK, Others, Holds
  <2>4. CASE u = t
    BY <1>1, <1>2, <2>1, <2>4, NoneAssumption DEF IInv, TypeOK, Holds
  <2> QED BY <2>3, <2>4
<1>5. NoEntries(t)
  BY <1>1, Unlinked DEF IInv, Linked
<1> QED BY <1>1, <1>3, <1>4, <1>5, LockStep DEF Linked

\* Link preserves the invariant: it puts the thread on every queue of the call.
LEMMA LinkStep ==
  ASSUME IInv, NEW t \in Threads, Link(t)
  PROVE  Rest'
<1> DEFINE qs == op[t].qs
<1>1. /\ Others(t) /\ awoken' = awoken /\ state' = state
      /\ op' = op /\ idx'[t] = idx[t]
      /\ pc[t] = "link" /\ pc'[t] \in {"check", "yield"}
      /\ lock' = [q \in Queues |-> IF lock[q] = t THEN None ELSE lock[q]]
  BY DEF IInv, TypeOK, Link, At, Goto, Others, sched, entry
<1>2. NoEntries(t) /\ awoken[t] = {}
  BY <1>1, Unlinked DEF IInv, Linked, AwokenOK
<1>3. /\ DOMAIN qs = 1..Len(qs) /\ \A i \in DOMAIN qs : qs[i] \in Queues
      /\ \A i, j \in DOMAIN qs : qs[i] = qs[j] => i = j
  BY OpOK DEF IInv
<1>4. ASSUME NEW i \in DOMAIN qs
      PROVE  /\ Range(queue'[qs[i]]) = Range(queue[qs[i]]) \union {<<t, i>>}
             /\ IsInjective(queue'[qs[i]])
  <2>1. (CHOOSE j \in DOMAIN qs : qs[j] = qs[i]) = i
    BY <1>3
  <2>2. queue'[qs[i]] = Insert(queue[qs[i]], <<t, i>>, op[t])
    BY <1>3, <2>1 DEF Link
  <2>3. queue[qs[i]] \in Seq(Entries) /\ <<t, i>> \in Entries
    BY <1>3, SMT DEF IInv, TypeOK, Entries
  <2>4. IsInjective(queue[qs[i]]) /\ <<t, i>> \notin Range(queue[qs[i]])
    BY <1>2, <1>3, SMT DEF IInv, EntriesOK, NoEntries
  <2> QED BY <2>2, <2>3, <2>4, RngAppend, RngCons, SMT DEF Insert
<1>5. \A q \in Queues : (\A i \in DOMAIN qs : qs[i] # q) => queue'[q] = queue[q]
  BY DEF Link
<1>6. CallsOK'
  BY <1>1 DEF IInv, CallsOK, CallOK, Others, Waiting
<1>7. LocksOK'
  <2> SUFFICES ASSUME NEW r \in Queues, NEW u \in Threads
               PROVE  lock'[r] = u <=> Holds(u, r)'
    BY DEF LocksOK
  <2>1. lock[r] = u <=> Holds(u, r)
    BY DEF IInv, LocksOK
  <2>2. CASE u # t
    BY <1>1, <2>1, <2>2, NoneAssumption DEF Others, Holds
  <2>3. CASE u = t
    BY <1>1, <2>1, <2>3, NoneAssumption DEF Holds
  <2> QED BY <2>2, <2>3
<1>8. EntriesOK'
  <2> SUFFICES ASSUME NEW q \in Queues
               PROVE  /\ IsInjective(queue'[q])
                      /\ \A e \in Range(queue'[q]) :
                           /\ pc'[e[1]] \in Linked
                           /\ e[2] \in DOMAIN op'[e[1]].qs
                           /\ op'[e[1]].qs[e[2]] = q
                           /\ pc'[e[1]] \in Ending => e[2] <= idx'[e[1]]
    BY DEF EntriesOK, Ending
  <2>1. IsInjective(queue[q])
    BY DEF IInv, EntriesOK
  <2>2. ASSUME NEW e \in Range(queue[q])
        PROVE  /\ pc'[e[1]] \in Linked
               /\ e[2] \in DOMAIN op'[e[1]].qs
               /\ op'[e[1]].qs[e[2]] = q
               /\ pc'[e[1]] \in Ending => e[2] <= idx'[e[1]]
    <3>1. e[1] # t /\ e[1] \in Threads
      BY <1>2, EntryOK DEF IInv, NoEntries
    <3> QED BY <1>1, <3>1 DEF IInv, EntriesOK, Others, Ending
  <2>3. CASE \A i \in DOMAIN qs : qs[i] # q
    BY <1>5, <2>1, <2>2, <2>3
  <2>4. ASSUME NEW i \in DOMAIN qs, qs[i] = q
        PROVE  /\ IsInjective(queue'[q])
               /\ \A e \in Range(queue'[q]) : e \in Range(queue[q]) \/ e = <<t, i>>
    BY <1>4, <2>4
  <2>5. ASSUME NEW i \in DOMAIN qs, qs[i] = q, NEW e, e = <<t, i>>
        PROVE  /\ pc'[e[1]] \in Linked
               /\ e[2] \in DOMAIN op'[e[1]].qs
               /\ op'[e[1]].qs[e[2]] = q
               /\ pc'[e[1]] \in Ending => e[2] <= idx'[e[1]]
    BY <1>1, <2>5 DEF Linked, Ending
  <2> QED BY <2>2, <2>3, <2>4, <2>5
<1>9. WakersOK'
  <2> SUFFICES ASSUME NEW u \in Threads, pc'[u] = "wake_entry"
               PROVE  /\ queue'[op[u].qs[1]] # <<>>
                      /\ state[Head(queue'[op[u].qs[1]])[1]] = RUNNING
    BY <1>1 DEF WakersOK
  <2>1. u # t /\ pc[u] = "wake_entry" /\ op[u].qs[1] \in Queues
    BY <1>1, OpOK, SMT DEF IInv, Others
  <2>2. lock[op[u].qs[1]] = u
    BY <2>1 DEF IInv, LocksOK, Holds
  <2>3. \A i \in DOMAIN qs : lock[qs[i]] = t
    BY <1>1, <1>3, SMT DEF IInv, LocksOK, Holds
  <2>4. queue'[op[u].qs[1]] = queue[op[u].qs[1]]
    BY <1>5, <2>1, <2>2, <2>3
  <2> QED BY <2>1, <2>4 DEF IInv, WakersOK
<1>10. AwokenOK'
  BY <1>1, <1>2 DEF IInv, AwokenOK, Others
<1>11. SleeperIsQueued'
  <2> SUFFICES ASSUME NEW u \in Threads, pc'[u] \in Sleepy, state[u] # RUNNING
               PROVE  /\ awoken[u] = {}
                      /\ \A i \in DOMAIN op[u].qs : <<u, i>> \in Range(queue'[op[u].qs[i]])
    BY <1>1 DEF SleeperIsQueued, Sleepy, Members
  <2>1. CASE u = t
    BY <1>2, <1>4, <2>1
  <2>2. CASE u # t
    <3>1. /\ awoken[u] = {}
          /\ \A i \in DOMAIN op[u].qs : <<u, i>> \in Range(queue[op[u].qs[i]])
      BY <1>1, <2>2 DEF IInv, SleeperIsQueued, Sleepy, Members, Others
    <3>2. \A q \in Queues : Range(queue[q]) \subseteq Range(queue'[q])
      BY <1>4, <1>5
    <3> QED BY <3>1, <3>2, OpOK DEF IInv
  <2> QED BY <2>1, <2>2
<1> QED BY <1>6, <1>7, <1>8, <1>9, <1>10, <1>11 DEF Rest

\* A step of t that removes one entry from one queue, whose lock no other
\* thread holds: every other thread keeps its entries and every other waker its
\* head.
LEMMA RemoveStep ==
  ASSUME IInv, NEW t \in Threads, Others(t), NEW q \in Queues, NEW e,
         \A r \in Queues \ {q} : queue'[r] = queue[r],
         IsInjective(queue'[q]), Range(queue'[q]) = Range(queue[q]) \ {e},
         \A u \in Threads \ {t} : lock[q] # u,
         state' = state, pc'[t] \notin Sleepy \union {"wake_entry"},
         \A u \in Threads : awoken'[u] = awoken[u] \/ u = t,
         e[1] = t \/ state[e[1]] = RUNNING,
         NoEntries(t)' \/ (op'[t] = op[t] /\ pc[t] \in Ending /\ pc'[t] \in Ending
                            /\ idx'[t] = idx[t] - 1 /\ e = <<t, idx[t]>>
                            /\ q = op[t].qs[idx[t]])
  PROVE  EntriesOK' /\ WakersOK' /\ SleeperIsQueued'
<1>0. \A r \in Queues : Range(queue'[r]) \subseteq Range(queue[r])
  OBVIOUS
<1>1. EntriesOK'
  <2> SUFFICES ASSUME NEW r \in Queues
               PROVE  /\ IsInjective(queue'[r])
                      /\ \A x \in Range(queue'[r]) :
                           /\ pc'[x[1]] \in Linked
                           /\ x[2] \in DOMAIN op'[x[1]].qs
                           /\ op'[x[1]].qs[x[2]] = r
                           /\ pc'[x[1]] \in Ending => x[2] <= idx'[x[1]]
    BY DEF EntriesOK, Ending
  <2>1. IsInjective(queue'[r])
    BY DEF IInv, EntriesOK
  <2>2. ASSUME NEW x \in Range(queue'[r])
        PROVE  /\ pc'[x[1]] \in Linked
               /\ x[2] \in DOMAIN op'[x[1]].qs
               /\ op'[x[1]].qs[x[2]] = r
               /\ pc'[x[1]] \in Ending => x[2] <= idx'[x[1]]
    <3>1. x \in Range(queue[r]) /\ x[1] \in Threads /\ x[2] \in Nat
      BY <1>0, EntryOK DEF IInv
    <3>2. /\ pc[x[1]] \in Linked /\ x[2] \in DOMAIN op[x[1]].qs
          /\ op[x[1]].qs[x[2]] = r /\ (pc[x[1]] \in Ending => x[2] <= idx[x[1]])
      BY <3>1 DEF IInv, EntriesOK, Ending
    <3>3. CASE x[1] # t
      BY <3>1, <3>2, <3>3 DEF Others
    <3>4. CASE x[1] = t
      <4>1. /\ op'[t] = op[t] /\ pc[t] \in Ending /\ pc'[t] \in Ending
            /\ idx'[t] = idx[t] - 1 /\ e = <<t, idx[t]>> /\ q = op[t].qs[idx[t]]
        BY <3>4 DEF NoEntries
      <4>2. x = <<t, x[2]>> /\ x[2] <= idx[t] /\ idx[t] \in Nat
        BY <3>1, <3>2, <3>4, <4>1, EntryOK DEF IInv, TypeOK
      <4>3. x[2] # idx[t]
        <5> SUFFICES ASSUME x[2] = idx[t] PROVE FALSE
          OBVIOUS
        <5>1. x = e
          BY <4>1, <4>2
        <5>2. r = q
          BY <3>2, <3>4, <4>1
        <5> QED BY <5>1, <5>2
      <4> QED BY <3>1, <3>2, <3>4, <4>1, <4>2, <4>3, SMT DEF Linked, Ending
    <3> QED BY <3>3, <3>4
  <2> QED BY <2>1, <2>2
<1>2. WakersOK'
  <2> SUFFICES ASSUME NEW u \in Threads, pc'[u] = "wake_entry"
               PROVE  /\ queue'[op'[u].qs[1]] # <<>>
                      /\ state[Head(queue'[op'[u].qs[1]])[1]] = RUNNING
    BY DEF WakersOK
  <2>1. u # t /\ pc[u] = "wake_entry" /\ op'[u] = op[u] /\ op[u].qs[1] \in Queues
    BY OpOK, SMT DEF IInv, Others
  <2>2. lock[op[u].qs[1]] = u
    BY <2>1 DEF IInv, LocksOK, Holds
  <2>3. queue'[op[u].qs[1]] = queue[op[u].qs[1]]
    BY <2>1, <2>2
  <2> QED BY <2>1, <2>3, SMT DEF IInv, WakersOK
<1>3. SleeperIsQueued'
  <2> SUFFICES ASSUME NEW u \in Threads, pc'[u] \in Sleepy, state[u] # RUNNING
               PROVE  /\ awoken'[u] = {}
                      /\ \A i \in DOMAIN op'[u].qs : <<u, i>> \in Range(queue'[op'[u].qs[i]])
    BY DEF SleeperIsQueued, Sleepy, Members
  <2>1. u # t /\ pc[u] \in Sleepy /\ op'[u] = op[u] /\ awoken'[u] = awoken[u]
    BY DEF Others
  <2>2. awoken[u] = {} /\ \A i \in DOMAIN op[u].qs : <<u, i>> \in Range(queue[op[u].qs[i]])
    BY <2>1 DEF IInv, SleeperIsQueued, Sleepy, Members
  <2>3. ASSUME NEW i \in DOMAIN op[u].qs PROVE <<u, i>> \in Range(queue'[op[u].qs[i]])
    BY <2>1, <2>2, OpOK, SMT DEF IInv
  <2> QED BY <2>1, <2>2, <2>3
<1> QED BY <1>1, <1>2, <1>3

\* Unlink preserves the invariant: the thread no longer sleeps.
LEMMA UnlinkStep ==
  ASSUME IInv, NEW t \in Threads, Unlink(t)
  PROVE  Rest'
<1> DEFINE e == <<t, idx[t]>>
           q == op[t].qs[idx[t]]
<1>1. /\ Others(t) /\ state' = state /\ lock' = lock /\ lock[q] = None
      /\ pc[t] = "unlink" /\ queue' = [queue EXCEPT ![q] = Del(@, e)]
      /\ \A u \in Threads : awoken'[u] = awoken[u] \/ u = t
      /\ \/ idx[t] = 1 /\ pc'[t] = "idle" /\ awoken'[t] = {}
         \/ /\ idx[t] # 1 /\ pc'[t] = "finish" /\ op'[t] = op[t]
            /\ idx'[t] = idx[t] - 1 /\ awoken' = awoken
  BY SMT DEF IInv, TypeOK, Unlink, NextEntry, Return, QueueOf, At, Goto, Others, sched, entry
<1>2. q \in Queues /\ idx[t] \in 1..Len(op[t].qs) /\ op[t].kind \in WaitKinds
  BY <1>1, EndingEntries DEF Ending
<1>3. queue[q] \in Seq(Entries) /\ IsInjective(queue[q])
  BY <1>2 DEF IInv, TypeOK, EntriesOK
<1>4. /\ \A r \in Queues \ {q} : queue'[r] = queue[r]
      /\ IsInjective(queue'[q]) /\ Range(queue'[q]) = Range(queue[q]) \ {e}
  <2>1. queue'[q] = Del(queue[q], e) /\ \A r \in Queues \ {q} : queue'[r] = queue[r]
    BY <1>1, <1>2 DEF IInv, TypeOK
  <2>2. /\ Range(Del(queue[q], e)) = Range(queue[q]) \ {e}
        /\ IsInjective(Del(queue[q], e))
    BY <1>3, RngDel
  <2> QED BY <2>1, <2>2
<1>5. idx[t] = 1 => NoEntries(t)'
  <2> SUFFICES ASSUME idx[t] = 1, NEW r \in Queues, NEW x \in Range(queue'[r]), x[1] = t
               PROVE  FALSE
    BY DEF NoEntries
  <2>1. x \in Range(queue[r])
    BY <1>4
  <2>2. x = <<t, x[2]>> /\ x[2] \in 1..1 /\ r = op[t].qs[x[2]]
    BY <1>1, <2>1, EndingEntries DEF Ending
  <2> QED BY <1>4, <2>2, SMT
<1>6. EntriesOK' /\ WakersOK' /\ SleeperIsQueued'
  <2>1. \A u \in Threads \ {t} : lock[q] # u
    BY <1>1, NoneAssumption
  <2>2. pc'[t] \notin Sleepy \union {"wake_entry"}
    BY <1>1 DEF Sleepy
  <2>3. \/ NoEntries(t)'
        \/ /\ op'[t] = op[t] /\ pc[t] \in Ending /\ pc'[t] \in Ending
           /\ idx'[t] = idx[t] - 1 /\ e = <<t, idx[t]>> /\ q = op[t].qs[idx[t]]
    BY <1>1, <1>5 DEF Ending
  <2>4. /\ Others(t) /\ state' = state /\ e[1] = t
        /\ \A u \in Threads : awoken'[u] = awoken[u] \/ u = t
    BY <1>1
  <2> HIDE DEF e, q
  <2> QED BY <1>2, <1>4, <2>1, <2>2, <2>3, <2>4, RemoveStep, SMT
<1>7. CallsOK'
  <2>1. CallOK(t)'
    BY <1>1, <1>2, OpOK, SMT DEF IInv, CallOK, Waiting
  <2> QED BY <1>1, <2>1 DEF IInv, CallsOK, CallOK, Others
<1>8. LocksOK'
  BY <1>1, LocksFrame DEF IInv, Holds
<1>9. AwokenOK'
  BY <1>1 DEF IInv, AwokenOK, Others, Linked
<1> QED BY <1>6, <1>7, <1>8, <1>9 DEF Rest

\* AutoRemove preserves the invariant: its thread was made runnable by WakeEntry,
\* under the same lock.
LEMMA AutoRemoveStep ==
  ASSUME IInv, NEW t \in Threads, AutoRemove(t)
  PROVE  Rest'
<1> DEFINE q == op[t].qs[1]
           e == Head(queue[q])
<1>1. /\ Others(t) /\ state' = state /\ lock' = lock /\ op' = op /\ awoken' = awoken
      /\ pc[t] = "wake_entry" /\ pc'[t] \in {"wake", "wake_unlock"}
      /\ queue' = [queue EXCEPT ![q] = Tail(@)]
  BY DEF IInv, TypeOK, AutoRemove, At, Goto, Others, sched
<1>2. q \in Queues /\ lock[q] = t
  BY <1>1, OpOK, SMT DEF IInv, LocksOK, Holds
<1>3. /\ queue[q] \in Seq(Entries) /\ IsInjective(queue[q])
      /\ queue[q] # <<>> /\ state[e[1]] = RUNNING
  BY <1>1, <1>2 DEF IInv, TypeOK, EntriesOK, WakersOK
<1>4. /\ \A r \in Queues \ {q} : queue'[r] = queue[r]
      /\ IsInjective(queue'[q]) /\ Range(queue'[q]) = Range(queue[q]) \ {e}
  <2>1. queue'[q] = Tail(queue[q]) /\ \A r \in Queues \ {q} : queue'[r] = queue[r]
    BY <1>1, <1>2 DEF IInv, TypeOK
  <2>2. IsInjective(Tail(queue[q])) /\ Range(Tail(queue[q])) = Range(queue[q]) \ {e}
    BY <1>3, RngTail
  <2> QED BY <2>1, <2>2
<1>5. NoEntries(t)
  BY <1>1, Unlinked DEF IInv, Linked
<1>6. NoEntries(t)'
  BY <1>4, <1>5 DEF NoEntries
<1>7. EntriesOK' /\ WakersOK' /\ SleeperIsQueued'
  BY <1>1, <1>2, <1>3, <1>4, <1>6, RemoveStep, SMT DEF Sleepy
<1>8. CallsOK' /\ AwokenOK'
  BY <1>1 DEF IInv, CallsOK, CallOK, AwokenOK, Others, Waiting, Linked
<1>9. LocksOK'
  BY <1>1, LocksFrame DEF IInv, Holds
<1> QED BY <1>7, <1>8, <1>9 DEF Rest

\* WakeEntry preserves the invariant.
LEMMA WakeEntryStep ==
  ASSUME IInv, NEW t \in Threads, WakeEntry(t)
  PROVE  Rest'
<1> DEFINE q == op[t].qs[1]
           u == Head(queue[q])[1]
<1>1. /\ Others(t) /\ lock' = lock /\ op' = op /\ queue' = queue
      /\ pc[t] = "wake" /\ pc'[t] = "wake_entry" /\ queue[q] # <<>>
      /\ state' = [state EXCEPT ![u] = RUNNING]
      /\ \E i : awoken' = [awoken EXCEPT ![u] = @ \union {i}]
  BY DEF IInv, TypeOK, WakeEntry, Unblock, At, Goto, Others, wq
<1>2. q \in Queues
  BY OpOK, SMT DEF IInv
<1>3. u \in Threads /\ pc[u] \in Linked
  <2>1. queue[q] \in Seq(Entries) /\ IsInjective(queue[q]) /\ queue[q] # <<>>
    BY <1>1, <1>2 DEF IInv, TypeOK, EntriesOK
  <2> HIDE DEF q
  <2>2. Head(queue[q]) \in Range(queue[q])
    BY <2>1, RngTail
  <2> QED BY <1>2, <2>2, EntryOK DEF IInv, EntriesOK
<1>4. u # t /\ pc'[u] \in Linked
  BY <1>1, <1>3 DEF Linked, Others
<1>5. /\ \A v \in Threads : state'[v] \in {state[v], RUNNING}
      /\ \A v \in Threads \ {u} : awoken'[v] = awoken[v]
      /\ state'[u] = RUNNING
  BY <1>1, <1>3 DEF IInv, TypeOK
<1>6. NoEntries(t)
  BY <1>1, Unlinked DEF IInv, Linked
<1>7. CallsOK' /\ AwokenOK'
  BY <1>1, <1>4, <1>5 DEF IInv, CallsOK, CallOK, AwokenOK, Others, Waiting, Linked
<1>8. LocksOK'
  BY <1>1, LocksFrame DEF IInv, Holds
<1>9. EntriesOK'
  BY <1>1, <1>6, EntriesFrame DEF IInv
<1>10. SleeperIsQueued'
  BY <1>1, <1>5, SleepersFrame DEF IInv, Sleepy
<1>11. WakersOK'
  <2> SUFFICES ASSUME NEW v \in Threads, pc'[v] = "wake_entry"
               PROVE  /\ queue[op[v].qs[1]] # <<>>
                      /\ state'[Head(queue[op[v].qs[1]])[1]] = RUNNING
    BY <1>1 DEF WakersOK
  <2>1. CASE v = t
    BY <1>1, <1>5, <2>1
  <2>2. CASE v # t
    <3>1. /\ queue[op[v].qs[1]] # <<>>
          /\ state[Head(queue[op[v].qs[1]])[1]] = RUNNING
      BY <1>1, <2>2 DEF IInv, WakersOK, Others
    <3>2. Head(queue[op[v].qs[1]])[1] \in Threads
      BY <3>1, OpOK, RngTail, EntryOK, SMT DEF IInv, TypeOK, EntriesOK
    <3> QED BY <1>5, <3>1, <3>2
  <2> QED BY <2>1, <2>2
<1> QED BY <1>7, <1>8, <1>9, <1>10, <1>11 DEF Rest

\* A call that returns leaves the variables of the call typed.
LEMMA ReturnTypes ==
  ASSUME TypeOK, NoCall \in Calls, NEW t \in Threads, Return(t)
  PROVE  /\ pc' \in [Threads -> Locations] /\ op' \in [Threads -> Calls]
         /\ idx' \in [Threads -> Nat] /\ target' \in [Threads -> Threads]
         /\ awoken' \in [Threads -> SUBSET (Nat \ {0})]
         /\ intr' \in [Threads -> SUBSET (Nat \ {0})]
         /\ ret' \in [Threads -> Nat \union {EINTR}] /\ first' \in [Threads -> Nat]
<1>1. pc' \in [Threads -> Locations] /\ op' \in [Threads -> Calls]
  BY DEF TypeOK, Return, Goto, Locations
<1>2. /\ idx' \in [Threads -> Nat] /\ target' \in [Threads -> Threads]
      /\ ret' \in [Threads -> Nat \union {EINTR}] /\ first' \in [Threads -> Nat]
  BY DEF TypeOK, Return
<1>3. /\ awoken' \in [Threads -> SUBSET (Nat \ {0})]
      /\ intr' \in [Threads -> SUBSET (Nat \ {0})]
  BY DEF TypeOK, Return
<1> QED BY <1>1, <1>2, <1>3

\* Every step keeps the types.
LEMMA TypeStep ==
  ASSUME IInv, NEW t \in Threads,
         \/ \E c \in Calls, u \in Threads : Call(t, c, u)
         \/ Step(t) \/ Dispatch(t) \/ Preempt(t)
  PROVE  TypeOK'
<1>a. TypeOK
  BY DEF IInv
<1>b. /\ Len(op[t].qs) \in Nat /\ op[t].qs[1] \in Queues
      /\ DOMAIN op[t].qs = 1..Len(op[t].qs)
  BY <1>a, OpOK, SMT
<1>c. ASSUME pc[t] \in Ending
      PROVE  idx[t] \in Nat \ {0} /\ op[t].qs[idx[t]] \in Queues
  <2>1. idx[t] \in 1..Len(op[t].qs) /\ op[t].qs[idx[t]] \in Queues
    BY <1>c, EndingEntries
  <2> QED BY <1>b, <2>1, SMT
<1>d. ASSUME pc[t] = "which" PROVE idx[t] \in Nat \ {0}
  <2>1. idx[t] \in DOMAIN op[t].qs
    BY <1>d DEF IInv, CallsOK, CallOK, Waiting
  <2> QED BY <1>b, <2>1, SMT
<1>e. ASSUME queue[op[t].qs[1]] # <<>>
      PROVE  /\ Head(queue[op[t].qs[1]])[1] \in Threads
             /\ Head(queue[op[t].qs[1]])[2] \in Nat \ {0}
             /\ Tail(queue[op[t].qs[1]]) \in Seq(Entries)
  <2> DEFINE s == queue[op[t].qs[1]]
  <2>1. s \in Seq(Entries) /\ IsInjective(s)
    BY <1>a, <1>b DEF IInv, TypeOK, EntriesOK
  <2>2. Head(s) \in Entries /\ Tail(s) \in Seq(Entries)
    <3> HIDE DEF s
    <3>1. s # <<>>
      BY <1>e DEF s
    <3> QED BY <2>1, <3>1, SMT
  <2> QED BY <2>2 DEF Entries
<1> USE DEF TypeOK, At, Goto
<1>. IInv /\ TypeOK
  BY DEF IInv
<1>0. NoCall \in Calls
  BY CallsAssumption DEF NoCall
<1>1. ASSUME NEW c \in Calls, NEW u \in Threads, Call(t, c, u) PROVE TypeOK'
  <2>1. c.nr \in Nat
    BY CallsAssumption DEF AllCalls
  <2> QED BY <1>1, <2>1 DEF Call, Locations, Waiting, Waking, Signalling, wq, entry
<1>2. CASE LockQueue(t)
  <2>1. op[t].qs[idx[t]] \in Queues
    BY <1>2, OpOK DEF IInv, LockQueue, CallsOK, CallOK, Waiting
  <2>2. lock' \in [Queues -> Threads \union {None}]
    BY <1>2, <2>1 DEF LockQueue
  <2>3. idx' \in [Threads -> Nat] /\ pc' \in [Threads -> Locations]
    <3>1. CASE idx[t] = Len(op[t].qs)
      BY <1>2, <3>1 DEF LockQueue, Locations, Waiting
    <3>2. CASE idx[t] # Len(op[t].qs)
      <4>1. idx' = [idx EXCEPT ![t] = idx[t] + 1] /\ pc' = pc
        BY <1>2, <3>2 DEF LockQueue
      <4> QED BY <4>1, SMT
    <3> QED BY <3>1, <3>2
  <2> QED BY <1>2, <2>2, <2>3 DEF LockQueue, sched, entry
<1>3. CASE SetState(t)
  <2>1. op[t].st \in States
    BY OpOK DEF AllCalls, States
  <2> QED BY <1>3, <2>1 DEF SetState, Locations, Waiting, wq, entry
<1>4. CASE Link(t)
  <2> DEFINE qs == op[t].qs
  <2>1. ASSUME NEW q \in Queues PROVE queue'[q] \in Seq(Entries)
    <3>1. CASE \E i \in DOMAIN qs : qs[i] = q
      <4> DEFINE i == CHOOSE i \in DOMAIN qs : qs[i] = q
      <4>1. i \in DOMAIN qs
        BY <3>1
      <4> HIDE DEF i
      <4>2. <<t, i>> \in Entries
        <5>1. i \in Nat \ {0}
          BY <4>1, <1>b, SMT
        <5> QED BY <5>1 DEF Entries
      <4>3. queue'[q] = Insert(queue[q], <<t, i>>, op[t])
        BY <1>4, <3>1 DEF Link, i
      <4> QED BY <4>2, <4>3, RngAppend, RngCons, SMT DEF Insert
    <3>2. CASE ~\E i \in DOMAIN qs : qs[i] = q
      BY <1>4, <3>2 DEF Link
    <3> QED BY <3>1, <3>2
  <2>2. queue' \in [Queues -> Seq(Entries)]
    BY <1>4, <2>1 DEF Link
  <2>3. lock' \in [Queues -> Threads \union {None}]
    BY <1>4 DEF Link
  <2> QED BY <1>4, <2>2, <2>3 DEF Link, Locations, Waiting, sched, entry
<1>5. CASE Check(t) \/ Yield(t) \/ Finish(t)
  <2>1. CASE Check(t)
    BY <2>1 DEF Check, Locations, Waiting, sched, wq, entry
  <2>2. CASE Yield(t)
    BY <2>2 DEF Yield, Locations, Waiting, wq, entry
  <2>3. CASE Finish(t)
    BY <2>3 DEF Finish, Locations, Waiting, States, wq, entry
  <2> QED BY <1>5, <2>1, <2>2, <2>3
<1>6. CASE Resume(t)
  BY <1>6, SMT DEF Resume, Locations, Waiting, EINTR, sched, wq
<1>7. CASE Which(t)
  <2>1. idx[t] \in Nat \ {0} /\ Len(op[t].qs) \in Nat
    BY <1>7, <1>b, <1>d DEF Which
  <2>2. idx' \in [Threads -> Nat] /\ pc' \in [Threads -> Locations]
    <3>1. CASE idx[t] \in awoken[t]
      <4>1. /\ idx' = [idx EXCEPT ![t] = Len(op[t].qs)]
            /\ pc' = [pc EXCEPT ![t] = "finish"]
        BY <1>7, <3>1 DEF Which
      <4> QED BY <2>1, <4>1 DEF Locations, Waiting
    <3>2. CASE idx[t] \notin awoken[t] /\ idx[t] < Len(op[t].qs)
      <4>1. idx' = [idx EXCEPT ![t] = idx[t] + 1] /\ pc' = pc
        BY <1>7, <2>1, <3>2, SMT DEF Which
      <4> QED BY <4>1, SMT
    <3>3. CASE idx[t] \notin awoken[t] /\ idx[t] = Len(op[t].qs)
      <4>1. idx' = idx /\ pc' = [pc EXCEPT ![t] = "finish"]
        BY <1>7, <2>1, <3>3, SMT DEF Which
      <4> QED BY <4>1 DEF Locations, Waiting
    <3> QED BY <1>7, <3>1, <3>2, <3>3 DEF Which
  <2>3. ret' \in [Threads -> Nat \union {EINTR}]
    BY <1>7, <2>1 DEF Which
  <2> QED BY <1>7, <2>2, <2>3 DEF Which, sched, wq
<1>8. ASSUME NextEntry(t), pc[t] \in Ending
      PROVE  /\ pc' \in [Threads -> Locations] /\ op' \in [Threads -> Calls]
             /\ idx' \in [Threads -> Nat] /\ target' \in [Threads -> Threads]
             /\ awoken' \in [Threads -> SUBSET (Nat \ {0})]
             /\ intr' \in [Threads -> SUBSET (Nat \ {0})]
             /\ ret' \in [Threads -> Nat \union {EINTR}] /\ first' \in [Threads -> Nat]
  <2>1. idx[t] \in Nat \ {0}
    BY <1>8, <1>c
  <2>2. CASE idx[t] = 1
    <3>1. Return(t)
      BY <1>8, <2>2 DEF NextEntry
    <3> QED BY <1>0, <3>1, ReturnTypes
  <2>3. CASE idx[t] # 1
    <3>1. idx[t] - 1 \in Nat
      BY <2>1, SMT
    <3>2. /\ idx' = [idx EXCEPT ![t] = idx[t] - 1] /\ pc' = [pc EXCEPT ![t] = "finish"]
          /\ UNCHANGED <<op, target, awoken, intr, ret, first>>
      BY <1>8, <2>3 DEF NextEntry, entry
    <3> QED BY <3>1, <3>2 DEF Locations, Waiting
  <2> QED BY <2>2, <2>3
<1>9. CASE Careful(t)
  <2>1. CASE NextEntry(t)
    BY <1>8, <1>9, <2>1 DEF Careful, Ending, sched, wq
  <2>2. CASE Goto(t, "unlink") /\ UNCHANGED <<op, idx, target, entry>>
    BY <1>9, <2>2 DEF Careful, Locations, Waiting, sched, wq, entry
  <2> QED BY <1>9, <2>1, <2>2 DEF Careful
<1>10. CASE Unlink(t)
  <2> DEFINE q == op[t].qs[idx[t]]
  <2>1. q \in Queues
    BY <1>10, <1>c DEF Unlink, Ending
  <2>2. Del(queue[q], <<t, idx[t]>>) \in Seq(Entries)
    BY <2>1, RngDel DEF IInv, EntriesOK
  <2>3. queue' \in [Queues -> Seq(Entries)]
    BY <1>10, <2>1, <2>2 DEF Unlink, QueueOf
  <2> QED BY <1>8, <1>10, <2>3 DEF Unlink, Ending, sched
<1>11. CASE WakeLock(t)
  BY <1>11, OpOK DEF WakeLock, Locations, Waking, sched, entry
<1>12. CASE WakeEntry(t)
  <2> DEFINE e == Head(queue[op[t].qs[1]])
  <2>1. e[1] \in Threads /\ e[2] \in Nat \ {0}
    BY <1>12, <1>e DEF WakeEntry
  <2> QED BY <1>12, <2>1 DEF WakeEntry, Unblock, Locations, Waking, States, wq
<1>13. CASE AutoRemove(t)
  <2> DEFINE q == op[t].qs[1]
             e == Head(queue[q])
  <2>1. q \in Queues /\ queue[q] # <<>>
    BY <1>13, <1>b DEF IInv, AutoRemove, WakersOK
  <2>2. e[1] \in Threads /\ e[2] \in Nat \ {0} /\ Tail(queue[q]) \in Seq(Entries)
    BY <2>1, <1>e
  <2>3. queue' \in [Queues -> Seq(Entries)]
    BY <1>13, <2>1, <2>2 DEF AutoRemove
  <2>4. idx' \in [Threads -> Nat]
    <3> DEFINE n == IF op[e[1]].excl /\ idx[t] # 0 THEN idx[t] - 1 ELSE idx[t]
    <3>1. n \in Nat
      BY SMT
    <3>2. idx' = [idx EXCEPT ![t] = n]
      BY <1>13 DEF AutoRemove
    <3> HIDE DEF n
    <3> QED BY <3>1, <3>2
  <2>5. intr' \in [Threads -> SUBSET (Nat \ {0})]
    BY <1>13, <2>2 DEF AutoRemove
  <2> QED BY <1>13, <2>3, <2>4, <2>5 DEF AutoRemove, Locations, Waking, sched
<1>14. CASE WakeUnlock(t)
  BY <1>0, <1>14, OpOK DEF WakeUnlock, Return, Locations, sched
<1>15. CASE SigPend(t) \/ SigRude(t)
  <2>1. CASE SigPend(t)
    BY <2>1 DEF SigPend, Locations, Signalling, wq, entry
  <2>2. CASE SigRude(t)
    BY <2>2 DEF SigRude, Locations, Signalling, wq, entry
  <2> QED BY <1>15, <2>1, <2>2
<1>16. CASE SigCheck(t)
  <2>1. CASE state[target[t]] = INTERRUPTIBLE
    BY <1>16, <2>1 DEF SigCheck, Locations, Signalling, sched, wq, entry
  <2>2. CASE state[target[t]] # INTERRUPTIBLE
    BY <1>0, <1>16, <2>2, ReturnTypes DEF SigCheck, sched, wq
  <2> QED BY <2>1, <2>2
<1>17. CASE SigState(t)
  BY <1>0, <1>17 DEF SigState, Return, Locations, States, wq
<1>18. CASE Dispatch(t) \/ Preempt(t)
  BY <1>18 DEF Dispatch, Preempt, wq, entry
<1> QED
  BY <1>1, <1>2, <1>3, <1>4, <1>5, <1>6, <1>7, <1>9, <1>10, <1>11, <1>12, <1>13,
     <1>14, <1>15, <1>16, <1>17, <1>18 DEF Step

-----------------------------------------------------------------------------
(* The theorems *)

\* IInv is inductive.
LEMMA NextIInv == IInv /\ [Next]_vars => IInv'
<1> SUFFICES ASSUME IInv, [Next]_vars PROVE IInv'
  OBVIOUS
<1>1. ASSUME NEW t \in Threads,
             \/ \E c \in Calls, u \in Threads : Call(t, c, u)
             \/ Step(t) \/ Dispatch(t) \/ Preempt(t)
      PROVE  IInv'
  <2>1. TypeOK'
    BY <1>1, TypeStep
  <2>2. Rest'
    BY <1>1, CallStep, LockQueueStep, SetStateStep, LinkStep, CheckStep, YieldStep,
       ResumeStep, WhichStep, FinishStep, CarefulStep, UnlinkStep, WakeLockStep,
       WakeEntryStep, AutoRemoveStep, WakeUnlockStep, SigPendStep, SigCheckStep,
       SigRudeStep, SigStateStep, SchedulerStep DEF Step
  <2> QED BY <2>1, <2>2 DEF IInv, Rest
<1>2. CASE UNCHANGED vars
  <2>1. /\ state' = state /\ oncpu' = oncpu /\ rudely' = rudely /\ pending' = pending
        /\ lock' = lock /\ queue' = queue /\ pc' = pc /\ op' = op /\ idx' = idx
        /\ target' = target /\ awoken' = awoken /\ intr' = intr /\ ret' = ret
        /\ first' = first
    BY <1>2 DEF vars
  <2>2. TypeOK'
    BY <2>1 DEF IInv, TypeOK
  <2>3. CallsOK' /\ AwokenOK'
    BY <2>1 DEF IInv, CallsOK, CallOK, AwokenOK
  <2>4. LocksOK'
    BY <2>1, SMT DEF IInv, LocksOK, Holds
  <2>5. EntriesOK' /\ WakersOK'
    BY <2>1 DEF IInv, EntriesOK, WakersOK
  <2>6. SleeperIsQueued'
    BY <2>1 DEF IInv, SleeperIsQueued, QueueOf, Members
  <2> QED BY <2>2, <2>3, <2>4, <2>5, <2>6 DEF IInv
<1> QED BY <1>1, <1>2 DEF Next

\* Whatever the threads, the queues and the calls, no wake-up is lost: a thread
\* that sleeps, or is about to, in wait(), wait_exclusive(), prepare_to_wait() or
\* multi_wait() is on every queue it named and no waker has reached its entries.
THEOREM NoLostWakeup == Spec => []SleeperIsQueued
<1>1. IInv => SleeperIsQueued
  BY DEF IInv
<1> QED BY <1>1, InitIInv, NextIInv, PTL DEF Spec

\* Every entry on a list is of a call that is still in progress (the entries
\* live on the stack of the waiting thread), is on the list of the queue it was
\* made for, and is there once: what finish() and autoremove_wake_function
\* between them must keep. The variables keep their types throughout.
THEOREM NoDangling == Spec => [](TypeOK /\ NoDanglingEntry)
<1>1. IInv => TypeOK /\ NoDanglingEntry
  <2> SUFFICES ASSUME IInv PROVE NoDanglingEntry
    BY DEF IInv
  <2>1. ASSUME NEW q \in Queues, NEW e \in Range(queue[q])
        PROVE  /\ pc[e[1]] \in Waiting /\ op[e[1]].kind \in WaitKinds
               /\ e[2] \in DOMAIN op[e[1]].qs /\ op[e[1]].qs[e[2]] = q
    <3>1. e[1] \in Threads
      BY EntryOK DEF IInv
    <3> QED BY <3>1 DEF IInv, EntriesOK, CallsOK, CallOK, Linked, Waiting
  <2> QED BY <2>1 DEF IInv, EntriesOK, NoDanglingEntry, Members, QueueOf
<1> QED BY <1>1, InitIInv, NextIInv, PTL DEF Spec

-----------------------------------------------------------------------------
(* The order of a queue *)

\* What NonExclusiveFirst says of one list, with the calls o.
Before(o, e) == o[e[1]].excl /\ o[e[1]].kind = "wait"
Ordered(s, o) == \A j, k \in DOMAIN s : j < k /\ Before(o, s[j]) => o[s[k][1]].excl

\* A list that has lost an entry is ordered as before.
LEMMA OrderedDel ==
  ASSUME NEW S, NEW s \in Seq(S), NEW o, Ordered(s, o), NEW e
  PROVE  Ordered(Del(s, e), o)
<1>1. CASE ~ \E k \in DOMAIN s : s[k] = e
  BY <1>1 DEF Del
<1>2. CASE \E k \in DOMAIN s : s[k] = e
  <2> DEFINE n == CHOOSE k \in DOMAIN s : s[k] = e
             r == [j \in 1..(Len(s) - 1) |-> IF j < n THEN s[j] ELSE s[j + 1]]
             at(j) == IF j < n THEN j ELSE j + 1
  <2>1. n \in 1..Len(s) /\ Len(s) \in Nat /\ DOMAIN s = 1..Len(s)
    BY <1>2, SMT
  <2>2. Del(s, e) = r
    BY <1>2 DEF Del
  <2> HIDE DEF n
  <2>3. \A j \in 1..(Len(s) - 1) : at(j) \in DOMAIN s /\ r[j] = s[at(j)]
    BY <2>1, SMT
  <2>4. \A j, k \in 1..(Len(s) - 1) : j < k => at(j) < at(k)
    BY <2>1, SMT
  <2>5. DOMAIN r = 1..(Len(s) - 1)
    OBVIOUS
  <2> HIDE DEF r, at
  <2>6. Ordered(r, o)
    BY <2>3, <2>4, <2>5, SMT DEF Ordered
  <2> QED BY <2>2, <2>6
<1> QED BY <1>1, <1>2

\* So is one that has lost its head.
LEMMA OrderedTail ==
  ASSUME NEW S, NEW s \in Seq(S), s # <<>>, NEW o, Ordered(s, o)
  PROVE  Ordered(Tail(s), o)
<1>1. /\ DOMAIN s = 1..Len(s) /\ Len(s) \in Nat /\ DOMAIN Tail(s) = 1..(Len(s) - 1)
      /\ \A j \in 1..(Len(s) - 1) : Tail(s)[j] = s[j + 1]
  BY SMT
<1>2. \A j, k \in 1..(Len(s) - 1) : j + 1 \in DOMAIN s /\ (j < k => j + 1 < k + 1)
  BY <1>1, SMT
<1> QED BY <1>1, <1>2, SMT DEF Ordered

\* And so is one that wait(), wait_exclusive(), prepare_to_wait() or multi_wait()
\* has added an entry to.
LEMMA OrderedInsert ==
  ASSUME NEW S, NEW s \in Seq(S), NEW e \in S, NEW o, Ordered(s, o)
  PROVE  Ordered(Insert(s, e, o[e[1]]), o)
<1>0. DOMAIN s = 1..Len(s) /\ Len(s) \in Nat
  BY SMT
<1>1. CASE o[e[1]].excl /\ o[e[1]].kind # "multi_wait"
  <2>1. Insert(s, e, o[e[1]]) = Append(s, e)
    BY <1>1 DEF Insert
  <2>2. /\ DOMAIN Append(s, e) = 1..(Len(s) + 1) /\ Append(s, e)[Len(s) + 1] = e
        /\ \A j \in 1..Len(s) : Append(s, e)[j] = s[j]
    BY SMT
  <2>3. Ordered(Append(s, e), o)
    <3> SUFFICES ASSUME NEW j \in 1..(Len(s) + 1), NEW k \in 1..(Len(s) + 1), j < k,
                        Before(o, Append(s, e)[j])
                 PROVE  o[Append(s, e)[k][1]].excl
      BY <2>2 DEF Ordered
    <3>1. CASE k = Len(s) + 1
      BY <1>1, <2>2, <3>1
    <3>2. CASE k # Len(s) + 1
      <4>1. j \in DOMAIN s /\ k \in DOMAIN s
        BY <1>0, <3>2, SMT
      <4> QED BY <1>0, <2>2, <4>1 DEF Ordered
    <3> QED BY <3>1, <3>2
  <2> QED BY <2>1, <2>3
<1>2. CASE ~(o[e[1]].excl /\ o[e[1]].kind # "multi_wait")
  <2> DEFINE r == <<e>> \o s
  <2>1. Insert(s, e, o[e[1]]) = r /\ ~Before(o, e)
    BY <1>2 DEF Insert, Before
  <2>2. /\ DOMAIN r = 1..(Len(s) + 1) /\ r[1] = e
        /\ \A j \in 2..(Len(s) + 1) : r[j] = s[j - 1]
    BY SMT
  <2> HIDE DEF r
  <2>3. Ordered(r, o)
    <3> SUFFICES ASSUME NEW j \in 1..(Len(s) + 1), NEW k \in 1..(Len(s) + 1), j < k, Before(o, r[j])
                 PROVE  o[r[k][1]].excl
      BY <2>2 DEF Ordered
    <3>1. j # 1
      BY <2>1, <2>2
    <3>2. j - 1 \in DOMAIN s /\ k - 1 \in DOMAIN s /\ j - 1 < k - 1
      BY <1>0, <3>1, SMT
    <3>3. r[j] = s[j - 1] /\ r[k] = s[k - 1]
      BY <1>0, <2>2, <3>1, SMT
    <3> QED BY <3>2, <3>3 DEF Ordered
  <2> QED BY <2>1, <2>3
<1> QED BY <1>1, <1>2

\* A thread's call changes only where it has no entry on a list.
LEMMA CallStays ==
  ASSUME IInv, [Next]_vars, NEW u \in Threads, pc'[u] \in Linked
  PROVE  op'[u] = op[u]
<1>1. ASSUME NEW t \in Threads, op' = op \/ Return(t) PROVE op'[u] = op[u]
  BY <1>1, SMT DEF IInv, TypeOK, Return, Goto, Linked
<1>2. ASSUME NEW t \in Threads, NEW c \in Calls, NEW to \in Threads, Call(t, c, to)
      PROVE  op'[u] = op[u]
  <2>1. pc'[t] \in {"lock", "wake_lock", "sig_pend"} /\ \A v \in Threads \ {t} : op'[v] = op[v]
    BY <1>2 DEF IInv, TypeOK, Call, Goto
  <2> QED BY <2>1 DEF Linked
<1>3. ASSUME NEW t \in Threads, Step(t) \/ Dispatch(t) \/ Preempt(t) PROVE op' = op \/ Return(t)
  <2>1. ASSUME NextEntry(t) PROVE op' = op \/ Return(t)
    BY <2>1 DEF NextEntry
  <2> QED
    BY <1>3, <2>1 DEF Step, LockQueue, SetState, Link, Check, Yield, Resume, Which, Finish, Careful, Unlink,
          WakeLock, WakeEntry, AutoRemove, WakeUnlock, SigPend, SigCheck, SigRude, SigState,
          Dispatch, Preempt
<1>4. CASE UNCHANGED vars
  BY <1>4 DEF vars
<1> QED BY <1>1, <1>2, <1>3, <1>4 DEF Next

\* A step that touches a list adds an entry of the thread's own, or takes one out.
LEMMA ListStep ==
  ASSUME IInv, [Next]_vars, NEW q \in Queues, Ordered(queue[q], op)
  PROVE  Ordered(queue'[q], op)
<1>1. queue[q] \in Seq(Entries)
  BY DEF IInv, TypeOK
<1>2. ASSUME NEW t \in Threads, Link(t) PROVE Ordered(queue'[q], op)
  <2> DEFINE qs == op[t].qs
             i == CHOOSE i \in DOMAIN qs : qs[i] = q
  <2>1. CASE \E j \in DOMAIN qs : qs[j] = q
    <3>1. queue'[q] = Insert(queue[q], <<t, i>>, op[t])
      BY <1>2, <2>1 DEF Link
    <3>2. i \in DOMAIN qs
      BY <2>1
    <3> HIDE DEF i
    <3>3. <<t, i>> \in Entries
      <4>1. i \in Nat \ {0}
        BY <3>2, OpOK, SMT DEF IInv
      <4> QED BY <4>1 DEF Entries
    <3> QED BY <1>1, <3>1, <3>3, OrderedInsert, SMT
  <2>2. CASE ~ \E j \in DOMAIN qs : qs[j] = q
    <3>1. queue'[q] = queue[q]
      BY <1>2, <2>2 DEF Link
    <3> QED BY <3>1
  <2> QED BY <2>1, <2>2
<1>3. ASSUME NEW t \in Threads, Unlink(t) PROVE Ordered(queue'[q], op)
  <2>1. queue'[q] = queue[q] \/ queue'[q] = Del(queue[q], <<t, idx[t]>>)
    BY <1>3 DEF IInv, TypeOK, Unlink
  <2> QED BY <1>1, <2>1, OrderedDel
<1>4. ASSUME NEW t \in Threads, AutoRemove(t) PROVE Ordered(queue'[q], op)
  <2>1. queue[op[t].qs[1]] # <<>>
    BY <1>4 DEF IInv, WakersOK, AutoRemove, At
  <2>2. queue'[q] = queue[q] \/ (queue[q] # <<>> /\ queue'[q] = Tail(queue[q]))
    BY <1>4, <2>1 DEF IInv, TypeOK, AutoRemove
  <2> QED BY <1>1, <2>2, OrderedTail
<1>5. CASE queue' = queue
  BY <1>5
<1>6. ASSUME NEW t \in Threads, Step(t) \/ Dispatch(t) \/ Preempt(t)
      PROVE  queue' = queue \/ Link(t) \/ Unlink(t) \/ AutoRemove(t)
  BY <1>6 DEF Step, LockQueue, SetState, Check, Yield, Resume, Which, Finish, Careful, WakeLock,
        WakeEntry, WakeUnlock, SigPend, SigCheck, SigRude, SigState, Dispatch, Preempt, wq
<1>7. ASSUME NEW t \in Threads, NEW c \in Calls, NEW to \in Threads, Call(t, c, to)
      PROVE  queue' = queue
  BY <1>7 DEF Call, wq
<1>8. CASE UNCHANGED vars
  BY <1>5, <1>8 DEF vars
<1> QED BY <1>2, <1>3, <1>4, <1>5, <1>6, <1>7, <1>8 DEF Next

\* Every step keeps the order of the lists.
LEMMA OrderNext == IInv /\ IInv' /\ NonExclusiveFirst /\ [Next]_vars => NonExclusiveFirst'
<1> SUFFICES ASSUME IInv, IInv', NonExclusiveFirst, [Next]_vars, NEW q \in Queues
             PROVE  Ordered(queue'[q], op')
  BY DEF NonExclusiveFirst, Ordered, Before
<1>1. Ordered(queue'[q], op)
  <2>1. Ordered(queue[q], op)
    BY DEF NonExclusiveFirst, Ordered, Before
  <2> QED BY <2>1, ListStep
<1>2. ASSUME NEW j \in DOMAIN queue'[q] PROVE op'[queue'[q][j][1]] = op[queue'[q][j][1]]
  <2>1. queue'[q] \in Seq(Entries) /\ queue'[q][j] \in Entries
    BY <1>2, SMT DEF IInv, TypeOK
  <2>2. pc'[queue'[q][j][1]] \in Linked
    <3>1. queue'[q][j] \in Range(queue[q])'
      BY <1>2 DEF Range
    <3> QED BY <3>1 DEF IInv, EntriesOK
  <2>3. queue'[q][j][1] \in Threads
    BY <2>1 DEF Entries
  <2> QED BY <2>2, <2>3, CallStays
<1> QED BY <1>1, <1>2 DEF Ordered, Before

\* Whatever the threads, the queues and the calls, nobody who waits without
\* exclusion is behind a waiter of wait_exclusive(): a wake_up() that stops at
\* one has woken every non-exclusive waiter by then.
THEOREM ExclusiveLast == Spec => []NonExclusiveFirst
<1>1. Init => NonExclusiveFirst
  BY SMT DEF Init, NonExclusiveFirst
<1> QED BY <1>1, InitIInv, NextIInv, OrderNext, PTL DEF Spec
=============================================================================
