------------------------------ MODULE RunQueue ------------------------------
(***************************************************************************)
(* The run queues of one CPU as the code has them (mlfq::queue and         *)
(* mlfq::boost, kernel/sched/core.cpp): threads linked through sched.next  *)
(* and sched.prev, with a front and a back for each priority. Every        *)
(* operation runs under the lock of the mlfq and is one step. Shown to     *)
(* implement TaskLists.                                                    *)
(***************************************************************************)
EXTENDS Integers, Lists

CONSTANTS Threads, NQueues, NULL

VARIABLES
  mem,      \* front and back of the queues; next, prev and priority of the threads
  runnable  \* the threads in PS_RUNNING

vars == <<mem, runnable>>

Prios == 0..(NQueues - 1)
Ptr == Threads \union {NULL}
Memory ==
  [front : [Prios -> Ptr], back : [Prios -> Ptr], next : [Threads -> Ptr],
   prev : [Threads -> Ptr], priority : [Threads -> Prios]]

Init ==
  /\ mem = [front |-> [p \in Prios |-> NULL], back |-> [p \in Prios |-> NULL],
            next |-> [t \in Threads |-> NULL], prev |-> [t \in Threads |-> NULL],
            priority |-> [t \in Threads |-> 0]]
  /\ runnable = {}

-----------------------------------------------------------------------------
(* mlfq::queue *)

add_task(m, p, t) ==
  IF m.front[p] = NULL
    THEN [m EXCEPT !.front[p] = t, !.back[p] = t, !.next[t] = NULL, !.prev[t] = NULL]
    ELSE [m EXCEPT !.next[m.back[p]] = t, !.next[t] = NULL, !.prev[t] = m.back[p],
                   !.back[p] = t]

remove_task(m, p, t) ==
  LET n == m.next[t]  v == m.prev[t] IN
  [m EXCEPT !.prev = [u \in Threads |-> IF u = n THEN v ELSE IF u = t THEN NULL ELSE @[u]],
            !.next = [u \in Threads |-> IF u = v THEN n ELSE IF u = t THEN NULL ELSE @[u]],
            !.back[p] = IF @ = t THEN v ELSE @,
            !.front[p] = IF @ = t THEN n ELSE @]

\* The threads from t on, along next or along prev.
Walk(link, t) ==
  LET walk[u \in Ptr] == IF u = NULL THEN <<>> ELSE <<u>> \o walk[link[u]] IN walk[t]

\* The loop of pick_next: the first runnable thread from t on, or NULL.
FirstRunnable(m, t) ==
  LET first[u \in Ptr] == IF u = NULL \/ u \in runnable THEN u ELSE first[m.next[u]]
  IN  first[t]

-----------------------------------------------------------------------------
(* mlfq *)

\* boost() moves thread t of queue p to the queue of half its priority.
Halve(m, p, t) ==
  LET h == m.priority[t] \div 2
  IN  add_task([remove_task(m, p, t) EXCEPT !.priority[t] = h], h, t)

\* Mutant of BoostQueue: the successor is read before the thread is moved.
BoostQueueAll(m, p, t) ==
  LET loop[k \in Memory, u \in Ptr] ==
        IF u = NULL THEN k ELSE loop[Halve(k, p, u), k.next[u]]
  IN  loop[m, t]

\* The inner loop of boost(), from thread t of queue p on: t is moved, and then
\* the loop goes on to the sched.next that t has on its new queue.
BoostQueue(m, p, t) ==
  LET loop[k \in Memory, u \in Ptr] ==
        IF u = NULL THEN k
        ELSE LET moved == Halve(k, p, u) IN loop[moved, moved.next[u]]
  IN  loop[m, t]

\* The outer loop of boost(), from queue p on.
BoostFrom(m, p) ==
  LET loop[k \in Memory, q \in 0..NQueues] ==
        IF q = NQueues THEN k ELSE loop[BoostQueue(k, q, k.front[q]), q + 1]
  IN  loop[m, p]

Queued(t) == \E p \in Prios : t \in Range(Walk(mem.next, mem.front[p]))

\* mlfq::add, once it has chosen the priority. The thread is on no queue: see
\* OnePlace of Mlfq.
Add(p, t) ==
  /\ ~Queued(t)
  /\ mem' = add_task([mem EXCEPT !.priority[t] = p], p, t)
  /\ UNCHANGED runnable

\* mlfq::remove. The thread may have been picked already, and then it is on no
\* queue.
Remove(t) ==
  /\ mem' = remove_task(mem, mem.priority[t], t)
  /\ UNCHANGED runnable

\* mlfq::get_next, mlfq::steal: pick_next() on each queue in turn.
Pick ==
  /\ \E p \in Prios : LET t == FirstRunnable(mem, mem.front[p]) IN
       /\ t # NULL
       /\ \A r \in 0..(p - 1) : FirstRunnable(mem, mem.front[r]) = NULL
       /\ mem' = remove_task(mem, p, t)
  /\ UNCHANGED runnable

Boost ==
  /\ mem' = BoostFrom(mem, 1)
  /\ UNCHANGED runnable

\* Threads sleep and are woken.
SetState(t) ==
  /\ runnable' = IF t \in runnable THEN runnable \ {t} ELSE runnable \union {t}
  /\ UNCHANGED mem

Next ==
  \/ \E t \in Threads : Remove(t) \/ SetState(t) \/ \E p \in Prios : Add(p, t)
  \/ Pick \/ Boost

Spec == Init /\ [][Next]_vars

-----------------------------------------------------------------------------
(* Properties *)

TypeOK ==
  /\ mem \in Memory
  /\ runnable \in SUBSET Threads

Lists_ == INSTANCE TaskLists WITH
  tasks <- [p \in Prios |-> Walk(mem.next, mem.front[p])]

\* The queues implement TaskLists: a thread is added at the end of one queue,
\* pick_next() takes the first runnable one, and boost() moves one thread of
\* each queue.
ImplementsTaskLists == Lists_!Spec
=============================================================================
