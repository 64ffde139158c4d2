----------------------------- MODULE TaskLists -----------------------------
(***************************************************************************)
(* What the run queues of a CPU promise, and what Mlfq.tla takes them to   *)
(* be: sequences of threads, one for each priority.                        *)
(***************************************************************************)
EXTENDS Integers, Lists

CONSTANTS Threads, NQueues

VARIABLES
  tasks,     \* tasks[p]: the threads of queue p, first to last
  runnable   \* the threads in PS_RUNNING

Prios == 0..(NQueues - 1)

Init == tasks = [p \in Prios |-> <<>>] /\ runnable = {}

Add(p, t) ==
  /\ \A r \in Prios : t \notin Range(tasks[r])
  /\ tasks' = [tasks EXCEPT ![p] = Append(@, t)]
  /\ UNCHANGED runnable

Remove(p, t) ==
  /\ t \in Range(tasks[p])
  /\ tasks' = [tasks EXCEPT ![p] = Del(@, t)]
  /\ UNCHANGED runnable

\* The first runnable thread of the first queue that has one.
Pick ==
  /\ \E p \in Prios : \E i \in DOMAIN tasks[p] :
       /\ tasks[p][i] \in runnable
       /\ \A j \in 1..(i - 1) : tasks[p][j] \notin runnable
       /\ \A r \in 0..(p - 1) : Range(tasks[r]) \intersect runnable = {}
       /\ tasks' = [tasks EXCEPT ![p] = Del(@, tasks[p][i])]
  /\ UNCHANGED runnable

Boost == tasks' = Boosted(tasks) /\ UNCHANGED runnable

SetState == runnable' \in SUBSET Threads /\ UNCHANGED tasks

Next ==
  \/ \E p \in Prios, t \in Threads : Add(p, t) \/ Remove(p, t)
  \/ Pick \/ Boost \/ SetState

Spec == Init /\ [][Next]_<<tasks, runnable>>
=============================================================================
