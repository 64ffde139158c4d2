------------------------------ MODULE ListHead ------------------------------
(***************************************************************************)
(* The circular doubly linked list (include/chariot/list_head.h) store by  *)
(* store, as the wait queues use it: entries are added and deleted under   *)
(* the queue's lock, but the owner of an entry asks is_empty_careful()     *)
(* without it, and when the answer is yes lets the entry go out of scope.  *)
(*                                                                         *)
(* `list' is what the list is meant to be, a sequence of entries. It is a  *)
(* history variable: no step reads it.                                     *)
(***************************************************************************)
EXTENDS Integers, Lists

CONSTANTS
  Nodes,   \* the entries, each with a thread that owns it
  Wakers,  \* threads that wake the queue
  TaskList,  \* wait_queue::task_list
  None

VARIABLES
  next, prev,  \* list_head::next, list_head::prev
  lock,        \* the thread that holds wait_queue::lock
  todo,        \* the stores that the operation in progress has left to do
  pc,          \* where the owner of an entry is
  list         \* history: the entries, first to last

vars == <<next, prev, lock, todo, pc, list>>

Poison == "LIST_POISON"
Heads == Nodes \union {TaskList}

Store(f, n, v) == [field |-> f, node |-> n, value |-> v]

\* __add(n, pv, nx)
AddStores(n, pv, nx) ==
  <<Store("prev", nx, n), Store("next", n, nx), Store("prev", n, pv), Store("next", pv, n)>>

\* del_init(): __del, the poison, init
DelStores(n) ==
  <<Store("prev", next[n], prev[n]), Store("next", prev[n], next[n]),
    Store("next", n, Poison), Store("prev", n, Poison),
    Store("next", n, n), Store("prev", n, n)>>

Init ==
  /\ next = [n \in Heads |-> n]
  /\ prev = [n \in Heads |-> n]
  /\ lock = None
  /\ todo = <<>>
  /\ pc = [n \in Nodes |-> "idle"]
  /\ list = <<>>

-----------------------------------------------------------------------------
\* task_list.add(&item), under the lock: the entry goes to the head.
Add(n) ==
  /\ pc[n] = "idle" /\ lock = None
  /\ lock' = n
  /\ todo' = AddStores(n, TaskList, next[TaskList])
  /\ pc' = [pc EXCEPT ![n] = "linking"]
  /\ list' = <<n>> \o list
  /\ UNCHANGED <<next, prev>>

\* task_list.add_tail(&item), under the lock.
AddTail(n) ==
  /\ pc[n] = "idle" /\ lock = None
  /\ lock' = n
  /\ todo' = AddStores(n, prev[TaskList], TaskList)
  /\ pc' = [pc EXCEPT ![n] = "linking"]
  /\ list' = Append(list, n)
  /\ UNCHANGED <<next, prev>>

\* is_empty_careful() loads this->next ...
CarefulNext(n) ==
  /\ pc[n] = "linked"
  /\ pc' = [pc EXCEPT ![n] = IF next[n] = n THEN "careful" ELSE "delete"]
  /\ UNCHANGED <<next, prev, lock, todo, list>>

\* Mutant of CarefulPrev: is_empty_careful() looks at this->next only.
CarefulNextOnly(n) ==
  /\ pc[n] = "careful"
  /\ pc' = [pc EXCEPT ![n] = "idle"]
  /\ UNCHANGED <<next, prev, lock, todo, list>>

\* ... and then this->prev. If both are the entry itself it is gone.
CarefulPrev(n) ==
  /\ pc[n] = "careful"
  /\ pc' = [pc EXCEPT ![n] = IF prev[n] = n THEN "idle" ELSE "delete"]
  /\ UNCHANGED <<next, prev, lock, todo, list>>

\* del_init() by the owner, under the lock; the entry may be off the list.
Delete(n) ==
  /\ pc[n] = "delete" /\ lock = None
  /\ lock' = n
  /\ todo' = DelStores(n)
  /\ pc' = [pc EXCEPT ![n] = "unlinking"]
  /\ list' = Del(list, n)
  /\ UNCHANGED <<next, prev>>

\* __wake_up_common: a waker takes the lock and deletes the first entry, then
\* perhaps the next.
Wake(w) ==
  /\ lock = None \/ (lock = w /\ todo = <<>>)
  /\ next[TaskList] # TaskList
  /\ lock' = w
  /\ todo' = DelStores(next[TaskList])
  /\ list' = Del(list, next[TaskList])
  /\ UNCHANGED <<next, prev, pc>>

\* The next store of the operation in progress; after the last of them its
\* thread releases the lock (a waker may go on to the next entry instead).
DoStore ==
  /\ todo # <<>>
  /\ LET s == Head(todo) IN
       IF s.field = "next"
         THEN next' = [next EXCEPT ![s.node] = s.value] /\ UNCHANGED prev
         ELSE prev' = [prev EXCEPT ![s.node] = s.value] /\ UNCHANGED next
  /\ todo' = Tail(todo)
  /\ UNCHANGED <<lock, pc, list>>

Unlock ==
  /\ lock # None /\ todo = <<>>
  /\ lock' = None
  /\ pc' = [n \in Nodes |->
       CASE n = lock /\ pc[n] = "linking" -> "linked"
         [] n = lock /\ pc[n] = "unlinking" -> "idle"
         [] OTHER -> pc[n]]
  /\ UNCHANGED <<next, prev, todo, list>>

Next ==
  \/ \E n \in Nodes :
       Add(n) \/ AddTail(n) \/ CarefulNext(n) \/ CarefulPrev(n) \/ Delete(n)
  \/ \E w \in Wakers : Wake(w)
  \/ DoStore \/ Unlock

Spec == Init /\ [][Next]_vars

\* The loop that wait.h documents for prepare_to_wait(): after a yield that a
\* signal ended, the entry is still on the list and is added again.
AddAgain(n) ==
  /\ pc[n] = "linked" /\ lock = None
  /\ lock' = n
  /\ todo' = AddStores(n, TaskList, next[TaskList])
  /\ pc' = [pc EXCEPT ![n] = "linking"]
  /\ list' = <<n>> \o Del(list, n)
  /\ UNCHANGED <<next, prev>>

LoopSpec == Init /\ [][Next \/ \E n \in Nodes : AddAgain(n)]_vars

-----------------------------------------------------------------------------
(* Properties *)

TypeOK ==
  /\ next \in [Heads -> Heads \union {Poison}]
  /\ prev \in [Heads -> Heads \union {Poison}]
  /\ lock \in Nodes \union Wakers \union {None}
  /\ todo \in Seq([field : {"next", "prev"}, node : Heads, value : Heads \union {Poison}])
  /\ pc \in [Nodes -> {"idle", "linking", "linked", "careful", "delete", "unlinking"}]
  /\ list \in Seq(Nodes)

\* The list is what the operations so far make of it: when the lock is free the
\* next pointers lead through the entries from the first to the last and back
\* to the head, the prev pointers the other way round, and an entry that is not
\* on the list points to itself.
ListIsExact ==
  lock = None =>
    /\ LET ring == <<TaskList>> \o list \o <<TaskList>> IN
         \A i \in 1..(Len(ring) - 1) : next[ring[i]] = ring[i + 1] /\ prev[ring[i + 1]] = ring[i]
    /\ \A n \in Nodes \ Range(list) : next[n] = n /\ prev[n] = n

\* What finish() relies on when it asks is_empty_careful() without the lock: an
\* entry whose owner has let it go is on no list, and no store to it is still
\* to come, although a waker may have been in the middle of del_init().
NoStrayStore ==
  \A n \in Nodes : pc[n] = "idle" =>
    n \notin Range(list) /\ \A i \in DOMAIN todo : todo[i].node # n

-----------------------------------------------------------------------------
(* What comments of the code say of it *)

\* "is_empty - test whether the list is empty" (list_head.h).
IsEmptyTests == lock = None => (prev[TaskList] = next[TaskList] <=> list = <<>>)

\* "The usage of these functions is as follows: ... for (;;) {
\* prepare_to_wait(wq, ent, true); if (cond) break; sched::yield(); }" (wait.h):
\* the loop keeps the list a list.
LoopKeepsList == ListIsExact
=============================================================================
