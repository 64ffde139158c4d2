------------------------------- MODULE Lists -------------------------------
(***************************************************************************)
(* What the kernel's intrusive lists are to the modules that use them:     *)
(* sequences without repetition.                                           *)
(***************************************************************************)
EXTENDS Integers, Sequences, Functions

\* list_head::del_init, mlfq::queue::remove_task: e leaves s; nothing happens
\* if it had left already.
Del(s, e) ==
  IF \E k \in DOMAIN s : s[k] = e
    THEN LET k == CHOOSE k \in DOMAIN s : s[k] = e
         IN [j \in 1..(Len(s) - 1) |-> IF j < k THEN s[j] ELSE s[j + 1]]
    ELSE s

\* What mlfq::boost makes of the queues q[0], q[1], ...: the first thread of
\* each queue p > 0 goes to the end of queue p / 2, and no other thread moves.
Boosted(q) ==
  LET front(p) == IF p \in DOMAIN q \ {0} /\ q[p] # <<>> THEN <<Head(q[p])>> ELSE <<>>
      rest(p) == IF p > 0 /\ q[p] # <<>> THEN Tail(q[p]) ELSE q[p]
  IN [p \in DOMAIN q |->
        rest(p) \o (IF p = 0 THEN <<>> ELSE front(2 * p)) \o front(2 * p + 1)]
=============================================================================
