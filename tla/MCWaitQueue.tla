---------------------------- MODULE MCWaitQueue ----------------------------
(* Instances of WaitQueue for TLC. *)
EXTENDS WaitQueue, TLC

CONSTANTS q1, q2

Wait(q, st) == [kind |-> "wait", qs |-> <<q>>, excl |-> FALSE, st |-> st, nr |-> 0]
WaitExclusive(q) ==
  [kind |-> "wait", qs |-> <<q>>, excl |-> TRUE, st |-> INTERRUPTIBLE, nr |-> 0]
Prepare(q) ==
  [kind |-> "prepare", qs |-> <<q>>, excl |-> FALSE, st |-> INTERRUPTIBLE, nr |-> 0]
MultiWait(qs, excl) ==
  [kind |-> "multi_wait", qs |-> qs, excl |-> excl, st |-> INTERRUPTIBLE, nr |-> 0]
WakeUp(q, nr) ==
  [kind |-> "wake", qs |-> <<q>>, excl |-> FALSE, st |-> INTERRUPTIBLE, nr |-> nr]
Signal ==
  [kind |-> "signal", qs |-> <<q1>>, excl |-> FALSE, st |-> INTERRUPTIBLE, nr |-> 0]

\* One queue, exclusive and other waiters, wake_up and signals.
OneQueueCalls ==
  {Wait(q1, INTERRUPTIBLE), WaitExclusive(q1), WakeUp(q1, 1), Signal}

\* Two queues, multi_wait in one lock order.
TwoQueueCalls ==
  {Wait(q1, UNINTERRUPTIBLE), Prepare(q2), MultiWait(<<q1, q2>>, FALSE),
   MultiWait(<<q1, q2>>, TRUE), WakeUp(q1, 0), WakeUp(q2, 1)}

AllTheCalls == OneQueueCalls \union TwoQueueCalls

\* Two multi_waits that name the queues in opposite orders.
CrossedCalls ==
  {MultiWait(<<q1, q2>>, TRUE), MultiWait(<<q2, q1>>, TRUE), WakeUp(q1, 0)}

SignalCalls == {Wait(q1, INTERRUPTIBLE), Signal}

Symmetry == Permutations(Threads)
====
