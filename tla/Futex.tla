------------------------------- MODULE Futex -------------------------------
(***************************************************************************)
(* One futex word of a process: the system call (kernel/proc.cpp) and      *)
(* ck::futex, the class over it (lib/ck/src/futex.cpp), with the errno of  *)
(* the C library in between, which all threads of the process share.       *)
(*                                                                         *)
(* wait_on(val) returns once it was woken while the word is val; set(val)  *)
(* stores the word and repeats FUTEX_WAKE until the call returns 1.        *)
(***************************************************************************)
EXTENDS Integers, Lists

CONSTANTS
  Waiters, Setters,
  Values,
  Initials,    \* the values a ck::futex is made with, a subset of Values
  MaxWaits,    \* the calls of wait_on() each waiter makes
  MaxSets,     \* the calls of set() each setter makes
  Signals      \* may signals arrive?

Threads == Waiters \union Setters

VARIABLES
  uaddr,     \* the futex word
  wq,        \* futex_queue(uaddr), first to be woken first
  errno,
  pc,
  val,       \* val[t]: the argument of the call
  res,       \* res[t]: what the system call returned
  rc,        \* rc[t]: what errno_wrap() made of it
  woke,      \* the waiters woken that have not run yet
  calls      \* calls[t]: the calls t has finished

vars == <<uaddr, wq, errno, pc, val, res, rc, woke, calls>>

EINTR == 4
EAGAIN == 11
Waiting == {"load", "queue", "sleep"}
Waking == {"test", "wake"}
Locations == {"idle", "errno", "retry", "check", "error"} \union Waiting \union Waking

Init ==
  /\ uaddr \in Initials
  /\ wq = <<>>
  /\ errno = 0
  /\ pc = [t \in Threads |-> "idle"]
  /\ val \in {f \in [Threads -> Initials] : \A t \in Threads : f[t] = uaddr}
  /\ res = [t \in Threads |-> 0]
  /\ rc = [t \in Threads |-> 0]
  /\ woke = {}
  /\ calls = [t \in Threads |-> 0]

Goto(t, from, to) == pc[t] = from /\ pc' = [pc EXCEPT ![t] = to]
SysRet(t, from, r) == Goto(t, from, "errno") /\ res' = [res EXCEPT ![t] = r]

\* Where the system call of t begins.
Entry(t) == IF t \in Waiters THEN "load" ELSE "test"

------------------------------------------------------------------------------
\* sys::futex

\* FUTEX_WAIT: the load and the comparison.
Load(t) ==
  /\ \/ uaddr # val[t] /\ SysRet(t, "load", -EAGAIN)
     \/ uaddr = val[t] /\ Goto(t, "load", "queue") /\ UNCHANGED res
  /\ UNCHANGED <<uaddr, wq, errno, val, rc, woke, calls>>

\* wait_exclusive(): last in the queue, and asleep.
Sleep(t) ==
  /\ Goto(t, "queue", "sleep")
  /\ wq' = Append(wq, t)
  /\ UNCHANGED <<uaddr, errno, val, res, rc, woke, calls>>

Woken(t) ==
  /\ t \in woke
  /\ SysRet(t, "sleep", 0)
  /\ woke' = woke \ {t}
  /\ UNCHANGED <<uaddr, wq, errno, val, rc, calls>>

\* A signal ends the wait, and the entry leaves the queue.
Interrupted(t) ==
  /\ Signals /\ t \notin woke
  /\ SysRet(t, "sleep", -EINTR)
  /\ wq' = Del(wq, t)
  /\ UNCHANGED <<uaddr, errno, val, rc, woke, calls>>

\* FUTEX_WAKE: the unlocked look at the queue.
Test(t) ==
  /\ \/ wq = <<>> /\ SysRet(t, "test", 0)
     \/ wq # <<>> /\ Goto(t, "test", "wake") /\ UNCHANGED res
  /\ UNCHANGED <<uaddr, wq, errno, val, rc, woke, calls>>

\* __wake_up(0, 1): the first entry, if there still is one.
Wake(t) ==
  /\ SysRet(t, "wake", 1)
  /\ woke' = woke \union (IF wq = <<>> THEN {} ELSE {Head(wq)})
  /\ wq' = IF wq = <<>> THEN wq ELSE Tail(wq)
  /\ UNCHANGED <<uaddr, errno, val, rc, calls>>

------------------------------------------------------------------------------
\* errno_wrap() and _futex()

Wrap(t) ==
  /\ Goto(t, "errno", "retry")
  /\ errno' = IF res[t] < 0 THEN -res[t] ELSE 0
  /\ rc' = [rc EXCEPT ![t] = IF res[t] < 0 THEN -1 ELSE res[t]]
  /\ UNCHANGED <<uaddr, wq, val, res, woke, calls>>

\* while (errno == EINTR)
Retry(t) ==
  /\ Goto(t, "retry", IF errno = EINTR THEN Entry(t) ELSE "check")
  /\ UNCHANGED <<uaddr, wq, errno, val, res, rc, woke, calls>>

------------------------------------------------------------------------------
\* ck::futex

wait_on(t, v) ==
  /\ calls[t] < MaxWaits
  /\ Goto(t, "idle", "load")
  /\ val' = [val EXCEPT ![t] = v]
  /\ UNCHANGED <<uaddr, wq, errno, res, rc, woke, calls>>

set(t, v) ==
  /\ calls[t] < MaxSets
  /\ Goto(t, "idle", "test")
  /\ val' = [val EXCEPT ![t] = v]
  /\ uaddr' = v
  /\ UNCHANGED <<wq, errno, res, rc, woke, calls>>

Finish(t) ==
  /\ Goto(t, "check", "idle")
  /\ calls' = [calls EXCEPT ![t] = @ + 1]
  /\ res' = [res EXCEPT ![t] = 0] /\ rc' = [rc EXCEPT ![t] = 0]
  /\ UNCHANGED <<uaddr, wq, errno, val, woke>>

Again(t) ==
  /\ Goto(t, "check", Entry(t))
  /\ UNCHANGED <<uaddr, wq, errno, val, res, rc, woke, calls>>

\* The message, and the loop behind it that never ends.
Error(t) ==
  /\ Goto(t, "check", "error")
  /\ UNCHANGED <<uaddr, wq, errno, val, res, rc, woke, calls>>

\* The body of the loop in wait_on().
WaitCheck(t) ==
  \/ rc[t] = -1 /\ errno # EAGAIN /\ Error(t)
  \/ rc[t] = -1 /\ errno = EAGAIN /\ Again(t)
  \/ rc[t] = 0 /\ uaddr = val[t] /\ Finish(t)
  \/ rc[t] = 0 /\ uaddr # val[t] /\ Again(t)

\* The body of the loop in set(). FUTEX_WAKE does not fail.
SetCheck(t) ==
  \/ rc[t] > 0 /\ Finish(t)
  \/ rc[t] = 0 /\ Again(t)

WaitStep(t) ==
  Load(t) \/ Sleep(t) \/ Woken(t) \/ Wrap(t) \/ Retry(t) \/ WaitCheck(t)
SetStep(t) == Test(t) \/ Wake(t) \/ Wrap(t) \/ Retry(t) \/ SetCheck(t)

Next ==
  \/ \E t \in Waiters : (\E v \in Values : wait_on(t, v)) \/ WaitStep(t) \/ Interrupted(t)
  \/ \E t \in Setters : (\E v \in Values : set(t, v)) \/ SetStep(t)

Spec == Init /\ [][Next]_vars

Waits(t) == \E v \in Values : wait_on(t, v)
Sets(t) == \E v \in Values : set(t, v)

\* Runnable threads run, and all make the calls they have to make.
LiveSpec ==
  /\ Spec
  /\ \A t \in Waiters : WF_vars(WaitStep(t)) /\ WF_vars(Waits(t))
  /\ \A t \in Setters : WF_vars(SetStep(t)) /\ WF_vars(Sets(t))
------------------------------------------------------------------------------
TypeOK ==
  /\ uaddr \in Values
  /\ wq \in Seq(Waiters)
  /\ errno \in {0, EINTR, EAGAIN}
  /\ pc \in [Threads -> Locations]
  /\ val \in [Threads -> Values]
  /\ res \in [Threads -> {0, 1, -EINTR, -EAGAIN}]
  /\ rc \in [Threads -> {-1, 0, 1}]
  /\ woke \subseteq Waiters
  /\ calls \in [Threads -> Nat]

\* The queue of the futex holds every sleeper that was not woken, each once,
\* and nobody who has left the system call, by whatever way.
QueueIsTheSleepers ==
  /\ IsInjective(wq)
  /\ Range(wq) = {t \in Waiters : pc[t] = "sleep"} \ woke

\* ck::futex: when one thread makes as many set()s as there are wait_on()s,
\* all of them end. A set() that comes before the waiter has queued itself goes
\* on until it has woken someone, and none of them wakes two.
SetMeetsWait == \A t \in Threads : pc[t] # "idle" ~> pc[t] = "idle"

\* FUTEX_WAIT: "This load, the comparison with the expected value, and starting
\* to sleep are performed atomically": a thread that starts to sleep does so on
\* the value it expects.
SleepsOnExpected == [][\A t \in Waiters : Sleep(t) => uaddr = val[t]]_vars

\* FUTEX_WAKE returns 1 "if someone was woken up", and only then.
OneMeansWoken == [][\A t \in Setters : Wake(t) => woke' # woke]_vars

\* FUTEX_WAIT on a word with another value "fails immediately with the error
\* EAGAIN": wait_on(), which sees the error in errno, never takes it for
\* another one.
OnlyAgain == \A t \in Waiters : pc[t] # "error"
=============================================================================
