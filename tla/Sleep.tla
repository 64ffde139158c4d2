------------------------------- MODULE Sleep -------------------------------
(***************************************************************************)
(* Sleeping for a time (kernel/sleep.cpp): every CPU keeps a doubly linked *)
(* list of sleep_waiters, which live on the stacks of the sleepers, and    *)
(* its timer tick wakes those that are due. A waiter stays on the list of  *)
(* the CPU it was started on, wherever its thread runs later.              *)
(***************************************************************************)
EXTENDS Integers, FiniteSets, Lists

CONSTANTS
  Threads, Cpus,
  Delays,      \* the delays threads sleep for
  MaxNow,      \* the clock stops there
  Signals,     \* may signals arrive?
  NULL

VARIABLES
  now,
  sleepers,                       \* processor_state::sleepers of each CPU
  next, prev, cpu, wakeup_us,     \* the sleep_waiter of each thread
  pc,
  queued,     \* the threads asleep in the wait queue of their sleep_waiter
  ret,
  locked,     \* the CPUs whose sleepers_lock their tick holds
  blk,        \* blk[c]: the node the tick of c is at
  at          \* at[c]: the time that tick read

node == <<next, prev, cpu, wakeup_us>>
tick == <<locked, blk, at>>
vars == <<now, sleepers, node, pc, queued, ret, tick>>

EINTR == -4
Locations == {"idle", "start", "wait", "asleep", "remove"}

Init ==
  /\ now = 0
  /\ sleepers = [c \in Cpus |-> NULL]
  /\ next = [t \in Threads |-> NULL]
  /\ prev = [t \in Threads |-> NULL]
  /\ cpu \in [Threads -> Cpus]
  /\ wakeup_us = [t \in Threads |-> 0]
  /\ pc = [t \in Threads |-> "idle"]
  /\ queued = {}
  /\ ret = [t \in Threads |-> 0]
  /\ locked = {}
  /\ blk = [c \in Cpus |-> NULL]
  /\ at = [c \in Cpus |-> 0]

Goto(t, from, to) == pc[t] = from /\ pc' = [pc EXCEPT ![t] = to]

Advance == now < MaxNow /\ now' = now + 1 /\ UNCHANGED <<sleepers, node, pc, queued, ret, tick>>

------------------------------------------------------------------------------
\* do_usleep() on CPU c, up to the lock.
usleep(t, us, c) ==
  /\ now + us <= MaxNow
  /\ Goto(t, "idle", "start")
  /\ wakeup_us' = [wakeup_us EXCEPT ![t] = now + us]
  /\ cpu' = [cpu EXCEPT ![t] = c]
  /\ ret' = [ret EXCEPT ![t] = 0]
  /\ UNCHANGED <<now, sleepers, next, prev, queued, tick>>

\* The rest of start(): first on the list.
Insert(t) ==
  LET head == sleepers[cpu[t]] IN
  /\ Goto(t, "start", "wait") /\ cpu[t] \notin locked
  /\ next' = [next EXCEPT ![t] = head]
  /\ prev' = [u \in Threads |-> IF u = t THEN NULL ELSE IF u = head THEN t ELSE prev[u]]
  /\ sleepers' = [sleepers EXCEPT ![cpu[t]] = t]
  /\ UNCHANGED <<now, cpu, wakeup_us, queued, ret, tick>>

Wait(t) ==
  /\ Goto(t, "wait", "asleep")
  /\ queued' = queued \union {t}
  /\ UNCHANGED <<now, sleepers, node, ret, tick>>

Woken(t) ==
  /\ t \notin queued
  /\ Goto(t, "asleep", "remove")
  /\ UNCHANGED <<now, sleepers, node, queued, ret, tick>>

Interrupted(t) ==
  /\ Signals /\ t \in queued
  /\ Goto(t, "asleep", "remove")
  /\ queued' = queued \ {t}
  /\ ret' = [ret EXCEPT ![t] = EINTR]
  /\ UNCHANGED <<now, sleepers, node, tick>>

\* The end of the call: the waiter was a local variable.
Gone(t) ==
  /\ wakeup_us' = [wakeup_us EXCEPT ![t] = 0]
  /\ ret' = [ret EXCEPT ![t] = 0]
  /\ UNCHANGED <<now, cpu, queued, tick>>

\* Mutant of remove: the lock is not taken.
removeUnlocked(t) ==
  /\ Goto(t, "remove", "idle")
  /\ sleepers' = [sleepers EXCEPT ![cpu[t]] = IF @ = t THEN next[t] ELSE @]
  /\ prev' = [u \in Threads |-> IF u = t THEN NULL ELSE IF u = next[t] THEN prev[t] ELSE prev[u]]
  /\ next' = [u \in Threads |-> IF u = t THEN NULL ELSE IF u = prev[t] THEN next[t] ELSE next[u]]
  /\ Gone(t)

\* remove(), called by the destructor.
remove(t) ==
  /\ Goto(t, "remove", "idle") /\ cpu[t] \notin locked
  /\ sleepers' = [sleepers EXCEPT ![cpu[t]] = IF @ = t THEN next[t] ELSE @]
  /\ prev' = [u \in Threads |-> IF u = t THEN NULL ELSE IF u = next[t] THEN prev[t] ELSE prev[u]]
  /\ next' = [u \in Threads |-> IF u = t THEN NULL ELSE IF u = prev[t] THEN next[t] ELSE next[u]]
  /\ Gone(t)

------------------------------------------------------------------------------
\* check_wakeups() in the tick of c. A tick that finds the lock taken does
\* nothing; a thread holds it only inside Insert and remove.
Tick(c) ==
  /\ c \notin locked
  /\ locked' = locked \union {c}
  /\ at' = [at EXCEPT ![c] = now]
  /\ blk' = [blk EXCEPT ![c] = sleepers[c]]
  /\ UNCHANGED <<now, sleepers, node, pc, queued, ret>>

\* Mutant of Check: the time has to be past.
CheckPast(c) ==
  /\ c \in locked /\ blk[c] # NULL
  /\ blk' = [blk EXCEPT ![c] = next[@]]
  /\ queued' = IF wakeup_us[blk[c]] < at[c] THEN queued \ {blk[c]} ELSE queued
  /\ UNCHANGED <<now, sleepers, node, pc, ret, locked, at>>

\* The body of the loop. A waiter that is due and not yet asleep is passed by.
Check(c) ==
  /\ c \in locked /\ blk[c] # NULL
  /\ blk' = [blk EXCEPT ![c] = next[@]]
  /\ queued' = IF wakeup_us[blk[c]] <= at[c] THEN queued \ {blk[c]} ELSE queued
  /\ UNCHANGED <<now, sleepers, node, pc, ret, locked, at>>

TickEnd(c) ==
  /\ c \in locked /\ blk[c] = NULL
  /\ locked' = locked \ {c}
  /\ at' = [at EXCEPT ![c] = 0]
  /\ UNCHANGED <<now, sleepers, node, pc, queued, ret, blk>>

ThreadStep(t) == Insert(t) \/ Wait(t) \/ Woken(t) \/ remove(t)
TickStep(c) == Check(c) \/ TickEnd(c)

Next ==
  \/ Advance
  \/ \E t \in Threads :
       \/ \E us \in Delays, c \in Cpus : usleep(t, us, c)
       \/ ThreadStep(t) \/ Interrupted(t)
  \/ \E c \in Cpus : Tick(c) \/ TickStep(c)

Spec == Init /\ [][Next]_vars

\* The clock runs, every CPU goes on ticking, also when it is idle (idle_task
\* is a thread), a tick ends, and a runnable thread runs and gets the lock.
LiveSpec ==
  /\ Spec
  /\ WF_vars(Advance)
  /\ \A c \in Cpus : WF_vars(Tick(c)) /\ WF_vars(TickStep(c))
  /\ \A t \in Threads : SF_vars(ThreadStep(t))
------------------------------------------------------------------------------
TypeOK ==
  /\ now \in 0..MaxNow
  /\ sleepers \in [Cpus -> Threads \union {NULL}]
  /\ next \in [Threads -> Threads \union {NULL}]
  /\ prev \in [Threads -> Threads \union {NULL}]
  /\ cpu \in [Threads -> Cpus]
  /\ wakeup_us \in [Threads -> 0..MaxNow]
  /\ pc \in [Threads -> Locations]
  /\ queued \subseteq Threads
  /\ ret \in [Threads -> {0, EINTR}]
  /\ locked \subseteq Cpus
  /\ blk \in [Cpus -> Threads \union {NULL}]
  /\ at \in [Cpus -> 0..MaxNow]

Started(c) == {t \in Threads : cpu[t] = c /\ pc[t] \in {"wait", "asleep", "remove"}}

\* The pointers of the list of c are those of the sequence s.
Nth(s, i) == IF i \in DOMAIN s THEN s[i] ELSE NULL
Links(c, s) ==
  /\ sleepers[c] = Nth(s, 1)
  /\ \A i \in DOMAIN s : next[s[i]] = Nth(s, i + 1) /\ prev[s[i]] = Nth(s, i - 1)

\* The list of a CPU, followed by next from its head and by prev back to it,
\* holds exactly the waiters whose sleep is under way: none is lost, whichever
\* order they go in, and none whose stack frame is gone stays.
ListsAreExact ==
  \A c \in Cpus : \E s \in [1..Cardinality(Started(c)) -> Started(c)] : IsInjective(s) /\ Links(c, s)

\* check_wakeups() looks only at waiters that exist, although the threads it
\* wakes go on to destroy theirs.
TickSeesLive == \A c \in Cpus : c \in locked /\ blk[c] # NULL => blk[c] \in Started(c)

\* usleep() returns: a tick that comes after start() and before the thread is
\* asleep wakes nobody, but the waiter stays on its list for the next tick.
SleepEnds == \A t \in Threads : pc[t] # "idle" ~> pc[t] = "idle"
=============================================================================
