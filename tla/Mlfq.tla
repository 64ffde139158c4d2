-------------------------------- MODULE Mlfq --------------------------------
(***************************************************************************)
(* The scheduler (kernel/sched/core.cpp): a multi-level feedback queue for *)
(* each CPU, the scheduler loop run() that every CPU executes, the timer   *)
(* interrupt that prefetches the next thread, and work stealing.           *)
(*                                                                         *)
(* An operation on a queue runs under that queue's spinlock and is one     *)
(* step here; the queue itself (RunQueue.tla) is a sequence. Between the   *)
(* steps of one CPU the other CPUs move, and threads are woken.            *)
(***************************************************************************)
EXTENDS Integers, Lists

CONSTANTS
  Threads,
  NCpus,       \* cpu::nproc()
  NQueues,     \* MLFQ_NQUEUES, 32 in the code
  Leaves,      \* the states other than PS_RUNNING that threads enter in this instance
  BoostEvery,  \* rounds of run() between two boosts, 100 in the code
  None         \* NULL; as the thread a CPU runs, the idle thread of that CPU

ASSUME SizeAssumption ==
  NCpus \in Nat \ {0} /\ NQueues \in Nat \ {0} /\ BoostEvery \in Nat
ASSUME LeavesAssumption == Leaves \subseteq {"PS_INTERRUPTIBLE", "PS_ZOMBIE"}
ASSUME NoneAssumption == None \notin Threads

VARIABLES
  queue,      \* queue[c][p]: queues[p] of CPU c's mlfq
  state,      \* thread::state
  priority, timeslice, good_streak, has_run,  \* thread::sched
  current_cpu,  \* thread::stats.current_cpu
  run,        \* the CPU that holds thread::locks.run
  pc,         \* where CPU c is in run(), in a thread or in the tick interrupt
  thd,        \* the thread in the hands of CPU c: thd of run()
  next_thread,  \* cpu::current().next_thread
  rounds,     \* has_run of run()
  next_worksteal

sched == <<priority, timeslice, good_streak, has_run>>
vars == <<queue, state, priority, timeslice, good_streak, has_run, current_cpu, run,
          pc, thd, next_thread, rounds, next_worksteal>>

Cpus == 0..(NCpus - 1)
Prios == 0..(NQueues - 1)

EMBRYO == "PS_EMBRYO"
RUNNING == "PS_RUNNING"
INTERRUPTIBLE == "PS_INTERRUPTIBLE"
ZOMBIE == "PS_ZOMBIE"
States == {EMBRYO, RUNNING, INTERRUPTIBLE, ZOMBIE}

\* Every CPU has done sched::init and enters run(); CPU 0 has started a thread.
Init ==
  /\ \E t \in Threads :
       /\ queue = [c \in Cpus |-> [p \in Prios |->
            IF c = 0 /\ p = 0 THEN <<t>> ELSE <<>>]]
       /\ state = [u \in Threads |-> IF u = t THEN RUNNING ELSE EMBRYO]
       /\ current_cpu = [u \in Threads |-> IF u = t THEN 0 ELSE -1]
  /\ priority = [t \in Threads |-> 0]
  /\ timeslice = [t \in Threads |-> 1]
  /\ good_streak = [t \in Threads |-> 0]
  /\ has_run = [t \in Threads |-> 0]
  /\ run = [t \in Threads |-> None]
  /\ pc = [c \in Cpus |-> "loop"]
  /\ thd = [c \in Cpus |-> None]
  /\ next_thread = [c \in Cpus |-> None]
  /\ rounds = [c \in Cpus |-> 0]
  /\ next_worksteal = [c \in Cpus |-> 0]

Goto(c, to) == pc' = [pc EXCEPT ![c] = to]

-----------------------------------------------------------------------------
(* The multi-level queue *)

\* sched::add_task: how the thread behaved while it had the CPU.
Bad(t) == has_run[t] >= timeslice[t]

\* mlfq::add, on CPU c: a thread that used up its time
\* slice goes one queue down, one that did not for long enough goes one up.
AddTask(c, t) ==
  LET lucky == ~Bad(t) /\ good_streak[t] + 1 > priority[t] * 2 + NQueues
      p == CASE Bad(t) /\ priority[t] < NQueues - 1 -> priority[t] + 1
             [] lucky /\ priority[t] > 0 -> priority[t] - 1
             [] OTHER -> priority[t]
  IN /\ current_cpu' = [current_cpu EXCEPT ![t] = c]
     /\ good_streak' = [good_streak EXCEPT ![t] = IF Bad(t) \/ lucky THEN 0 ELSE @ + 1]
     /\ priority' = [priority EXCEPT ![t] = p]
     /\ timeslice' = [timeslice EXCEPT ![t] = 1 + p * 2]
     /\ queue' = [queue EXCEPT ![c][p] = Append(@, t)]

\* The i-th thread of queue p is the one get_next() and steal() come to first
\* on CPU c: pick_next() on each queue in turn.
Front(c, p, i) ==
  /\ i \in DOMAIN queue[c][p]
  /\ state[queue[c][p][i]] = RUNNING
  /\ \A j \in 1..(i - 1) : state[queue[c][p][j]] # RUNNING
  /\ \A r \in 0..(p - 1) : \A j \in DOMAIN queue[c][r] : state[queue[c][r][j]] # RUNNING

\* get_next() and steal(): CPU c takes the first runnable thread of CPU d.
TakeFirst(c, d) ==
  \E p \in Prios : \E i \in DOMAIN queue[d][p] :
    /\ Front(d, p, i)
    /\ next_thread' = [next_thread EXCEPT ![c] = queue[d][p][i]]
    /\ queue' = [queue EXCEPT ![d][p] = Del(@, queue[d][p][i])]

NothingToRun(c) ==
  \A p \in Prios : \A i \in DOMAIN queue[c][p] : state[queue[c][p][i]] # RUNNING

\* Mutant of Boost: the threads move and keep their priority.
BoostKeepsPriority(c) ==
  /\ queue' = [queue EXCEPT ![c] = Boosted(@)]
  /\ UNCHANGED priority

\* mlfq::boost
Boost(c) ==
  /\ queue' = [queue EXCEPT ![c] = Boosted(@)]
  /\ priority' = [t \in Threads |->
       IF \E p \in Prios \ {0} : queue[c][p] # <<>> /\ Head(queue[c][p]) = t
         THEN priority[t] \div 2
         ELSE priority[t]]

-----------------------------------------------------------------------------
(* The scheduler loop of a CPU *)

\* Mutant of Loop: nothing is ever boosted.
LoopNeverBoosts(c) ==
  /\ pc[c] = "loop"
  /\ Goto(c, "pick")
  /\ UNCHANGED <<queue, state, sched, current_cpu, run, thd, next_thread, rounds,
                 next_worksteal>>

\* The top of the loop of run().
Loop(c) ==
  /\ pc[c] = "loop"
  /\ Goto(c, "pick")
  /\ IF rounds[c] >= BoostEvery
       THEN rounds' = [rounds EXCEPT ![c] = 0] /\ Boost(c)
       ELSE rounds' = [rounds EXCEPT ![c] = @ + 1] /\ UNCHANGED <<queue, priority>>
  /\ UNCHANGED <<state, timeslice, good_streak, has_run, current_cpu, run, thd,
                 next_thread, next_worksteal>>

\* Where pick_next_thread() returns to: run(), or the tick interrupt.
Picked(c) == Goto(c, IF pc[c] \in {"pick", "steal"} THEN "switch" ELSE "iret")

\* pick_next_thread() and get_next(): a thread prefetched by the tick, or the
\* first runnable thread of the CPU's own queues.
GetNext(c) ==
  /\ pc[c] \in {"pick", "tick"}
  /\ \/ /\ next_thread[c] # None
        /\ Picked(c)
        /\ UNCHANGED <<queue, next_thread>>
     \/ /\ next_thread[c] = None
        /\ TakeFirst(c, c)
        /\ Picked(c)
     \/ /\ next_thread[c] = None /\ NothingToRun(c)
        /\ IF NCpus > 1
             THEN Goto(c, IF pc[c] = "pick" THEN "steal" ELSE "tick_steal")
             ELSE Picked(c)
        /\ UNCHANGED <<queue, next_thread>>
  /\ UNCHANGED <<state, sched, current_cpu, run, thd, rounds, next_worksteal>>

\* The CPU worksteal() tries, and what next_worksteal is afterwards.
StealTurn(c) == IF next_worksteal[c] % NCpus = c THEN next_worksteal[c] + 1
                                                 ELSE next_worksteal[c]
StealTarget(c) == StealTurn(c) % NCpus
StealAfter(c) == IF StealTurn(c) + 1 >= NCpus THEN 0 ELSE StealTurn(c) + 1

\* Mutant of Steal: the thread is not taken off the queue it is stolen from.
StealKeeps(c) ==
  /\ pc[c] \in {"steal", "tick_steal"}
  /\ next_worksteal' = [next_worksteal EXCEPT ![c] = StealAfter(c)]
  /\ Picked(c)
  /\ \E p \in Prios : \E i \in DOMAIN queue[StealTarget(c)][p] :
       /\ Front(StealTarget(c), p, i)
       /\ next_thread' = [next_thread EXCEPT ![c] = queue[StealTarget(c)][p][i]]
  /\ UNCHANGED <<queue, state, sched, current_cpu, run, thd, rounds>>

\* worksteal(): one other CPU is tried. steal() gives up if that CPU's queue
\* is locked (the last disjunct), as it may be at any time.
Steal(c) ==
  /\ pc[c] \in {"steal", "tick_steal"}
  /\ next_worksteal' = [next_worksteal EXCEPT ![c] = StealAfter(c)]
  /\ Picked(c)
  /\ \/ TakeFirst(c, StealTarget(c))
     \/ UNCHANGED <<queue, next_thread>>
  /\ UNCHANGED <<state, sched, current_cpu, run, thd, rounds>>

\* run() takes the thread over, then switch_into() up to the context switch. held_lock is NULL: no caller of
\* yield() passes one.
SwitchInto(c) ==
  /\ pc[c] = "switch"
  /\ Goto(c, "run")
  /\ thd' = [thd EXCEPT ![c] = next_thread[c]]
  /\ next_thread' = [next_thread EXCEPT ![c] = None]
  /\ \/ next_thread[c] = None /\ UNCHANGED <<state, has_run, current_cpu, run>>
     \/ \E t \in Threads :
          /\ next_thread[c] = t /\ run[t] = None
          /\ run' = [run EXCEPT ![t] = c]
          /\ state' = [state EXCEPT ![t] = RUNNING]
          /\ current_cpu' = [current_cpu EXCEPT ![t] = c]
          /\ has_run' = [has_run EXCEPT ![t] = 0]
  /\ UNCHANGED <<queue, priority, timeslice, good_streak, rounds, next_worksteal>>

\* switch_into(), after the context switch back. The idle thread is not queued.
SwitchedOut(c) ==
  /\ pc[c] = "out"
  /\ \/ thd[c] = None /\ Goto(c, "loop") /\ UNCHANGED run
     \/ \E t \in Threads :
          /\ thd[c] = t
          /\ run' = [run EXCEPT ![t] = None]
          /\ Goto(c, "add")
  /\ UNCHANGED <<queue, state, sched, current_cpu, thd, next_thread, rounds,
                 next_worksteal>>

\* The end of the loop of run(): sched::add_task(thd).
Add(c) ==
  /\ pc[c] = "add"
  /\ AddTask(c, thd[c])
  /\ thd' = [thd EXCEPT ![c] = None]
  /\ Goto(c, "loop")
  /\ UNCHANGED <<state, has_run, run, next_thread, rounds, next_worksteal>>

-----------------------------------------------------------------------------
(* The thread that runs on a CPU *)

\* yield(), up to the context switch.
YieldFrom(c) ==
  /\ Goto(c, "out")
  /\ current_cpu' = [t \in Threads |-> IF t = thd[c] THEN -1 ELSE current_cpu[t]]

\* The thread, or the idle thread after an interrupt, calls sched::yield().
Yield(c) ==
  /\ pc[c] = "run"
  /\ YieldFrom(c)
  /\ UNCHANGED <<queue, state, sched, run, thd, next_thread, rounds, next_worksteal>>

\* handle_tick(). has_run is only ever compared with timeslice: it stops there.
Tick(c) ==
  /\ pc[c] = "run"
  /\ has_run' = [t \in Threads |->
       IF t = thd[c] /\ has_run[t] < timeslice[t] THEN has_run[t] + 1 ELSE has_run[t]]
  /\ Goto(c, IF \/ thd[c] = None
                \/ /\ state[thd[c]] = RUNNING
                   /\ has_run'[thd[c]] >= timeslice[thd[c]]
               THEN "tick" ELSE "iret")
  /\ UNCHANGED <<queue, state, priority, timeslice, good_streak, current_cpu, run, thd,
                 next_thread, rounds, next_worksteal>>

\* before_iret(): the idle thread's time slice is one tick.
BeforeIret(c) ==
  /\ pc[c] = "iret"
  /\ IF \/ thd[c] = None
        \/ has_run[thd[c]] >= timeslice[thd[c]]
        \/ next_thread[c] # None
       THEN YieldFrom(c)
       ELSE Goto(c, "run") /\ UNCHANGED current_cpu
  /\ UNCHANGED <<queue, state, sched, run, thd, next_thread, rounds, next_worksteal>>

\* The thread is about to sleep (set_state in the wait queues), or to exit:
\* it may still be interrupted before it yields.
SetState(c, t, st) ==
  /\ pc[c] = "run" /\ thd[c] = t /\ state[t] = RUNNING
  /\ state' = [state EXCEPT ![t] = st]
  /\ UNCHANGED <<queue, sched, current_cpu, run, pc, thd, next_thread, rounds,
                 next_worksteal>>

\* unblock(): a waker on any CPU.
Unblock(t) ==
  /\ state[t] = INTERRUPTIBLE
  /\ state' = [state EXCEPT ![t] = RUNNING]
  /\ UNCHANGED <<queue, sched, current_cpu, run, pc, thd, next_thread, rounds,
                 next_worksteal>>

\* kickoff(): a thread starts another.
Kickoff(c, t) ==
  /\ pc[c] = "run" /\ thd[c] # None
  /\ state[t] = EMBRYO
  /\ state' = [state EXCEPT ![t] = RUNNING]
  /\ AddTask(c, t)
  /\ UNCHANGED <<has_run, run, pc, thd, next_thread, rounds, next_worksteal>>

-----------------------------------------------------------------------------
\* What a CPU does of itself: the scheduler, and the timer interrupt.
Cpu(c) ==
  \/ Loop(c) \/ GetNext(c) \/ Steal(c) \/ SwitchInto(c) \/ SwitchedOut(c)
  \/ Add(c) \/ Tick(c) \/ BeforeIret(c)

Next ==
  \/ \E c \in Cpus :
       \/ Cpu(c) \/ Yield(c)
       \/ \E t \in Threads : Kickoff(c, t)
       \/ \E t \in Threads, st \in Leaves : SetState(c, t, st)
  \/ \E t \in Threads : Unblock(t)

Spec == Init /\ [][Next]_vars

\* The CPUs run and their timers tick. Nothing makes a thread yield or wake.
Fairness == \A c \in Cpus : WF_vars(Cpu(c))

-----------------------------------------------------------------------------
(* Properties *)

TypeOK ==
  /\ queue \in [Cpus -> [Prios -> Seq(Threads)]]
  /\ state \in [Threads -> States]
  /\ priority \in [Threads -> Prios]
  /\ timeslice \in [Threads -> Nat]
  /\ good_streak \in [Threads -> Nat]
  /\ has_run \in [Threads -> Nat]
  /\ current_cpu \in [Threads -> Cpus \union {-1}]
  /\ run \in [Threads -> Cpus \union {None}]
  /\ pc \in [Cpus -> {"loop", "pick", "steal", "switch", "run", "tick", "tick_steal",
                      "iret", "out", "add"}]
  /\ thd \in [Cpus -> Threads \union {None}]
  /\ next_thread \in [Cpus -> Threads \union {None}]
  /\ rounds \in [Cpus -> 0..BoostEvery]
  /\ next_worksteal \in [Cpus -> Cpus]

\* The places of the scheduler where thread t is.
Places(t) ==
  {<<"queue", x[1], x[2]>> :
     x \in {y \in Cpus \X Prios : t \in Range(queue[y[1]][y[2]])}}
  \union {<<"thd", c>> : c \in {d \in Cpus : thd[d] = t}}
  \union {<<"next", c>> : c \in {d \in Cpus : next_thread[d] = t}}

\* No thread is lost and none is in two places: once started a thread is on
\* exactly one queue, once, or in the hands of exactly one CPU, whatever the
\* ticks, the prefetches, the thieves and the wakers do.
OnePlace ==
  /\ \A t \in Threads :
       IF state[t] = EMBRYO THEN Places(t) = {} ELSE \E x \in Places(t) : Places(t) = {x}
  /\ \A c \in Cpus, p \in Prios : IsInjective(queue[c][p])

\* remove_task() finds a queued thread: it looks on the queue that the thread's
\* own current_cpu and priority name, and mlfq::remove asserts the former.
QueuedIsFindable ==
  \A c \in Cpus, p \in Prios : \A t \in Range(queue[c][p]) :
    current_cpu[t] = c /\ priority[t] = p

\* No runnable thread starves: boost() brings every thread up to the first
\* queue in the end, although it moves one thread of a queue at a time.
NoStarvation ==
  \A t \in Threads :
    state[t] = RUNNING ~> \/ \E c \in Cpus : thd[c] = t /\ pc[c] = "run"
                          \/ state[t] # RUNNING

-----------------------------------------------------------------------------
(* What comments of the code say of it *)

\* "queues[0] is the highest priority, lowest runtime; queues[MLFQ_NQUEUES-1]
\* is the lowest priority, highest runtime": a thread that waits in queue p
\* waits for a time slice of MLFQ_MIN_RT + 2p ticks.
SliceFitsQueue ==
  \A c \in Cpus, p \in Prios : \A t \in Range(queue[c][p]) : timeslice[t] = 1 + 2 * p
=============================================================================
