----------------------------- MODULE ThreadEnd -----------------------------
(***************************************************************************)
(* How the threads of one process end: exit_thread, exit_proc, reap        *)
(* (kernel/proc.cpp), spawnthread, jointhread, teardown                    *)
(* (kernel/thread.cpp), the loop of execve that kills the other threads    *)
(* (kernel/syscalls/exec.cpp), and the part of the scheduler that runs     *)
(* them (kernel/sched/core.cpp), which may have a thread in its hands      *)
(* without holding its run lock. Every thread finds a CPU.                 *)
(***************************************************************************)
EXTENDS Integers, Lists

CONSTANTS
  Threads,
  Programs,  \* what the process may be running, records of AllPrograms
  None

\* The threads that the process starts with, in the order of their birth; the
\* system calls that its threads make, with "reap" if the parent reaps it; and
\* the threads that call jointhread and execve.
AllPrograms ==
  [first : Seq(Threads) \ {<<>>},
   calls : SUBSET {"exit_thread", "exit_proc", "block", "spawnthread", "jointhread",
                   "execve", "reap"},
   callers : SUBSET Threads]

ProgramsOK ==
  /\ Programs \subseteq AllPrograms /\ \A p \in Programs : IsInjective(p.first)
  /\ None \notin Threads

VARIABLES
  prog,        \* the program of the process
  threads,     \* process::threads
  born, freed, \* the threads constructed and deleted so far
  state,       \* thread::state
  place,       \* what the scheduler does with a thread
  pc,          \* where a thread is in the kernel
  should_die, rude,  \* flags of the threads
  datalock,    \* the holder of process::datalock
  joinlock,    \* joinlock[t]: the holder of thread::joinlock
  target,      \* the thread that a thread joins
  joiners,     \* the threads that wait on thread::joiners of their target
  loop,        \* index and end of the loop over process::threads that a thread is in
  reaper,      \* the same of reap(), which another process calls
  published,   \* zombify() has been called
  panic        \* an assertion of vec::at() has failed

vars == <<prog, threads, born, freed, state, place, pc, should_die, rude, datalock, joinlock,
          target, joiners, loop, reaper, published, panic>>
listVars == <<prog, threads, born, freed, reaper, published, panic>>
lockVars == <<datalock, joinlock, target, joiners>>

main == prog.first[1]
Calls(c) == c \in prog.calls
NoLoop == [i |-> 0, end |-> 0]
Begin == [i |-> 1, end |-> Len(threads)]

Init ==
  /\ prog \in Programs
  /\ threads = prog.first /\ born = Range(prog.first) /\ freed = {}
  /\ state = [t \in Threads |-> "RUNNING"]
  /\ place = [t \in Threads |-> IF t \in born THEN "queued" ELSE "none"]
  /\ pc = [t \in Threads |-> "user"]
  /\ should_die = {} /\ rude = {}
  /\ datalock = None
  /\ joinlock = [t \in Threads |-> None]
  /\ target = [t \in Threads |-> None]
  /\ joiners = {}
  /\ loop = [t \in Threads |-> NoLoop] /\ reaper = NoLoop
  /\ published = FALSE /\ panic = FALSE

-----------------------------------------------------------------------------
(* The scheduler *)

\* get_next(): the thread leaves its run queue ...
Pick(t) ==
  /\ t \notin freed /\ place[t] = "queued" /\ state[t] = "RUNNING"
  /\ place' = [place EXCEPT ![t] = "picked"]
  /\ UNCHANGED <<listVars, state, pc, should_die, rude, lockVars, loop>>

\* ... and switch_into() takes its run lock, which a thread on a CPU holds.
SwitchInto(t) ==
  /\ t \notin freed /\ place[t] = "picked"
  /\ place' = [place EXCEPT ![t] = "cpu"]
  /\ state' = [state EXCEPT ![t] = "RUNNING"]
  /\ UNCHANGED <<listVars, pc, should_die, rude, lockVars, loop>>

\* add_task() of run(), which comes after switch_into() has let go of the run lock.
Requeue(t) ==
  /\ t \notin freed /\ place[t] = "off"
  /\ place' = [place EXCEPT ![t] = "queued"]
  /\ UNCHANGED <<listVars, state, pc, should_die, rude, lockVars, loop>>

OnCpu(t) == place[t] = "cpu" /\ t \notin freed /\ ~panic
SwitchOut(t) == place' = [place EXCEPT ![t] = "off"]
Goto(t, where) == pc' = [pc EXCEPT ![t] = where]

\* yield() of a thread that is dead: joiners.wake_up()
Woken(t) == {u \in joiners : target[u] = t}
NotifyJoiners(t) ==
  /\ joiners' = joiners \ Woken(t)
  /\ rude' = rude \ Woken(t)
  /\ state' = [u \in Threads |->
       IF u = t THEN "ZOMBIE" ELSE IF u \in Woken(t) THEN "RUNNING" ELSE state[u]]

\* before_iret() at the end of a system call, or of an interrupt that came at any
\* point of a thread that is to die: sched::exit(). A thread that is made
\* PS_RUNNING once more goes on from there.
Kill(t) ==
  /\ OnCpu(t) /\ t \in should_die
  /\ NotifyJoiners(t)
  /\ SwitchOut(t)
  /\ Goto(t, IF pc[t] = "ret" THEN "user" ELSE pc[t])
  /\ UNCHANGED <<listVars, should_die, datalock, joinlock, target, loop>>

\* The rest of before_iret(), after an interrupt at any point: the thread has
\* used its time slice.
Preempt(t) ==
  /\ OnCpu(t) /\ t \notin should_die
  /\ SwitchOut(t)
  /\ UNCHANGED <<listVars, state, pc, should_die, rude, lockVars, loop>>

\* The end of a system call.
Iret(t) ==
  /\ OnCpu(t) /\ pc[t] = "ret" /\ t \notin should_die
  /\ Goto(t, "user")
  /\ UNCHANGED <<listVars, state, place, should_die, rude, lockVars, loop>>

\* A system call that blocks: it sets PS_INTERRUPTIBLE ...
Block(t) ==
  /\ Calls("block") /\ OnCpu(t) /\ pc[t] = "user"
  /\ state' = [state EXCEPT ![t] = "BLOCKED"]
  /\ Goto(t, "block")
  /\ UNCHANGED <<listVars, place, should_die, rude, lockVars, loop>>

\* ... yields, and is done when the thread runs again. Whoever it waits for may
\* wake it at any time.
Sleep(t) ==
  /\ OnCpu(t) /\ pc[t] = "block"
  /\ SwitchOut(t)
  /\ Goto(t, "ret")
  /\ UNCHANGED <<listVars, state, should_die, rude, lockVars, loop>>

Wake(t) ==
  /\ state[t] = "BLOCKED" /\ t \notin joiners /\ t \notin freed
  /\ state' = [state EXCEPT ![t] = "RUNNING"]
  /\ rude' = rude \ {t}
  /\ UNCHANGED <<listVars, place, pc, should_die, lockVars, loop>>

-----------------------------------------------------------------------------
(* spawnthread, exit_thread, exit_proc *)

spawnthread(t, n) ==
  /\ Calls("spawnthread") /\ OnCpu(t) /\ pc[t] = "user" /\ n \notin born
  /\ born' = born \union {n}
  /\ threads' = Append(threads, n)
  /\ place' = [place EXCEPT ![n] = "queued"]
  /\ Goto(t, "ret")
  /\ UNCHANGED <<prog, freed, reaper, published, panic, state, should_die, rude, lockVars, loop>>

exit_thread(t) ==
  /\ Calls("exit_thread") /\ OnCpu(t) /\ pc[t] = "user" /\ t # main
  /\ should_die' = should_die \union {t}
  /\ Goto(t, "ret")
  /\ UNCHANGED <<listVars, state, place, rude, lockVars, loop>>

exit_proc(t) ==
  /\ Calls("exit_proc") /\ OnCpu(t) /\ pc[t] = "user"
  /\ Goto(t, "lock")
  /\ UNCHANGED <<listVars, state, place, should_die, rude, lockVars, loop>>

\* scoped_lock l(curproc->datalock)
LockData(t) ==
  /\ OnCpu(t) /\ pc[t] = "lock" /\ datalock = None
  /\ datalock' = t
  /\ Goto(t, "tell")
  /\ UNCHANGED <<listVars, state, place, should_die, rude, joinlock, target, joiners, loop>>

\* Mutant of Tell: the others are woken and not told to die.
TellOnlyWakes(t) ==
  LET others == Range(threads) \ {t} IN
  /\ OnCpu(t) /\ pc[t] = "tell"
  /\ state' = [u \in Threads |-> IF u \in others THEN "RUNNING" ELSE state[u]]
  /\ rude' = rude \union others
  /\ loop' = [loop EXCEPT ![t] = Begin]
  /\ Goto(t, "poll")
  /\ UNCHANGED <<listVars, place, should_die, lockVars>>

\* The first loop of exit_proc: should_die and unblock() for every other thread.
Tell(t) ==
  LET others == Range(threads) \ {t} IN
  /\ OnCpu(t) /\ pc[t] = "tell"
  /\ should_die' = should_die \union others
  /\ state' = [u \in Threads |-> IF u \in others THEN "RUNNING" ELSE state[u]]
  /\ rude' = rude \union others
  /\ loop' = [loop EXCEPT ![t] = Begin]
  /\ Goto(t, "poll")
  /\ UNCHANGED <<listVars, place, lockVars>>

\* Mutant of Poll: it looks for threads that run.
PollRunning(t) ==
  LET i == loop[t].i IN
  /\ OnCpu(t) /\ pc[t] = "poll" /\ i <= loop[t].end
  /\ IF threads[i] = t \/ state[threads[i]] # "RUNNING"
       THEN loop' = [loop EXCEPT ![t].i = i + 1] /\ UNCHANGED <<place, pc>>
       ELSE SwitchOut(t) /\ Goto(t, "again") /\ UNCHANGED loop
  /\ UNCHANGED <<listVars, state, should_die, rude, lockVars>>

\* The second loop, over the threads that there are when it begins, which vec::at()
\* reads; it starts again, after a yield(), when one of them is not dead.
Poll(t) ==
  LET i == loop[t].i IN
  /\ OnCpu(t) /\ pc[t] = "poll" /\ i <= loop[t].end
  /\ panic' = (i > Len(threads))
  /\ IF i > Len(threads) \/ threads[i] = t \/ state[threads[i]] = "ZOMBIE"
       THEN loop' = [loop EXCEPT ![t].i = i + 1] /\ UNCHANGED <<place, pc>>
       ELSE SwitchOut(t) /\ Goto(t, "again") /\ UNCHANGED loop
  /\ UNCHANGED <<prog, threads, born, freed, reaper, published, state, should_die, rude,
                 lockVars>>

PollAgain(t) ==
  /\ OnCpu(t) /\ pc[t] = "again"
  /\ loop' = [loop EXCEPT ![t] = Begin]
  /\ Goto(t, "poll")
  /\ UNCHANGED <<listVars, state, place, should_die, rude, lockVars>>

\* Everyone is dead: datalock is released; then the thread is a zombie, the
\* process is published by zombify() and the thread leaves its CPU.
Publish(t) ==
  /\ OnCpu(t) /\ pc[t] = "poll" /\ loop[t].i > loop[t].end
  /\ datalock' = None
  /\ NotifyJoiners(t)
  /\ published' = TRUE
  /\ SwitchOut(t)
  /\ Goto(t, "dead")
  /\ loop' = [loop EXCEPT ![t] = NoLoop]
  /\ UNCHANGED <<prog, threads, born, freed, reaper, panic, should_die, joinlock, target>>

-----------------------------------------------------------------------------
(* teardown: jointhread, execve, reap *)

\* locks.run of u is free, and is taken and never released: u is deleted. ~thread
\* removes it from its run queue and from process::threads.
teardown(u) ==
  /\ place[u] # "cpu"
  /\ freed' = freed \union {u}
  /\ threads' = Del(threads, u)

\* jointhread up to the test of joinlock
jointhread(t, u) ==
  /\ Calls("jointhread") /\ t \in prog.callers
  /\ OnCpu(t) /\ pc[t] = "user" /\ u \in born \ (freed \union {t})
  /\ IF joinlock[u] # None
       THEN Goto(t, "ret") /\ UNCHANGED target
       ELSE Goto(t, "joinlock") /\ target' = [target EXCEPT ![t] = u]
  /\ UNCHANGED <<listVars, state, place, should_die, rude, datalock, joinlock, joiners, loop>>

JoinLock(t) ==
  /\ OnCpu(t) /\ pc[t] = "joinlock" /\ target[t] \notin freed /\ joinlock[target[t]] = None
  /\ joinlock' = [joinlock EXCEPT ![target[t]] = t]
  /\ Goto(t, "jointest")
  /\ UNCHANGED <<listVars, state, place, should_die, rude, datalock, target, joiners, loop>>

\* Mutant of JoinTest: it does not wait for the thread to end.
JoinTestSkips(t) ==
  /\ OnCpu(t) /\ pc[t] = "jointest"
  /\ Goto(t, "runlock")
  /\ UNCHANGED <<listVars, state, place, should_die, rude, lockVars, loop>>

\* if (t->state != PS_ZOMBIE) ...
JoinTest(t) ==
  /\ OnCpu(t) /\ pc[t] = "jointest"
  /\ Goto(t, IF state[target[t]] = "ZOMBIE" THEN "runlock" ELSE "joinwait")
  /\ UNCHANGED <<listVars, state, place, should_die, rude, lockVars, loop>>

\* ... t->joiners.wait()
JoinWait(t) ==
  /\ OnCpu(t) /\ pc[t] = "joinwait"
  /\ joiners' = joiners \union {t}
  /\ state' = [state EXCEPT ![t] = "BLOCKED"]
  /\ SwitchOut(t)
  /\ Goto(t, "joined")
  /\ UNCHANGED <<listVars, should_die, rude, datalock, joinlock, target, loop>>

\* wait() returns: an interrupted join gives up.
Joined(t) ==
  /\ OnCpu(t) /\ pc[t] = "joined"
  /\ joiners' = joiners \ {t}
  /\ IF t \in rude
       THEN /\ joinlock' = [joinlock EXCEPT ![target[t]] = None]
            /\ target' = [target EXCEPT ![t] = None]
            /\ Goto(t, "ret")
       ELSE Goto(t, "runlock") /\ UNCHANGED <<joinlock, target>>
  /\ UNCHANGED <<listVars, state, place, should_die, rude, datalock, loop>>

\* t->locks.run.lock(); thread::teardown(t)
JoinTeardown(t) ==
  /\ OnCpu(t) /\ pc[t] = "runlock"
  /\ teardown(target[t])
  /\ target' = [target EXCEPT ![t] = None]
  /\ Goto(t, "ret")
  /\ UNCHANGED <<prog, born, reaper, published, panic, state, place, should_die, rude,
                 datalock, joinlock, joiners, loop>>

execve(t) ==
  /\ Calls("execve") /\ t \in prog.callers /\ OnCpu(t) /\ pc[t] = "user"
  /\ loop' = [loop EXCEPT ![t] = Begin]
  /\ Goto(t, "exec")
  /\ UNCHANGED <<listVars, state, place, should_die, rude, lockVars>>

\* A round of a loop "for (auto tid : threads)" at l whose body tears down every
\* thread but `but': the end was computed before the loop, the element is read by
\* vec::at(), which asserts that the index is below the size.
Round(l, but) ==
  IF l.i > Len(threads)
    THEN panic' = TRUE /\ UNCHANGED <<threads, freed>>
    ELSE /\ IF threads[l.i] = but THEN UNCHANGED <<threads, freed>> ELSE teardown(threads[l.i])
         /\ UNCHANGED panic

\* Mutant of ExecRound: the threads are not torn down.
ExecRoundSkips(t) ==
  /\ OnCpu(t) /\ pc[t] = "exec" /\ loop[t].i <= loop[t].end
  /\ loop' = [loop EXCEPT ![t].i = @ + 1]
  /\ UNCHANGED <<listVars, state, place, pc, should_die, rude, lockVars>>

\* execve kills the other threads.
ExecRound(t) ==
  /\ OnCpu(t) /\ pc[t] = "exec" /\ loop[t].i <= loop[t].end
  /\ Round(loop[t], t)
  /\ loop' = [loop EXCEPT ![t].i = @ + 1]
  /\ UNCHANGED <<prog, born, reaper, published, state, place, pc, should_die, rude, lockVars>>

ExecDone(t) ==
  /\ OnCpu(t) /\ pc[t] = "exec" /\ loop[t].i > loop[t].end
  /\ loop' = [loop EXCEPT ![t] = NoLoop]
  /\ Goto(t, "ret")
  /\ UNCHANGED <<listVars, state, place, should_die, rude, lockVars>>

\* Another process has caught this one in waitpid(), and reaps it.
reap ==
  /\ Calls("reap") /\ published /\ reaper = NoLoop /\ threads # <<>> /\ ~panic
  /\ reaper' = Begin
  /\ UNCHANGED <<prog, threads, born, freed, published, panic, state, place, pc, should_die,
                 rude, lockVars, loop>>

ReapRound ==
  /\ reaper # NoLoop /\ reaper.i <= reaper.end /\ ~panic
  /\ Round(reaper, None)
  /\ reaper' = [reaper EXCEPT !.i = @ + 1]
  /\ UNCHANGED <<prog, born, published, state, place, pc, should_die, rude, lockVars, loop>>

-----------------------------------------------------------------------------
Scheduler(t) == Pick(t) \/ SwitchInto(t) \/ Requeue(t)

Kernel(t) ==
  \/ Kill(t) \/ Iret(t) \/ Sleep(t)
  \/ LockData(t) \/ Tell(t) \/ Poll(t) \/ PollAgain(t) \/ Publish(t)
  \/ JoinLock(t) \/ JoinTest(t) \/ JoinWait(t) \/ Joined(t) \/ JoinTeardown(t)
  \/ ExecRound(t) \/ ExecDone(t)

User(t) ==
  \/ Block(t) \/ exit_thread(t) \/ exit_proc(t) \/ execve(t)
  \/ \E u \in Threads : spawnthread(t, u) \/ jointhread(t, u)

Next ==
  \/ \E t \in Threads : Scheduler(t) \/ Kernel(t) \/ User(t) \/ Preempt(t) \/ Wake(t)
  \/ reap \/ ReapRound

Spec == Init /\ [][Next]_vars

\* The scheduler goes on, and a thread in the kernel that is given a CPU again and
\* again does too: preempted or not it gets at least a tick each time. Ticks keep
\* coming: a thread that is to die and keeps running is interrupted.
Fairness ==
  \A t \in Threads :
    /\ WF_vars(Scheduler(t))
    /\ SF_vars(Kernel(t))
    /\ WF_vars(Kill(t))

LiveSpec == Spec /\ Fairness

-----------------------------------------------------------------------------
(* Properties *)

Loops == [i : Nat, end : Nat]

TypeOK ==
  /\ prog \in Programs
  /\ threads \in Seq(Threads)
  /\ born \in SUBSET Threads /\ freed \in SUBSET Threads
  /\ state \in [Threads -> {"RUNNING", "BLOCKED", "ZOMBIE"}]
  /\ place \in [Threads -> {"none", "queued", "picked", "cpu", "off"}]
  /\ pc \in [Threads -> {"user", "ret", "block", "lock", "tell", "poll", "again", "dead",
                         "joinlock", "jointest", "joinwait", "joined", "runlock", "exec"}]
  /\ should_die \in SUBSET Threads /\ rude \in SUBSET Threads
  /\ datalock \in Threads \union {None}
  /\ joinlock \in [Threads -> Threads \union {None}]
  /\ target \in [Threads -> Threads \union {None}]
  /\ joiners \in SUBSET Threads
  /\ loop \in [Threads -> Loops] /\ reaper \in Loops
  /\ published \in BOOLEAN /\ panic \in BOOLEAN

IsDead == \A i \in DOMAIN threads : state[threads[i]] = "ZOMBIE"

\* assert(p->is_dead()), with which reap() begins: when the process has been
\* published all its threads are dead, and stay so.
DeadWhenPublished == published => IsDead

\* Once a thread has told the others to die the process is published, however
\* many of its threads call exit_proc and exit_thread at the same time, if none
\* of them goes to sleep in a system call.
ExitFinishes == (datalock # None /\ ~Calls("block")) ~> published

\* A thread that jointhread is about to tear down is dead: its last yield() has
\* woken the joiner, and nothing has made it runnable since.
JoinedIsDead == \A t \in Threads : pc[t] = "runlock" => state[target[t]] = "ZOMBIE"

\* When execve has returned there is one thread, and it is the one that called.
ExecLeavesOne ==
  [][\A t \in Threads : ExecDone(t) => threads = <<t>> /\ freed = born \ {t}]_vars

-----------------------------------------------------------------------------
(* What comments and assertions of the code say of it *)

\* "the thread needs to be torn down, must not return to userspace" (should_die).
InUser(t) == OnCpu(t) /\ pc[t] = "user"
NoReturnToUser == [][\A t \in Threads : ~InUser(t) /\ InUser(t)' => t \notin should_die']_vars

\* "all the threads should be rudely awoken now..." (exit_proc): the others die.
EveryoneDies ==
  \A t \in Threads : (datalock # None /\ t \in should_die) ~> (published \/ state[t] = "ZOMBIE")

\* "Other threads attempt to lock it. If the lock is already held, fail
\* "successfully"" (thread::joinlock): nobody waits for a joinlock.
JoinLockIsNotWaitedFor ==
  \A t \in Threads : pc[t] = "joinlock" => joinlock[target[t]] \in {None, t}

\* "if the old thread is now dead, notify joiners" (sched::yield): a thread does
\* not go on waiting to join one that is dead.
JoinersAreNotified ==
  \A t \in Threads :
    (t \in joiners /\ state[target[t]] = "ZOMBIE") ~> (t \notin joiners)

\* assert(i >= 0 && i < m_size) of vec::at()
VecInBounds == ~panic

\* "take the runlock on the thread so nobody else runs it" (execve): no CPU has a
\* thread that has been torn down in its hands.
NobodyRunsIt == \A t \in freed : place[t] = "queued"
=============================================================================
