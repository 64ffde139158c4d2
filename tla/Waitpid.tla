------------------------------ MODULE Waitpid ------------------------------
(***************************************************************************)
(* How a process ends and its parent learns of it (kernel/proc.cpp):       *)
(* exit_proc, zombify, do_waitpid, reap and the two lists of the waitpid   *)
(* subsystem. A process that exits has one thread left (ThreadEnd has the  *)
(* others). What is done under waitlist_lock, which is taken with          *)
(* interrupts off, is one step.                                            *)
(***************************************************************************)
EXTENDS Integers, Lists

CONSTANTS
  Procs,
  init,     \* the process with pid 1, which never exits
  Threads,
  Owner,    \* the process of each thread; only init has several
  Seeks,    \* the pids that waitpid() is called with: processes, or ANY for -1
  Ticks,    \* the processes that a tick may interrupt between exit_proc's
            \* set_state(PS_ZOMBIE) and the end of zombify
  ANY, None

ASSUME Setup ==
  /\ init \in Procs /\ Owner \in [Threads -> Procs] /\ Seeks \subseteq Procs \union {ANY}
  /\ \A t, u \in Threads : Owner[t] = Owner[u] => t = u \/ Owner[t] = init
  /\ ANY \notin Procs /\ None \notin Procs \union Threads

VARIABLES
  table,     \* proc_table
  at,        \* how far the last thread of a process is on its way out
  parent, children,
  zombies,   \* zombie_list, first to last
  waiters,   \* waiter_list: the threads that the entries stand for
  waker,     \* the waiter that a process in zombify() is about to wake
  pc,        \* where a thread is in do_waitpid()
  went,      \* waiter_entry::seeking, wait_flags and proc of a thread
  runnable,  \* a thread in do_waitpid() is PS_RUNNING (again)
  rude,      \* thread::wq.rudely_awoken
  reply,     \* what the last waitpid() of a thread returned and stored
  orphans    \* history: the processes that reap() gave to init

vars == <<table, at, parent, children, zombies, waiters, waker, pc, went,
          runnable, rude, reply, orphans>>
procVars == <<table, parent, children, orphans>>
callVars == <<pc, went, runnable, rude, reply>>

NoCall == [seeking |-> ANY, nohang |-> FALSE, proc |-> None]

\* What reap() makes of the exit code: every process exits with code 1.
Flags == 256
Replies == {-1, -4, -10} \union {Flags}   \* -1, -EINTR, -ECHILD
NoReply == [res |-> 0, status |-> 0]

Init ==
  /\ table = {init}
  /\ at = [p \in Procs |-> "alive"]
  /\ parent = [p \in Procs |-> None]
  /\ children = [p \in Procs |-> {}]
  /\ zombies = <<>> /\ waiters = <<>>
  /\ waker = [p \in Procs |-> None]
  /\ pc = [t \in Threads |-> "user"]
  /\ went = [t \in Threads |-> NoCall]
  /\ runnable = Threads
  /\ rude = {}
  /\ reply = [t \in Threads |-> NoReply]
  /\ orphans = {}

InUser(t) == pc[t] = "user" /\ Owner[t] \in table /\ at[Owner[t]] = "alive"

\* The place in s where a list_for_each_entry loop that looks for one of able stops.
IsFirst(s, i, able) == s[i] \in able /\ \A j \in 1..(i - 1) : s[j] \notin able

can_reap(t, z, seeking) == parent[z] = Owner[t] /\ seeking \in {z, ANY}

-----------------------------------------------------------------------------
(* The child *)

\* do_fork: a pid is never used again.
do_fork(t, c) ==
  /\ InUser(t) /\ c \notin table /\ parent[c] = None /\ c # init
  /\ table' = table \union {c}
  /\ parent' = [parent EXCEPT ![c] = Owner[t]]
  /\ children' = [children EXCEPT ![Owner[t]] = @ \union {c}]
  /\ UNCHANGED <<at, zombies, waiters, waker, callVars, orphans>>

\* exit_proc up to set_state(PS_ZOMBIE): from here on the thread is not picked
\* again once it has left its CPU.
exit_proc(t) ==
  /\ InUser(t) /\ Owner[t] # init
  /\ at' = [at EXCEPT ![Owner[t]] = "marked"]
  /\ UNCHANGED <<procVars, zombies, waiters, waker, callVars>>

\* Mutant of zombify: it does not look for a waiter.
zombify_lists(p) ==
  /\ at[p] = "marked"
  /\ zombies' = Append(zombies, p)
  /\ at' = [at EXCEPT ![p] = "exit"]
  /\ UNCHANGED <<procVars, waiters, waker, callVars>>

\* zombify: hand the process to the first waiter that can reap it, or list it.
zombify(p) ==
  /\ at[p] = "marked"
  /\ LET able == {t \in Threads : can_reap(t, p, went[t].seeking)} IN
       \/ \E i \in DOMAIN waiters :
            /\ IsFirst(waiters, i, able)
            /\ waiters' = Del(waiters, waiters[i])
            /\ went' = [went EXCEPT ![waiters[i]].proc = p]
            /\ waker' = [waker EXCEPT ![p] = waiters[i]]
            /\ at' = [at EXCEPT ![p] = "handed"]
            /\ UNCHANGED zombies
       \/ /\ \A i \in DOMAIN waiters : waiters[i] \notin able
          /\ zombies' = Append(zombies, p)
          /\ at' = [at EXCEPT ![p] = "exit"]
          /\ UNCHANGED <<waiters, went, waker>>
  /\ UNCHANGED <<procVars, pc, runnable, rude, reply>>

\* zombify has let go of the lock: went->wq.wake_up_all()
ZombifyWake(p) ==
  /\ at[p] = "handed"
  /\ runnable' = runnable \union {waker[p]}
  /\ rude' = rude \ {waker[p]}
  /\ waker' = [waker EXCEPT ![p] = None]
  /\ at' = [at EXCEPT ![p] = "exit"]
  /\ UNCHANGED <<procVars, zombies, waiters, pc, went, reply>>

\* sched::exit: the thread leaves its CPU, which lets go of locks.run.
SchedExit(p) ==
  /\ at[p] = "exit"
  /\ at' = [at EXCEPT ![p] = "gone"]
  /\ UNCHANGED <<procVars, zombies, waiters, waker, callVars>>

\* A tick between set_state(PS_ZOMBIE) and the end of zombify() finds the time
\* slice used up: before_iret() yields, and the thread is not picked again.
Tick(p) ==
  /\ p \in Ticks /\ at[p] \in {"marked", "handed"}
  /\ at' = [at EXCEPT ![p] = "gone"]
  /\ UNCHANGED <<procVars, zombies, waiters, waker, callVars>>

-----------------------------------------------------------------------------
(* The parent *)

Return(t, res, status) ==
  /\ pc' = [pc EXCEPT ![t] = "user"]
  /\ reply' = [reply EXCEPT ![t] = [res |-> res, status |-> status]]

\* do_waitpid up to the loop
do_waitpid(t, seeking, nohang) ==
  /\ InUser(t)
  /\ IF seeking # ANY /\ seeking \notin table
       THEN Return(t, -10, 0) /\ UNCHANGED went
       ELSE /\ pc' = [pc EXCEPT ![t] = "look"]
            /\ went' = [went EXCEPT ![t] = [seeking |-> seeking, nohang |-> nohang, proc |-> None]]
            /\ reply' = [reply EXCEPT ![t] = NoReply]
  /\ UNCHANGED <<procVars, at, zombies, waiters, waker, runnable, rude>>

\* Mutant of TakeZombie: the zombie stays on the list.
TakeZombieLeaves(t) ==
  LET able == {z \in Procs : can_reap(t, z, went[t].seeking)} IN
  /\ pc[t] = "look"
  /\ \E i \in DOMAIN zombies :
       IsFirst(zombies, i, able) /\ went' = [went EXCEPT ![t].proc = zombies[i]]
  /\ pc' = [pc EXCEPT ![t] = "reap"]
  /\ UNCHANGED <<procVars, at, zombies, waiters, waker, runnable, rude, reply>>

\* The loop finds a zombie on zombie_list.
TakeZombie(t) ==
  LET able == {z \in Procs : can_reap(t, z, went[t].seeking)} IN
  /\ pc[t] = "look"
  /\ \E i \in DOMAIN zombies :
       /\ IsFirst(zombies, i, able)
       /\ zombies' = Del(zombies, zombies[i])
       /\ went' = [went EXCEPT ![t].proc = zombies[i]]
  /\ pc' = [pc EXCEPT ![t] = "reap"]
  /\ UNCHANGED <<procVars, at, waiters, waker, runnable, rude, reply>>

\* Mutant of JoinWaiters: the lists are looked at under two holds of the lock, and
\* a zombie may be listed between them.
JoinWaitersLate(t) ==
  /\ pc[t] = "look"
  /\ ~went[t].nohang
  /\ waiters' = <<t>> \o waiters
  /\ runnable' = runnable \ {t}
  /\ pc' = [pc EXCEPT ![t] = "wait"]
  /\ UNCHANGED <<procVars, at, zombies, waker, went, rude, reply>>

\* It finds none, and the thread becomes a waiter ...
JoinWaiters(t) ==
  /\ pc[t] = "look"
  /\ \A i \in DOMAIN zombies : ~can_reap(t, zombies[i], went[t].seeking)
  /\ ~went[t].nohang
  /\ waiters' = <<t>> \o waiters
  /\ runnable' = runnable \ {t}
  /\ pc' = [pc EXCEPT ![t] = "wait"]
  /\ UNCHANGED <<procVars, at, zombies, waker, went, rude, reply>>

\* ... or returns at once.
NoHang(t) ==
  /\ pc[t] = "look"
  /\ \A i \in DOMAIN zombies : ~can_reap(t, zombies[i], went[t].seeking)
  /\ went[t].nohang
  /\ Return(t, -1, 0)
  /\ went' = [went EXCEPT ![t] = NoCall]
  /\ UNCHANGED <<procVars, at, zombies, waiters, waker, runnable, rude>>

\* ent.start() returns.
StartReturns(t) ==
  /\ pc[t] = "wait" /\ t \in runnable /\ t \notin rude
  /\ pc' = [pc EXCEPT ![t] = IF went[t].proc = None THEN "look" ELSE "reap"]
  /\ UNCHANGED <<procVars, at, zombies, waiters, waker, went, runnable, rude, reply>>

\* Mutant of reap: the children of the process stay as they are.
reap_keeps_children(t) ==
  LET p == went[t].proc IN
  /\ pc[t] = "reap" /\ at[p] = "gone"
  /\ table' = table \ {p}
  /\ children' = [children EXCEPT ![Owner[t]] = @ \ {p}]
  /\ went' = [went EXCEPT ![t] = NoCall]
  /\ Return(t, Flags, 0)
  /\ UNCHANGED <<at, zombies, waiters, waker, runnable, rude, orphans, parent>>

\* reap, once it has locks.run of the thread. Its result is what do_waitpid
\* returns; the status that sys::waitpid stores is the 0 it starts with.
reap(t) ==
  LET p == went[t].proc
      me == Owner[t]
  IN
  /\ pc[t] = "reap" /\ at[p] = "gone"
  /\ table' = table \ {p}
  /\ parent' = [c \in Procs |-> IF c \in children[p] THEN init ELSE parent[c]]
  /\ children' = [q \in Procs |->
       (IF q = me THEN children[q] \ {p} ELSE children[q])
         \union (IF q = init THEN children[p] ELSE {})]
  /\ orphans' = orphans \union children[p]
  /\ went' = [went EXCEPT ![t] = NoCall]
  /\ Return(t, Flags, 0)
  /\ UNCHANGED <<at, zombies, waiters, waker, runnable, rude>>

Exiting(p) == zombify(p) \/ ZombifyWake(p) \/ SchedExit(p)
Waiting(t) == TakeZombie(t) \/ JoinWaiters(t) \/ NoHang(t) \/ StartReturns(t) \/ reap(t)

Next ==
  \/ \E t \in Threads :
       \/ exit_proc(t) \/ Waiting(t)
       \/ \E c \in Procs : do_fork(t, c)
       \/ \E s \in Seeks, n \in BOOLEAN : do_waitpid(t, s, n)
  \/ \E p \in Procs : Exiting(p) \/ Tick(p)

Spec == Init /\ [][Next]_vars

\* thread::send_signal to a thread in ent.start()
Signal(t) ==
  /\ pc[t] = "wait" /\ t \notin runnable
  /\ runnable' = runnable \union {t}
  /\ rude' = rude \union {t}
  /\ UNCHANGED <<procVars, at, zombies, waiters, waker, pc, went, reply>>

\* ent.start() returns with a signal; the entry stays on waiter_list.
Interrupted(t) ==
  /\ pc[t] = "wait" /\ t \in runnable /\ t \in rude
  /\ Return(t, -4, 0)
  /\ UNCHANGED <<procVars, at, zombies, waiters, waker, went, runnable, rude>>

\* Spec has no signals: what follows an interrupted call is undefined, since the
\* entry that stays on the list is on a stack that is used for something else.
SignalSpec == Init /\ [][Next \/ \E t \in Threads : Signal(t) \/ Interrupted(t)]_vars

\* A thread in the kernel goes on, since the scheduler picks it again and again;
\* and init, whatever else it does, calls waitpid(-1) again and again.
Fairness ==
  /\ \A p \in Procs : WF_vars(Exiting(p))
  /\ \A t \in Threads : WF_vars(Waiting(t))
  /\ \A t \in Threads : Owner[t] = init => SF_vars(do_waitpid(t, ANY, FALSE))

LiveSpec == Spec /\ Fairness

-----------------------------------------------------------------------------
(* Properties *)

TypeOK ==
  /\ table \in SUBSET Procs
  /\ at \in [Procs -> {"alive", "marked", "handed", "exit", "gone"}]
  /\ parent \in [Procs -> Procs \union {None}]
  /\ children \in [Procs -> SUBSET Procs]
  /\ zombies \in Seq(Procs) /\ waiters \in Seq(Threads)
  /\ waker \in [Procs -> Threads \union {None}]
  /\ pc \in [Threads -> {"user", "look", "wait", "reap"}]
  /\ went \in [Threads -> [seeking : Procs \union {ANY}, nohang : BOOLEAN,
                           proc : Procs \union {None}]]
  /\ runnable \in SUBSET Threads /\ rude \in SUBSET Threads
  /\ reply \in [Threads -> [res : Replies \union {0}, status : {0, Flags}]]
  /\ orphans \in SUBSET Procs

Listed(p) == p \in Range(zombies)
HasCaught(t, p) == went[t].proc = p

\* A dead process is reaped once: it is on zombie_list or caught by one thread,
\* never both, never by two, and by none once it is out of the table. What a
\* thread has caught is a child of its process that it was looking for.
OneReaper ==
  /\ IsInjective(zombies)
  /\ \A p \in Procs :
       /\ Listed(p) => p \in table /\ at[p] # "alive" /\ \A t \in Threads : ~HasCaught(t, p)
       /\ \A t, u \in Threads : HasCaught(t, p) /\ HasCaught(u, p) => t = u
  /\ \A t \in Threads : went[t].proc # None =>
       went[t].proc \in table /\ can_reap(t, went[t].proc, went[t].seeking)

\* process::parent is a plain pointer, which can_reap() follows: the parent of a
\* process in the table is in the table as well, and counts it among its
\* children, also when reap() has just freed the parent that it was born to.
ParentIsThere ==
  \A p \in table \ {init} :
    parent[p] \in table /\ \A q \in table : p \in children[q] <=> q = parent[p]

\* No waiter sleeps over a zombie that it could reap, unless init inherited it.
NoOversight ==
  \A i \in DOMAIN waiters, j \in DOMAIN zombies :
    can_reap(waiters[i], zombies[j], went[waiters[i]].seeking) => zombies[j] \in orphans

\* A listed child of init, other than one that it inherited, is reaped while
\* init goes on calling waitpid(-1), unless all threads of init are asleep, each
\* to wait for another process, or given one by a waker that a tick has stopped.
AsleepForOther(t, p) ==
  pc[t] = "wait" /\ (went[t].seeking \notin {p, ANY} \/ went[t].proc # None)
ListedIsReaped ==
  \A p \in Procs :
    (Listed(p) /\ parent[p] = init /\ p \notin orphans)
      ~> (p \notin table \/ \A t \in Threads : Owner[t] = init => AsleepForOther(t, p))

-----------------------------------------------------------------------------
(* What comments of the code say of it *)

\* "it first looks through waiting threads to see if anyone is interested": an
\* entry of waiter_list is one of a thread that waits.
WaitersAreWaiting == \A i \in DOMAIN waiters : pc[waiters[i]] = "wait"

\* "If no thread is available to reap it, it creates an entry in the zombie_list
\* for future waiters": a process that exits is given to a waiter or listed.
ExitIsPublished ==
  \A p \in Procs :
    at[p] = "marked" ~> (Listed(p) \/ p \notin table \/ \E t \in Threads : HasCaught(t, p))

\* The same comment: a zombie on the list is one that no waiting thread can reap.
ListedMeansNobodyWaits ==
  \A i \in DOMAIN waiters, j \in DOMAIN zombies :
    ~can_reap(waiters[i], zombies[j], went[waiters[i]].seeking)

\* "if the waiter can reap, remove them from the list, fill in the zent field,
\* memory sync, and wake them up" (zombify): a waiter that has been given a
\* process wakes up.
FilledWaiterWakes ==
  \A t \in Threads : (pc[t] = "wait" /\ went[t].proc # None) ~> (t \in runnable)

\* "local status which will be built up as we figure out what to wait on"
\* (sys::waitpid): what is stored for a reaped process is its exit status.
StatusIsBuiltUp == \A t \in Threads : reply[t].res = Flags => reply[t].status = Flags
=============================================================================
