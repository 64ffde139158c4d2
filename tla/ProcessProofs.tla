--------------------------- MODULE ProcessProofs ---------------------------
(***************************************************************************)
(* The ends of processes, for any processes and threads of which only init *)
(* has several: a dead process is reaped once, the parent of a process is  *)
(* there, and no waiter sleeps over a zombie that was born to it. Then the *)
(* ends of the threads of one process, for any threads and any program: a  *)
(* thread that is joined is dead, so are all of them when the process has  *)
(* been published, and execve leaves one, each in the programs for which   *)
(* the code does so.                                                       *)
(***************************************************************************)
EXTENDS MCProcesses, ListLemmas, TLAPS

\* A step is for Zenon unless it names another prover.
USE Zenon

-----------------------------------------------------------------------------
(* Processes *)

\* init is there for good, and so is the process of a thread in a call and a
\* process on its way out.
InTable ==
  /\ init \in table /\ at[init] = "alive"
  /\ \A t \in Threads : pc[t] # "user" => Owner[t] \in table /\ at[Owner[t]] = "alive"
  /\ \A p \in Procs : at[p] \in {"marked", "handed", "exit"} => p \in table

\* Nobody has, or finds, a process that has not got as far as zombify().
NotYet ==
  \A p \in Procs : at[p] \in {"alive", "marked"} =>
    ~Listed(p) /\ \A t \in Threads : ~HasCaught(t, p)

\* A thread has caught a process from the end of its search, or of its sleep, on.
Caught ==
  \A t \in Threads :
    /\ pc[t] \in {"user", "look"} => went[t].proc = None
    /\ pc[t] = "reap" => went[t].proc # None

\* The entries of waiter_list are threads that sleep and have caught nothing.
Sleepers ==
  /\ IsInjective(waiters)
  /\ \A t \in Range(waiters) : pc[t] = "wait" /\ t \notin runnable /\ went[t].proc = None

\* Who is about to be woken has caught the process that wakes it.
Handed == \A p \in Procs : at[p] = "handed" => waker[p] \in Threads /\ HasCaught(waker[p], p)

\* A process that was never forked is nobody's child, and has none.
Unborn ==
  /\ parent[init] = None
  /\ \A p \in Procs : parent[p] = None =>
       /\ \A q \in Procs : p \notin children[q]
       /\ p # init => children[p] = {}

\* The inductive invariant.
IInv ==
  /\ TypeOK /\ InTable /\ NotYet /\ Caught /\ Sleepers /\ Handed /\ Unborn
  /\ OneReaper /\ ParentIsThere /\ NoOversight
------------------------------------------------------------------------------
(* The two lists, and the entries *)

\* What is on the lists.
LEMMA OnLists ==
  ASSUME TypeOK
  PROVE  Range(zombies) \subseteq Procs /\ Range(waiters) \subseteq Threads
BY SMT DEF TypeOK, Range

\* NoOversight, of the lists as sets.
Overseen == \A w \in Range(waiters), z \in Range(zombies) :
  can_reap(w, z, went[w].seeking) => z \in orphans

\* The lists may be read as sets.
LEMMA OverseenIs == NoOversight <=> Overseen
BY DEF NoOversight, Overseen, Range

\* A thread catches a process.
LEMMA Catches ==
  ASSUME TypeOK, NEW t \in Threads, NEW p \in Procs, went' = [went EXCEPT ![t].proc = p]
  PROVE  /\ went' \in [Threads -> [seeking : Procs \union {ANY}, nohang : BOOLEAN,
                                   proc : Procs \union {None}]]
         /\ went'[t].proc = p /\ went'[t].seeking = went[t].seeking
         /\ \A u \in Threads : u # t => went'[u] = went[u]
<1>1. went[t] \in [seeking : Procs \union {ANY}, nohang : BOOLEAN, proc : Procs \union {None}]
  BY DEF TypeOK
<1>2. went' = [went EXCEPT ![t] = [went[t] EXCEPT !.proc = p]]
  OBVIOUS
<1>3. /\ [went[t] EXCEPT !.proc = p]
           \in [seeking : Procs \union {ANY}, nohang : BOOLEAN, proc : Procs \union {None}]
      /\ [went[t] EXCEPT !.proc = p].proc = p
      /\ [went[t] EXCEPT !.proc = p].seeking = went[t].seeking
  BY <1>1
<1> QED
  BY <1>2, <1>3, SMT DEF TypeOK

\* A thread starts or ends a call.
LEMMA Enters ==
  ASSUME TypeOK, NEW t \in Threads, NEW s \in Procs \union {ANY}, NEW n \in BOOLEAN,
         went' = [went EXCEPT ![t] = [seeking |-> s, nohang |-> n, proc |-> None]]
  PROVE  /\ went' \in [Threads -> [seeking : Procs \union {ANY}, nohang : BOOLEAN,
                                   proc : Procs \union {None}]]
         /\ went'[t].proc = None
         /\ \A u \in Threads : u # t => went'[u] = went[u]
BY DEF TypeOK

\* do_waitpid returns.
LEMMA Returns ==
  ASSUME TypeOK, NEW t \in Threads, NEW res \in Replies, Return(t, res, 0)
  PROVE  /\ pc' \in [Threads -> {"user", "look", "wait", "reap"}]
         /\ reply' \in [Threads -> [res : Replies \union {0}, status : {0, Flags}]]
         /\ pc'[t] = "user" /\ \A u \in Threads : u # t => pc'[u] = pc[u]
BY DEF TypeOK, Return
------------------------------------------------------------------------------
(* The child *)

\* do_fork: the new process is a child of the caller and has nothing in any list.
LEMMA do_forkStep ==
  ASSUME IInv, NEW t \in Threads, NEW c \in Procs, do_fork(t, c)
  PROVE  IInv'
<1> USE DEF IInv
<1>1. /\ Owner[t] \in Procs /\ Owner[t] \in table /\ c \notin table /\ parent[c] = None /\ c # init
      /\ table' = table \union {c} /\ parent' = [parent EXCEPT ![c] = Owner[t]]
      /\ children' = [children EXCEPT ![Owner[t]] = @ \union {c}]
      /\ at' = at /\ zombies' = zombies /\ waiters' = waiters /\ waker' = waker /\ pc' = pc
      /\ went' = went /\ runnable' = runnable /\ rude' = rude /\ reply' = reply
      /\ orphans' = orphans
  BY Setup DEF do_fork, InUser, callVars
<1>2. TypeOK'
  BY <1>1 DEF TypeOK
<1>3. InTable'
  BY <1>1 DEF InTable
<1>4. NotYet' /\ Caught' /\ Sleepers' /\ Handed'
  BY <1>1 DEF NotYet, Caught, Sleepers, Handed, Listed, HasCaught
<1>5. \A p \in Procs : p # c => parent'[p] = parent[p]
  BY <1>1 DEF TypeOK
<1>6. OneReaper'
  <2>1. \A p \in Procs : Listed(p)' <=> Listed(p)
    BY <1>1 DEF Listed
  <2>2. \A u \in Threads, p \in Procs : HasCaught(u, p)' <=> HasCaught(u, p)
    BY <1>1 DEF HasCaught
  <2>3. ASSUME NEW u \in Threads, went'[u].proc # None
        PROVE  went'[u].proc \in table' /\ can_reap(u, went[u].proc, went[u].seeking)'
    <3>1. went[u].proc \in table /\ can_reap(u, went[u].proc, went[u].seeking)
      BY <1>1, <2>3 DEF OneReaper
    <3> QED
      BY <1>1, <1>5, <3>1 DEF can_reap, TypeOK
  <2> QED
    BY <1>1, <2>1, <2>2, <2>3 DEF OneReaper
<1>7. Overseen'
  <2>1. \A z \in Range(zombies) : z \in Procs /\ z # c
    BY <1>1, OnLists DEF OneReaper, Listed
  <2>2. Overseen
    BY OverseenIs
  <2> QED
    BY <1>1, <1>5, <2>1, <2>2 DEF Overseen, can_reap
<1>8. Unborn'
  <2>1. Owner[t] = init \/ parent[Owner[t]] # None
    BY <1>1, Setup DEF ParentIsThere, TypeOK
  <2>2. parent'[init] = None
    BY <1>1, <1>5, Setup DEF Unborn
  <2>3. ASSUME NEW p \in Procs, parent'[p] = None
        PROVE  (\A q \in Procs : p \notin children'[q]) /\ (p # init => children'[p] = {})
    <3>1. p # c /\ parent[p] = None
      BY <1>1, <1>5, <2>3, Setup DEF TypeOK
    <3>2. \A q \in Procs : p \notin children'[q]
      BY <1>1, <3>1 DEF Unborn, TypeOK
    <3>3. p # init => children'[p] = {}
      BY <1>1, <2>1, <3>1 DEF Unborn, TypeOK
    <3> QED
      BY <3>2, <3>3
  <2> QED
    BY <2>2, <2>3 DEF Unborn
<1>9. ParentIsThere'
  <2>1. ASSUME NEW p \in table \ {init}
        PROVE  parent'[p] \in table' /\ \A q \in table' : p \in children'[q] <=> q = parent'[p]
    <3>1. /\ p \in Procs /\ p # c /\ parent'[p] = parent[p] /\ parent[p] \in table
          /\ \A q \in table : p \in children[q] <=> q = parent[p]
      BY <1>1, <1>5 DEF ParentIsThere, TypeOK
    <3>2. \A q \in Procs : p \in children'[q] <=> p \in children[q]
      BY <1>1, <3>1 DEF TypeOK
    <3>3. p \notin children[c]
      BY <1>1 DEF Unborn
    <3> QED
      BY <1>1, <3>1, <3>2, <3>3 DEF TypeOK
  <2>2. \A q \in Procs : c \in children'[q] <=> q = Owner[t]
    BY <1>1 DEF Unborn, TypeOK
  <2>3. parent'[c] = Owner[t]
    BY <1>1 DEF TypeOK
  <2> QED
    BY <1>1, <2>1, <2>2, <2>3, SMT DEF ParentIsThere, TypeOK
<1> QED
  BY <1>2, <1>3, <1>4, <1>6, <1>7, <1>8, <1>9 DEF Overseen, NoOversight, Range

\* A process, not init, goes on its way out, and nothing else happens.
LEMMA AtStep ==
  ASSUME IInv, NEW p \in Procs, NEW to \in {"marked", "gone"}, at' = [at EXCEPT ![p] = to], p # init,
         UNCHANGED <<procVars, zombies, waiters, waker, callVars>>,
         to = "marked" => at[p] = "alive" /\ p \in table,
         at[p] = "alive" => \A u \in Threads : Owner[u] = p => pc[u] = "user"
  PROVE  IInv'
<1> USE DEF IInv, procVars, callVars
<1>1. at'[p] = to /\ \A q \in Procs : q # p => at'[q] = at[q]
  BY DEF TypeOK
<1>2. TypeOK'
  BY DEF TypeOK
<1>3. InTable'
  <2>1. ASSUME NEW u \in Threads, pc'[u] # "user" PROVE Owner[u] \in table' /\ at'[Owner[u]] = "alive"
    <3>1. Owner[u] \in table /\ at[Owner[u]] = "alive" /\ Owner[u] \in Procs
      BY <2>1, Setup DEF InTable
    <3> QED
      BY <1>1, <2>1, <3>1
  <2> QED
    BY <1>1, <2>1, Setup DEF InTable
<1>4. \A q \in Procs : Listed(q)' <=> Listed(q)
  BY DEF Listed
<1>5. \A u \in Threads, q \in Procs : HasCaught(u, q)' <=> HasCaught(u, q)
  BY DEF HasCaught
<1>6. NotYet'
  BY <1>1, <1>4, <1>5 DEF NotYet
<1>7. Handed'
  BY <1>1, <1>5 DEF Handed
<1>8. Caught' /\ Sleepers' /\ Unborn' /\ ParentIsThere'
  BY DEF Caught, Sleepers, Unborn, ParentIsThere
<1>9. OneReaper'
  <2>1. \A q \in Procs : Listed(q) => q \in table /\ at'[q] # "alive"
    BY <1>1 DEF OneReaper
  <2> QED
    BY <1>4, <1>5, <2>1 DEF OneReaper, can_reap
<1>10. NoOversight'
  BY DEF NoOversight, can_reap
<1> QED
  BY <1>2, <1>3, <1>6, <1>7, <1>8, <1>9, <1>10

\* exit_proc: the process sets out, with no thread inside a call.
LEMMA exit_procStep ==
  ASSUME IInv, NEW t \in Threads, exit_proc(t)
  PROVE  IInv'
<1>1. \A u \in Threads : Owner[u] = Owner[t] => pc[u] = "user"
  BY Setup DEF IInv, exit_proc, InUser
<1> QED
  BY <1>1, AtStep, Setup DEF exit_proc, InUser, IInv

\* sched::exit, and the tick on a thread that is a zombie already: neither touches a list.
LEMMA SchedExitStep ==
  ASSUME IInv, NEW p \in Procs, SchedExit(p) \/ Tick(p)
  PROVE  IInv'
<1>1. p # init /\ at[p] # "alive"
  BY DEF SchedExit, Tick, IInv, InTable
<1> QED
  BY <1>1, AtStep DEF SchedExit, Tick

\* zombify finds a waiter.
LEMMA zombifyHands ==
  ASSUME IInv, NEW p \in Procs, zombify(p), NEW w \in Range(waiters), can_reap(w, p, went[w].seeking),
         waiters' = Del(waiters, w), went' = [went EXCEPT ![w].proc = p],
         waker' = [waker EXCEPT ![p] = w], at' = [at EXCEPT ![p] = "handed"], zombies' = zombies
  PROVE  IInv'
<1> USE DEF IInv
<1>1. /\ at[p] = "marked" /\ table' = table /\ parent' = parent /\ children' = children
      /\ orphans' = orphans /\ pc' = pc /\ runnable' = runnable /\ rude' = rude /\ reply' = reply
  BY DEF zombify, procVars
<1>2. /\ w \in Threads /\ pc[w] = "wait" /\ w \notin runnable /\ went[w].proc = None
      /\ p \in table /\ ~Listed(p) /\ \A t \in Threads : ~HasCaught(t, p)
  BY <1>1, OnLists DEF Sleepers, InTable, NotYet
<1>3. /\ went' \in [Threads -> [seeking : Procs \union {ANY}, nohang : BOOLEAN,
                                proc : Procs \union {None}]]
      /\ went'[w].proc = p /\ went'[w].seeking = went[w].seeking
      /\ \A u \in Threads : u # w => went'[u] = went[u]
  BY <1>2, Catches
<1>4. waiters' \in Seq(Threads) /\ Range(waiters') = Range(waiters) \ {w} /\ IsInjective(waiters')
  BY RngDel DEF Sleepers, TypeOK
<1>5. at'[p] = "handed" /\ \A q \in Procs : q # p => at'[q] = at[q]
  BY DEF TypeOK
<1>6. waker'[p] = w /\ \A q \in Procs : q # p => waker'[q] = waker[q]
  BY <1>2 DEF TypeOK
<1>7. TypeOK'
  BY <1>1, <1>2, <1>3, <1>4 DEF TypeOK
<1>8. InTable'
  <2>1. \A u \in Threads : pc[u] # "user" => Owner[u] # p
    BY <1>1 DEF InTable
  <2>2. init # p
    BY <1>1 DEF InTable
  <2> QED
    BY <1>1, <1>2, <1>5, <2>1, <2>2, Setup, SMT DEF InTable
<1>9. \A q \in Procs : Listed(q)' <=> Listed(q)
  BY DEF Listed
<1>10. \A q \in Procs : q # p => \A u \in Threads : HasCaught(u, q)' <=> HasCaught(u, q)
  BY <1>2, <1>3, Setup DEF HasCaught
<1>11. \A u \in Threads : HasCaught(u, p)' <=> u = w
  BY <1>2, <1>3 DEF HasCaught
<1>12. NotYet'
  BY <1>5, <1>9, <1>10 DEF NotYet
<1>13. Caught'
  BY <1>1, <1>2, <1>3 DEF Caught
<1>14. Sleepers'
  <2>1. Range(waiters)' = Range(waiters')
    BY DEF Range
  <2>2. IsInjective(waiters)'
    BY <1>4 DEF IsInjective
  <2>3. \A u \in Range(waiters') : u \in Threads /\ u # w /\ u \in Range(waiters)
    BY <1>4, OnLists
  <2> QED
    BY <1>1, <1>3, <2>1, <2>2, <2>3 DEF Sleepers
<1>15. Handed'
  <2>1. HasCaught(waker[p], p)'
    BY <1>3, <1>6 DEF HasCaught
  <2>2. ASSUME NEW q \in Procs, q # p, at'[q] = "handed" PROVE waker'[q] \in Threads /\ HasCaught(waker[q], q)'
    <3>1. waker'[q] = waker[q] /\ waker[q] \in Threads /\ went[waker[q]].proc = q
      BY <1>5, <1>6, <2>2 DEF Handed, HasCaught
    <3>2. waker[q] # w
      BY <1>2, <3>1, Setup
    <3> QED
      BY <1>3, <3>1, <3>2 DEF HasCaught
  <2> QED
    BY <1>2, <1>6, <2>1, <2>2 DEF Handed
<1>16. Unborn' /\ ParentIsThere'
  BY <1>1 DEF Unborn, ParentIsThere
<1>17. OneReaper'
  <2>1. \A q \in Procs : Listed(q) => q # p /\ q \in table /\ at'[q] # "alive"
    BY <1>2, <1>5 DEF OneReaper
  <2>2. \A q \in Procs : /\ Listed(q)' => \A u \in Threads : ~HasCaught(u, q)'
                         /\ \A u, v \in Threads : HasCaught(u, q)' /\ HasCaught(v, q)' => u = v
    BY <1>9, <1>10, <1>11, <2>1 DEF OneReaper
  <2>3. ASSUME NEW u \in Threads, went'[u].proc # None
        PROVE  went'[u].proc \in table' /\ can_reap(u, went[u].proc, went[u].seeking)'
    <3>1. CASE u = w
      BY <1>1, <1>2, <1>3, <3>1, SMT DEF can_reap
    <3>2. CASE u # w
      BY <1>1, <1>3, <2>3, <3>2 DEF can_reap, OneReaper
    <3> QED
      BY <3>1, <3>2
  <2> QED
    BY <1>1, <1>9, <2>1, <2>2, <2>3 DEF OneReaper
<1>18. Overseen'
  <2>1. Range(waiters)' = Range(waiters') /\ Range(zombies)' = Range(zombies)
    BY DEF Range
  <2>2. \A u \in Range(waiters') : u \in Range(waiters) /\ went'[u] = went[u]
    BY <1>3, <1>4, OnLists
  <2>3. Overseen
    BY OverseenIs
  <2> QED
    BY <1>1, <2>1, <2>2, <2>3 DEF Overseen, can_reap
<1> QED
  BY <1>7, <1>8, <1>12, <1>13, <1>14, <1>15, <1>16, <1>17, <1>18
     DEF Overseen, NoOversight, Range

\* zombify finds none.
LEMMA zombifyLists ==
  ASSUME IInv, NEW p \in Procs, zombify(p),
         \A w \in Range(waiters) : ~can_reap(w, p, went[w].seeking),
         zombies' = Append(zombies, p), at' = [at EXCEPT ![p] = "exit"],
         waiters' = waiters, went' = went, waker' = waker
  PROVE  IInv'
<1> USE DEF IInv
<1>1. /\ at[p] = "marked" /\ table' = table /\ parent' = parent /\ children' = children
      /\ orphans' = orphans /\ pc' = pc /\ runnable' = runnable /\ rude' = rude /\ reply' = reply
  BY DEF zombify, procVars
<1>2. p \in table /\ ~Listed(p) /\ \A t \in Threads : ~HasCaught(t, p)
  BY <1>1 DEF InTable, NotYet
<1>3. zombies' \in Seq(Procs) /\ Range(zombies') = Range(zombies) \union {p} /\ IsInjective(zombies')
  BY <1>2, RngAppend, SMT DEF OneReaper, TypeOK, Listed
<1>4. at'[p] = "exit" /\ \A q \in Procs : q # p => at'[q] = at[q]
  BY DEF TypeOK
<1>5. TypeOK'
  BY <1>1, <1>3 DEF TypeOK
<1>6. InTable'
  <2>1. init # p /\ \A u \in Threads : pc[u] # "user" => Owner[u] # p
    BY <1>1 DEF InTable
  <2> QED
    BY <1>1, <1>2, <1>4, <2>1, Setup, SMT DEF InTable
<1>7. \A q \in Procs : Listed(q)' <=> Listed(q) \/ q = p
  BY <1>3 DEF Listed, Range
<1>8. \A u \in Threads, q \in Procs : HasCaught(u, q)' <=> HasCaught(u, q)
  BY DEF HasCaught
<1>9. NotYet'
  BY <1>4, <1>7, <1>8 DEF NotYet
<1>10. Caught' /\ Sleepers' /\ Unborn' /\ ParentIsThere'
  BY <1>1 DEF Caught, Sleepers, Unborn, ParentIsThere
<1>11. Handed'
  BY <1>4, <1>8 DEF Handed
<1>12. OneReaper'
  <2>1. IsInjective(zombies)'
    BY <1>3 DEF IsInjective
  <2>2. \A q \in Procs : Listed(q)' => q \in table /\ at'[q] # "alive" /\ \A u \in Threads : ~HasCaught(u, q)
    BY <1>2, <1>4, <1>7 DEF OneReaper
  <2> QED
    BY <1>1, <1>8, <2>1, <2>2 DEF OneReaper, can_reap
<1>13. Overseen'
  <2>1. Range(zombies)' = Range(zombies) \union {p}
    BY <1>3 DEF Range
  <2>2. Overseen
    BY OverseenIs
  <2> QED
    BY <1>1, <2>1, <2>2 DEF Overseen, can_reap
<1> QED
  BY <1>5, <1>6, <1>9, <1>10, <1>11, <1>12, <1>13 DEF Overseen, NoOversight, Range

\* zombify: the process is put on zombie_list or in the hands of the first waiter that seeks it.
LEMMA zombifyStep ==
  ASSUME IInv, NEW p \in Procs, zombify(p)
  PROVE  IInv'
<1> DEFINE able == {t \in Threads : can_reap(t, p, went[t].seeking)}
<1>1. Range(waiters) \subseteq Threads
  BY OnLists DEF IInv
<1>2. CASE \E i \in DOMAIN waiters :
             /\ IsFirst(waiters, i, able)
             /\ waiters' = Del(waiters, waiters[i])
             /\ went' = [went EXCEPT ![waiters[i]].proc = p]
             /\ waker' = [waker EXCEPT ![p] = waiters[i]]
             /\ at' = [at EXCEPT ![p] = "handed"]
             /\ UNCHANGED zombies
  <2>1. PICK i \in DOMAIN waiters :
             /\ IsFirst(waiters, i, able)
             /\ waiters' = Del(waiters, waiters[i])
             /\ went' = [went EXCEPT ![waiters[i]].proc = p]
             /\ waker' = [waker EXCEPT ![p] = waiters[i]]
             /\ at' = [at EXCEPT ![p] = "handed"]
             /\ UNCHANGED zombies
    BY <1>2
  <2>2. waiters[i] \in Range(waiters) /\ can_reap(waiters[i], p, went[waiters[i]].seeking)
    BY <2>1 DEF IsFirst, Range
  <2> QED
    BY <2>1, <2>2, zombifyHands
<1>3. CASE /\ \A i \in DOMAIN waiters : waiters[i] \notin able
           /\ zombies' = Append(zombies, p)
           /\ at' = [at EXCEPT ![p] = "exit"]
           /\ UNCHANGED <<waiters, went, waker>>
  <2>1. \A w \in Range(waiters) : ~can_reap(w, p, went[w].seeking)
    BY <1>1, <1>3 DEF Range
  <2> QED
    BY <1>3, <2>1, zombifyLists
<1> QED
  BY <1>2, <1>3 DEF zombify

\* The end of zombify: the waiter that was given the process is woken.
LEMMA ZombifyWakeStep ==
  ASSUME IInv, NEW p \in Procs, ZombifyWake(p)
  PROVE  IInv'
<1> USE DEF IInv
<1>1. /\ at[p] = "handed" /\ runnable' = runnable \union {waker[p]} /\ rude' = rude \ {waker[p]}
      /\ waker' = [waker EXCEPT ![p] = None] /\ at' = [at EXCEPT ![p] = "exit"]
      /\ table' = table /\ parent' = parent /\ children' = children /\ orphans' = orphans
      /\ zombies' = zombies /\ waiters' = waiters /\ pc' = pc /\ went' = went /\ reply' = reply
  BY DEF ZombifyWake, procVars
<1>2. waker[p] \in Threads /\ went[waker[p]].proc = p /\ p \in table
  BY <1>1 DEF Handed, HasCaught, InTable
<1>3. at'[p] = "exit" /\ \A q \in Procs : q # p => at'[q] = at[q] /\ waker'[q] = waker[q]
  BY <1>1 DEF TypeOK
<1>4. TypeOK'
  BY <1>1, <1>2 DEF TypeOK
<1>5. InTable'
  <2>1. init # p /\ \A u \in Threads : pc[u] # "user" => Owner[u] # p
    BY <1>1 DEF InTable
  <2> QED
    BY <1>1, <1>2, <1>3, <2>1, Setup DEF InTable
<1>6. \A q \in Procs : Listed(q)' <=> Listed(q)
  BY <1>1 DEF Listed
<1>7. \A u \in Threads, q \in Procs : HasCaught(u, q)' <=> HasCaught(u, q)
  BY <1>1 DEF HasCaught
<1>8. NotYet'
  BY <1>3, <1>6, <1>7 DEF NotYet
<1>9. Caught' /\ Unborn' /\ ParentIsThere'
  BY <1>1 DEF Caught, Unborn, ParentIsThere
<1>10. Sleepers'
  <2>1. waker[p] \notin Range(waiters)
    BY <1>2, Setup DEF Sleepers
  <2> QED
    BY <1>1, <2>1 DEF Sleepers
<1>11. Handed'
  <2>1. ASSUME NEW q \in Procs, at'[q] = "handed" PROVE waker'[q] \in Threads /\ HasCaught(waker[q], q)'
    BY <1>1, <1>3, <2>1 DEF Handed, HasCaught
  <2> QED
    BY <2>1 DEF Handed
<1>12. OneReaper'
  <2>1. \A q \in Procs : Listed(q) => q \in table /\ at'[q] # "alive"
    BY <1>3 DEF OneReaper
  <2> QED
    BY <1>1, <1>6, <1>7, <2>1 DEF OneReaper, can_reap
<1>13. NoOversight'
  BY <1>1 DEF NoOversight, can_reap
<1> QED
  BY <1>4, <1>5, <1>8, <1>9, <1>10, <1>11, <1>12, <1>13
------------------------------------------------------------------------------
(* The parent *)

\* A thread that is on no list and has caught nothing goes into or out of a call.
LEMMA CallStep ==
  ASSUME IInv, TypeOK', NEW t \in Threads, pc[t] \in {"user", "look"}, pc'[t] \in {"user", "look"},
         pc'[t] = "look" => Owner[t] \in table /\ at[Owner[t]] = "alive",
         went'[t].proc = None,
         \A u \in Threads : u # t => pc'[u] = pc[u] /\ went'[u] = went[u],
         UNCHANGED <<procVars, at, zombies, waiters, waker, runnable, rude>>
  PROVE  IInv'
<1> USE DEF IInv, procVars
<1>1. went[t].proc = None /\ t \notin Range(waiters)
  BY DEF Caught, Sleepers
<1>2. InTable'
  BY DEF InTable
<1>3. \A q \in Procs : Listed(q)' <=> Listed(q)
  BY DEF Listed
<1>4. \A u \in Threads, q \in Procs : HasCaught(u, q)' <=> HasCaught(u, q)
  BY <1>1 DEF HasCaught
<1>5. NotYet'
  BY <1>3, <1>4 DEF NotYet
<1>6. Caught'
  BY DEF Caught
<1>7. Sleepers'
  BY <1>1, OnLists DEF Sleepers
<1>8. Handed'
  <2>1. ASSUME NEW q \in Procs, at'[q] = "handed" PROVE waker'[q] \in Threads /\ HasCaught(waker[q], q)'
    <3>1. waker[q] \in Threads /\ went[waker[q]].proc = q
      BY <2>1 DEF Handed, HasCaught
    <3>2. waker[q] # t
      BY <1>1, <3>1, Setup, SMT
    <3> QED
      BY <3>1, <3>2 DEF HasCaught
  <2> QED
    BY <2>1 DEF Handed
<1>9. Unborn' /\ ParentIsThere'
  BY SMT DEF Unborn, ParentIsThere
<1>10. OneReaper'
  <2>1. ASSUME NEW u \in Threads, went'[u].proc # None
        PROVE  went'[u].proc \in table' /\ can_reap(u, went[u].proc, went[u].seeking)'
    <3>1. went'[u] = went[u]
      BY <2>1
    <3> QED
      BY <2>1, <3>1 DEF OneReaper, can_reap
  <2> QED
    BY <1>3, <1>4, <2>1 DEF OneReaper
<1>11. Overseen'
  <2>1. \A w \in Range(waiters) : went'[w] = went[w]
    BY <1>1, OnLists
  <2>2. Overseen
    BY OverseenIs
  <2> QED
    BY <2>1, <2>2 DEF Overseen, can_reap
<1> QED
  BY <1>2, <1>5, <1>6, <1>7, <1>8, <1>9, <1>10, <1>11, SMT DEF Overseen, NoOversight, Range

\* do_waitpid: the call begins, or fails at once when nobody has the pid.
LEMMA do_waitpidStep ==
  ASSUME IInv, NEW t \in Threads, NEW s \in Seeks, NEW n \in BOOLEAN, do_waitpid(t, s, n)
  PROVE  IInv'
<1> USE DEF IInv
<1>1. /\ pc[t] = "user" /\ Owner[t] \in table /\ at[Owner[t]] = "alive"
      /\ UNCHANGED <<procVars, at, zombies, waiters, waker, runnable, rude>>
      /\ s \in Procs \union {ANY}
  BY Setup DEF do_waitpid, InUser
<1>2. CASE Return(t, -10, 0) /\ went' = went
  <2>1. -10 \in Replies
    BY DEF Replies
  <2>2. /\ pc' \in [Threads -> {"user", "look", "wait", "reap"}]
        /\ reply' \in [Threads -> [res : Replies \union {0}, status : {0, Flags}]]
        /\ pc'[t] = "user" /\ \A u \in Threads : u # t => pc'[u] = pc[u]
    BY <1>2, <2>1, Returns
  <2>3. TypeOK'
    BY <1>1, <1>2, <2>2 DEF TypeOK, procVars
  <2>4. went'[t].proc = None
    BY <1>1, <1>2 DEF Caught
  <2> QED
    BY <1>1, <1>2, <2>2, <2>3, <2>4, CallStep
<1>3. CASE /\ pc' = [pc EXCEPT ![t] = "look"]
           /\ went' = [went EXCEPT ![t] = [seeking |-> s, nohang |-> n, proc |-> None]]
           /\ reply' = [reply EXCEPT ![t] = NoReply]
  <2>1. /\ went' \in [Threads -> [seeking : Procs \union {ANY}, nohang : BOOLEAN,
                                  proc : Procs \union {None}]]
        /\ went'[t].proc = None
        /\ \A u \in Threads : u # t => went'[u] = went[u]
    BY <1>1, <1>3, Enters
  <2>2. pc'[t] = "look" /\ \A u \in Threads : u # t => pc'[u] = pc[u]
    BY <1>3 DEF TypeOK
  <2>3. TypeOK'
    BY <1>1, <1>3, <2>1 DEF TypeOK, procVars, NoReply
  <2> QED
    BY <1>1, <2>1, <2>2, <2>3, CallStep
<1> QED
  BY <1>2, <1>3 DEF do_waitpid

\* do_waitpid with WNOHANG returns with empty hands.
LEMMA NoHangStep ==
  ASSUME IInv, NEW t \in Threads, NoHang(t)
  PROVE  IInv'
<1> USE DEF IInv
<1>1. -1 \in Replies /\ ANY \in Procs \union {ANY}
  BY DEF Replies
<1>2. /\ pc' \in [Threads -> {"user", "look", "wait", "reap"}]
      /\ reply' \in [Threads -> [res : Replies \union {0}, status : {0, Flags}]]
      /\ pc'[t] = "user" /\ \A u \in Threads : u # t => pc'[u] = pc[u]
  BY <1>1, Returns DEF NoHang
<1>3. went' = [went EXCEPT ![t] = [seeking |-> ANY, nohang |-> FALSE, proc |-> None]]
  BY DEF NoHang, NoCall
<1>4. /\ went' \in [Threads -> [seeking : Procs \union {ANY}, nohang : BOOLEAN,
                                proc : Procs \union {None}]]
      /\ went'[t].proc = None
      /\ \A u \in Threads : u # t => went'[u] = went[u]
  BY <1>1, <1>3, Enters
<1>5. pc[t] = "look" /\ UNCHANGED <<procVars, at, zombies, waiters, waker, runnable, rude>>
  BY DEF NoHang
<1>6. TypeOK'
  BY <1>2, <1>4, <1>5 DEF TypeOK, procVars
<1> QED
  BY <1>2, <1>4, <1>5, <1>6, CallStep

\* do_waitpid takes a zombie it may reap off the list.
LEMMA TakeZombieStep ==
  ASSUME IInv, NEW t \in Threads, TakeZombie(t)
  PROVE  IInv'
<1> USE DEF IInv
<1>1. PICK z \in Procs : /\ z \in Range(zombies) /\ can_reap(t, z, went[t].seeking)
                         /\ zombies' = Del(zombies, z) /\ went' = [went EXCEPT ![t].proc = z]
  <2>1. PICK i \in DOMAIN zombies :
          /\ IsFirst(zombies, i, {z \in Procs : can_reap(t, z, went[t].seeking)})
          /\ zombies' = Del(zombies, zombies[i])
          /\ went' = [went EXCEPT ![t].proc = zombies[i]]
    BY DEF TakeZombie
  <2>2. /\ zombies[i] \in Procs /\ zombies[i] \in Range(zombies)
        /\ can_reap(t, zombies[i], went[t].seeking)
    BY <2>1 DEF IsFirst, Range
  <2> QED
    BY <2>1, <2>2
<1>2. /\ pc[t] = "look" /\ pc' = [pc EXCEPT ![t] = "reap"]
      /\ table' = table /\ parent' = parent /\ children' = children /\ orphans' = orphans
      /\ at' = at /\ waiters' = waiters /\ waker' = waker /\ runnable' = runnable
      /\ rude' = rude /\ reply' = reply
  BY DEF TakeZombie, procVars
<1>3. /\ went' \in [Threads -> [seeking : Procs \union {ANY}, nohang : BOOLEAN,
                                proc : Procs \union {None}]]
      /\ went'[t].proc = z /\ went'[t].seeking = went[t].seeking
      /\ \A u \in Threads : u # t => went'[u] = went[u]
  BY <1>1, Catches
<1>4. zombies' \in Seq(Procs) /\ Range(zombies') = Range(zombies) \ {z} /\ IsInjective(zombies')
  BY <1>1, RngDel DEF OneReaper, TypeOK
<1>5. /\ went[t].proc = None /\ t \notin Range(waiters)
      /\ z \in table /\ at[z] # "alive" /\ \A u \in Threads : ~HasCaught(u, z)
  BY <1>1, <1>2 DEF Caught, Sleepers, OneReaper, Listed
<1>6. pc'[t] = "reap" /\ \A u \in Threads : u # t => pc'[u] = pc[u]
  BY <1>2 DEF TypeOK
<1>7. TypeOK'
  BY <1>2, <1>3, <1>4 DEF TypeOK
<1>8. InTable'
  BY <1>2, <1>6 DEF InTable
<1>9. \A q \in Procs : Listed(q)' <=> Listed(q) /\ q # z
  BY <1>4 DEF Listed, Range
<1>10. \A q \in Procs : q # z => \A u \in Threads : HasCaught(u, q)' <=> HasCaught(u, q)
  BY <1>3, <1>5, Setup DEF HasCaught
<1>11. \A u \in Threads : HasCaught(u, z)' <=> u = t
  BY <1>3, <1>5 DEF HasCaught
<1>12. NotYet'
  <2>1. at[z] \notin {"alive", "marked"}
    BY <1>1 DEF NotYet, Listed
  <2> QED
    BY <1>2, <1>9, <1>10, <2>1 DEF NotYet
<1>13. Caught'
  BY <1>1, <1>3, <1>6, Setup DEF Caught
<1>14. Sleepers'
  BY <1>2, <1>3, <1>5, <1>6, OnLists DEF Sleepers
<1>15. Handed'
  <2>1. ASSUME NEW q \in Procs, at'[q] = "handed" PROVE waker'[q] \in Threads /\ HasCaught(waker[q], q)'
    <3>1. waker'[q] = waker[q] /\ waker[q] \in Threads /\ went[waker[q]].proc = q
      BY <1>2, <2>1 DEF Handed, HasCaught
    <3>2. waker[q] # t
      BY <1>5, <3>1, Setup
    <3> QED
      BY <1>3, <3>1, <3>2 DEF HasCaught
  <2> QED
    BY <2>1 DEF Handed
<1>16. Unborn' /\ ParentIsThere'
  BY <1>2 DEF Unborn, ParentIsThere
<1>17. OneReaper'
  <2>1. IsInjective(zombies)'
    BY <1>4 DEF IsInjective
  <2>2. \A q \in Procs :
          /\ Listed(q)' => q \in table /\ at[q] # "alive" /\ \A u \in Threads : ~HasCaught(u, q)'
          /\ \A u, v \in Threads : HasCaught(u, q)' /\ HasCaught(v, q)' => u = v
    BY <1>9, <1>10, <1>11 DEF OneReaper
  <2>3. ASSUME NEW u \in Threads, went'[u].proc # None
        PROVE  went'[u].proc \in table' /\ can_reap(u, went[u].proc, went[u].seeking)'
    <3>1. CASE u = t
      BY <1>1, <1>2, <1>3, <1>5, <3>1, SMT DEF can_reap
    <3>2. CASE u # t
      BY <1>2, <1>3, <2>3, <3>2 DEF can_reap, OneReaper
    <3> QED
      BY <3>1, <3>2
  <2> QED
    BY <1>2, <2>1, <2>2, <2>3 DEF OneReaper
<1>18. Overseen'
  <2>1. Range(zombies)' = Range(zombies) \ {z}
    BY <1>4 DEF Range
  <2>2. \A w \in Range(waiters) : went'[w] = went[w]
    BY <1>3, <1>5, OnLists
  <2>3. Overseen
    BY OverseenIs
  <2> QED
    BY <1>2, <2>1, <2>2, <2>3 DEF Overseen, can_reap
<1> QED
  BY <1>7, <1>8, <1>12, <1>13, <1>14, <1>15, <1>16, <1>17, <1>18
     DEF Overseen, NoOversight, Range

\* do_waitpid finds no zombie and puts its entry on waiter_list.
LEMMA JoinWaitersStep ==
  ASSUME IInv, NEW t \in Threads, JoinWaiters(t)
  PROVE  IInv'
<1> USE DEF IInv
<1>1. /\ pc[t] = "look" /\ pc' = [pc EXCEPT ![t] = "wait"] /\ waiters' = <<t>> \o waiters
      /\ runnable' = runnable \ {t} /\ \A z \in Range(zombies) : ~can_reap(t, z, went[t].seeking)
      /\ table' = table /\ parent' = parent /\ children' = children /\ orphans' = orphans
      /\ at' = at /\ zombies' = zombies /\ waker' = waker /\ went' = went
      /\ rude' = rude /\ reply' = reply
  BY DEF JoinWaiters, procVars, Range
<1>2. t \notin Range(waiters) /\ went[t].proc = None
  BY <1>1 DEF Sleepers, Caught
<1>3. waiters' \in Seq(Threads) /\ Range(waiters') = Range(waiters) \union {t} /\ IsInjective(waiters')
  BY <1>1, <1>2, RngCons, SMT DEF Sleepers, TypeOK
<1>4. pc'[t] = "wait" /\ \A u \in Threads : u # t => pc'[u] = pc[u]
  BY <1>1 DEF TypeOK
<1>5. TypeOK'
  BY <1>1, <1>3 DEF TypeOK
<1>6. InTable'
  BY <1>1, <1>4 DEF InTable
<1>7. NotYet' /\ Handed' /\ Unborn' /\ ParentIsThere'
  BY <1>1 DEF NotYet, Handed, Listed, HasCaught, Unborn, ParentIsThere
<1>8. Caught'
  BY <1>1, <1>4 DEF Caught
<1>9. Sleepers'
  <2>1. Range(waiters)' = Range(waiters) \union {t} /\ IsInjective(waiters)'
    BY <1>3 DEF Range, IsInjective
  <2> QED
    BY <1>1, <1>2, <1>4, <2>1, OnLists DEF Sleepers
<1>10. OneReaper'
  BY <1>1 DEF OneReaper, Listed, HasCaught, can_reap
<1>11. Overseen'
  <2>1. Range(waiters)' = Range(waiters) \union {t} /\ Range(zombies)' = Range(zombies)
    BY <1>1, <1>3 DEF Range
  <2>2. Overseen
    BY OverseenIs
  <2> QED
    BY <1>1, <2>1, <2>2 DEF Overseen, can_reap
<1> QED
  BY <1>5, <1>6, <1>7, <1>8, <1>9, <1>10, <1>11 DEF Overseen, NoOversight, Range

\* start() returns: a waiter wakes with the process it was given.
LEMMA StartReturnsStep ==
  ASSUME IInv, NEW t \in Threads, StartReturns(t)
  PROVE  IInv'
<1> USE DEF IInv
<1>1. /\ pc[t] = "wait" /\ t \in runnable
      /\ pc' = [pc EXCEPT ![t] = IF went[t].proc = None THEN "look" ELSE "reap"]
      /\ table' = table /\ parent' = parent /\ children' = children /\ orphans' = orphans
      /\ at' = at /\ zombies' = zombies /\ waker' = waker /\ went' = went /\ waiters' = waiters
      /\ runnable' = runnable /\ rude' = rude /\ reply' = reply
  BY DEF StartReturns, procVars
<1>2. t \notin Range(waiters)
  BY <1>1 DEF Sleepers
<1>3. /\ pc'[t] = IF went[t].proc = None THEN "look" ELSE "reap"
      /\ \A u \in Threads : u # t => pc'[u] = pc[u]
  BY <1>1 DEF TypeOK
<1>4. TypeOK'
  BY <1>1 DEF TypeOK
<1>5. InTable'
  BY <1>1, <1>3 DEF InTable
<1>6. NotYet' /\ Handed' /\ Unborn' /\ ParentIsThere'
  BY <1>1 DEF NotYet, Handed, Listed, HasCaught, Unborn, ParentIsThere
<1>7. Caught'
  BY <1>1, <1>3, SMT DEF Caught
<1>8. Sleepers'
  BY <1>1, <1>2, <1>3, OnLists DEF Sleepers
<1>9. OneReaper' /\ NoOversight'
  BY <1>1 DEF OneReaper, NoOversight, Listed, HasCaught, can_reap
<1> QED
  BY <1>4, <1>5, <1>6, <1>7, <1>8, <1>9

\* reap: the process goes, its children are init's, and nothing points to it any more.
LEMMA reapStep ==
  ASSUME IInv, NEW t \in Threads, reap(t)
  PROVE  IInv'
<1> USE DEF IInv
<1> DEFINE p == went[t].proc
           me == Owner[t]
<1>1. /\ pc[t] = "reap" /\ at[p] = "gone" /\ table' = table \ {p}
      /\ parent' = [c \in Procs |-> IF c \in children[p] THEN init ELSE parent[c]]
      /\ children' = [q \in Procs |-> (IF q = me THEN children[q] \ {p} ELSE children[q])
                                        \union (IF q = init THEN children[p] ELSE {})]
      /\ orphans' = orphans \union children[p]
      /\ went' = [went EXCEPT ![t] = [seeking |-> ANY, nohang |-> FALSE, proc |-> None]]
      /\ Return(t, Flags, 0)
      /\ at' = at /\ zombies' = zombies /\ waiters' = waiters /\ waker' = waker
      /\ runnable' = runnable /\ rude' = rude
  BY DEF reap, NoCall
<1>2. /\ p \in Procs /\ p \in table /\ p # init /\ parent[p] = me /\ me \in Procs /\ me \in table
      /\ me # p /\ t \notin Range(waiters) /\ ~Listed(p)
      /\ \A u \in Threads : u # t => went[u].proc # p
  <2>1. went[t].proc # None
    BY <1>1 DEF Caught
  <2>2. p \in table /\ can_reap(t, p, went[t].seeking)
    BY <2>1 DEF OneReaper
  <2>3. p \in Procs /\ HasCaught(t, p)
    BY <2>2 DEF TypeOK, HasCaught
  <2>4. ~Listed(p) /\ \A u \in Threads : HasCaught(u, p) => u = t
    BY <2>3 DEF OneReaper
  <2>5. p # init /\ me \in table /\ me # p /\ t \notin Range(waiters)
    BY <1>1 DEF InTable, Sleepers
  <2> QED
    BY <2>2, <2>3, <2>4, <2>5, Setup DEF can_reap, HasCaught
<1> HIDE DEF p, me
<1>3. Flags \in Replies /\ ANY \in Procs \union {ANY}
  BY DEF Replies
<1>4. /\ pc' \in [Threads -> {"user", "look", "wait", "reap"}]
      /\ reply' \in [Threads -> [res : Replies \union {0}, status : {0, Flags}]]
      /\ pc'[t] = "user" /\ \A u \in Threads : u # t => pc'[u] = pc[u]
  BY <1>1, <1>3, Returns
<1>5. /\ went' \in [Threads -> [seeking : Procs \union {ANY}, nohang : BOOLEAN,
                                proc : Procs \union {None}]]
      /\ went'[t].proc = None
      /\ \A u \in Threads : u # t => went'[u] = went[u]
  BY <1>1, <1>3, Enters
<1>6. /\ children[p] \subseteq Procs /\ init \in Procs /\ parent \in [Procs -> Procs \union {None}]
      /\ children \in [Procs -> SUBSET Procs] /\ table \subseteq Procs
  BY <1>2, Setup DEF TypeOK
<1>7. TypeOK'
  <2>1. parent' \in [Procs -> Procs \union {None}] /\ children' \in [Procs -> SUBSET Procs]
    BY <1>1, <1>6
  <2>2. table' \in SUBSET Procs /\ orphans' \in SUBSET Procs
    BY <1>1, <1>6 DEF TypeOK
  <2> QED
    BY <1>1, <1>4, <1>5, <2>1, <2>2 DEF TypeOK
<1>8. InTable'
  <2>1. \A u \in Threads : pc'[u] # "user" => Owner[u] \in table' /\ at'[Owner[u]] = "alive"
    BY <1>1, <1>4 DEF InTable
  <2>2. \A q \in Procs : at[q] \in {"marked", "handed", "exit"} => q # p
    BY <1>1
  <2> QED
    BY <1>1, <1>2, <2>1, <2>2 DEF InTable
<1>9. \A q \in Procs : Listed(q)' <=> Listed(q)
  BY <1>1 DEF Listed
<1>10. \A u \in Threads, q \in Procs : HasCaught(u, q)' <=> HasCaught(u, q) /\ u # t
  BY <1>5, Setup DEF HasCaught
<1>11. NotYet'
  BY <1>1, <1>9, <1>10 DEF NotYet
<1>12. Caught'
  BY <1>4, <1>5 DEF Caught
<1>13. Sleepers'
  BY <1>1, <1>2, <1>4, <1>5, OnLists DEF Sleepers
<1>14. Handed'
  <2>1. ASSUME NEW q \in Procs, at'[q] = "handed" PROVE waker'[q] \in Threads /\ HasCaught(waker[q], q)'
    <3>1. waker'[q] = waker[q] /\ waker[q] \in Threads /\ went[waker[q]].proc = q
      BY <1>1, <2>1 DEF Handed, HasCaught
    <3>2. waker[q] # t
      BY <1>1, <2>1, <3>1 DEF p
    <3> QED
      BY <1>5, <3>1, <3>2 DEF HasCaught
  <2> QED
    BY <2>1 DEF Handed
<1>15. \A c \in Procs : parent'[c] = IF c \in children[p] THEN init ELSE parent[c]
  BY <1>1
<1>16. \A q \in Procs, c \in Procs :
         c \in children'[q] <=> (c \in children[q] /\ ~(q = me /\ c = p))
                                  \/ (q = init /\ c \in children[p])
  BY <1>1
<1>17. \A c \in table \ {init} : /\ c \in Procs /\ parent[c] \in table
                                 /\ \A q \in table : c \in children[q] <=> q = parent[c]
  BY <1>6 DEF ParentIsThere
<1>18. Unborn'
  <2>1. parent'[init] = None
    BY <1>2, <1>6, <1>15 DEF Unborn
  <2>2. ASSUME NEW c \in Procs, parent'[c] = None
        PROVE  (\A q \in Procs : c \notin children'[q]) /\ (c # init => children'[c] = {})
    <3>1. parent[c] = None
      BY <1>15, <2>2, Setup
    <3>2. \A q \in Procs : c \notin children'[q]
      BY <1>2, <1>16, <3>1 DEF Unborn
    <3>3. c # init => children'[c] = {}
      BY <1>1, <3>1 DEF Unborn
    <3> QED
      BY <3>2, <3>3
  <2> QED
    BY <2>1, <2>2 DEF Unborn
<1>19. ParentIsThere'
  <2>1. ASSUME NEW c \in table' \ {init}
        PROVE  parent'[c] \in table' /\ \A q \in table' : c \in children'[q] <=> q = parent'[c]
    <3>1. c \in table \ {init} /\ c # p /\ c \in Procs
      BY <1>1, <1>6
    <3>2. CASE c \in children[p]
      <4>1. parent[c] = p /\ parent'[c] = init
        BY <1>2, <1>15, <1>17, <3>1, <3>2
      <4>2. \A q \in table' : c \notin children[q]
        BY <1>1, <1>17, <3>1, <4>1
      <4>3. \A q \in table' : c \in children'[q] <=> q = init
        BY <1>1, <1>6, <1>16, <3>1, <3>2, <4>2
      <4>4. init \in table'
        BY <1>1, <1>2 DEF InTable
      <4> QED
        BY <4>1, <4>3, <4>4
    <3>3. CASE c \notin children[p]
      <4>1. parent'[c] = parent[c] /\ parent[c] # p /\ parent[c] \in table
        BY <1>2, <1>15, <1>17, <3>1, <3>3
      <4>2. \A q \in table' : c \in children'[q] <=> c \in children[q]
        BY <1>1, <1>6, <1>16, <3>1, <3>3
      <4> QED
        BY <1>1, <1>17, <3>1, <4>1, <4>2
    <3> QED
      BY <3>2, <3>3
  <2> QED
    BY <2>1 DEF ParentIsThere
<1>20. OneReaper'
  <2>1. \A q \in Procs : Listed(q) => q \in table'
    BY <1>1, <1>2 DEF OneReaper
  <2>2. ASSUME NEW u \in Threads, went'[u].proc # None
        PROVE  went'[u].proc \in table' /\ can_reap(u, went[u].proc, went[u].seeking)'
    <3>1. u # t /\ went'[u] = went[u]
      BY <1>5, <2>2
    <3>2. PICK z \in Procs : z = went[u].proc
      BY <1>7, <2>2, <3>1 DEF TypeOK
    <3>3. z \in table /\ parent[z] = Owner[u] /\ went[u].seeking \in {z, ANY} /\ z # p
      BY <1>2, <2>2, <3>1, <3>2 DEF OneReaper, can_reap
    <3>4. z # init
      BY <3>2 DEF InTable, NotYet, HasCaught
    <3>5. Owner[u] \in table /\ at[Owner[u]] = "alive"
      BY <2>2, <3>1 DEF InTable, Caught
    <3>6. z \notin children[p]
      BY <1>1, <1>2, <1>17, <3>3, <3>4, <3>5
    <3>7. parent'[z] = Owner[u]
      BY <1>15, <3>3, <3>6
    <3>8. z \in table'
      BY <1>1, <3>3
    <3> QED
      BY <3>1, <3>2, <3>3, <3>7, <3>8 DEF can_reap
  <2> QED
    BY <1>1, <1>9, <1>10, <2>1, <2>2 DEF OneReaper
<1>21. Overseen'
  <2>1. \A w \in Range(waiters) : w \in Threads /\ went'[w] = went[w]
    BY <1>2, <1>5, OnLists
  <2>2. Overseen /\ Range(zombies) \subseteq Procs
    BY OverseenIs, OnLists
  <2>3. ASSUME NEW w \in Range(waiters), NEW z \in Range(zombies), can_reap(w, z, went[w].seeking)'
        PROVE  z \in orphans'
    <3>1. z \in children[p] => z \in orphans'
      BY <1>1
    <3>2. z \notin children[p] => can_reap(w, z, went[w].seeking)
      BY <1>15, <2>1, <2>2, <2>3 DEF can_reap
    <3> QED
      BY <1>1, <2>2, <3>1, <3>2 DEF Overseen
  <2>4. Range(waiters)' = Range(waiters) /\ Range(zombies)' = Range(zombies)
    BY <1>1
  <2> QED
    BY <2>3, <2>4 DEF Overseen
<1> QED
  BY <1>7, <1>8, <1>11, <1>12, <1>13, <1>14, <1>18, <1>19, <1>20, <1>21
     DEF Overseen, NoOversight, Range
------------------------------------------------------------------------------
\* The kernel starts with init alone.
LEMMA InitIInv == Init => IInv
<1> SUFFICES ASSUME Init PROVE IInv
  OBVIOUS
<1>1. TypeOK
  BY Setup, SMT DEF Init, TypeOK, NoCall, NoReply
<1>2. Range(zombies) = {} /\ Range(waiters) = {} /\ IsInjective(zombies) /\ IsInjective(waiters)
  BY SMT DEF Init, Range, IsInjective
<1>3. InTable /\ NotYet /\ Caught /\ Sleepers /\ Handed
  BY <1>2, Setup DEF Init, InTable, NotYet, Caught, Sleepers, Handed, Listed, HasCaught, NoCall
<1>4. Unborn /\ ParentIsThere
  BY Setup DEF Init, Unborn, ParentIsThere
<1>5. OneReaper
  BY <1>2, Setup DEF Init, OneReaper, Listed, HasCaught, NoCall
<1>6. NoOversight
  BY SMT DEF Init, NoOversight
<1> QED
  BY <1>1, <1>3, <1>4, <1>5, <1>6 DEF IInv

\* Every step keeps the invariant.
LEMMA NextIInv == IInv /\ [Next]_vars => IInv'
<1> SUFFICES ASSUME IInv, [Next]_vars PROVE IInv'
  OBVIOUS
<1>1. CASE UNCHANGED vars
  <2> USE <1>1 DEF vars, IInv
  <2>1. TypeOK' /\ InTable' /\ Caught'
    BY DEF TypeOK, InTable, Caught
  <2>2. NotYet' /\ Sleepers' /\ Handed'
    BY DEF NotYet, Sleepers, Handed, Listed, HasCaught
  <2>3. Unborn' /\ ParentIsThere' /\ NoOversight'
    BY SMT DEF Unborn, ParentIsThere, NoOversight, can_reap
  <2>4. OneReaper'
    BY DEF OneReaper, Listed, HasCaught, can_reap
  <2> QED
    BY <2>1, <2>2, <2>3, <2>4
<1> QED
  BY <1>1, do_forkStep, exit_procStep, zombifyStep, ZombifyWakeStep, SchedExitStep, do_waitpidStep,
     TakeZombieStep, JoinWaitersStep, NoHangStep, StartReturnsStep, reapStep
     DEF Next, Exiting, Waiting

\* The invariant holds in every reachable state.
THEOREM Invariance == Spec => []IInv
BY InitIInv, NextIInv, PTL DEF Spec

\* zombify, do_waitpid, reap: with any number of processes, a dead process is on
\* zombie_list or caught by one thread of its parent, and is reaped once.
THEOREM ReapedOnce == Spec => []OneReaper
<1>1. IInv => OneReaper
  BY DEF IInv
<1> QED
  BY <1>1, Invariance, PTL

\* do_fork, reap: with any number of processes, process::parent of a process in
\* the table is in the table and has it among its children.
THEOREM ParentStays == Spec => []ParentIsThere
<1>1. IInv => ParentIsThere
  BY DEF IInv
<1> QED
  BY <1>1, Invariance, PTL

\* do_waitpid, zombify: with any number of processes, no waiter sleeps over a
\* listed zombie that it could reap, unless init inherited the zombie.
THEOREM NobodyOversleeps == Spec => []NoOversight
<1>1. IInv => NoOversight
  BY DEF IInv
<1> QED
  BY <1>1, Invariance, PTL

-----------------------------------------------------------------------------
(* The threads of a process *)

States == {"RUNNING", "BLOCKED", "ZOMBIE"}
Places == {"none", "queued", "picked", "cpu", "off"}
ExitWheres == {"lock", "tell", "poll", "again", "dead"}
JoinWheres == {"joinlock", "jointest", "joinwait", "joined", "runlock"}
Wheres == {"user", "ret", "block", "exec"} \union ExitWheres \union JoinWheres

\* The programs that each of the properties is about. exit_proc makes a dead
\* thread runnable again, and does not see one that is spawned in the meantime;
\* neither does execve.
JoinsApart == ~(End!Calls("jointhread") /\ End!Calls("exit_proc"))
ExitsApart ==
  End!Calls("exit_proc") => ~End!Calls("spawnthread") /\ ~End!Calls("jointhread") /\ ~End!Calls("execve")
ExecsApart == ~(End!Calls("execve") /\ End!Calls("spawnthread"))

\* process::threads has the threads that were constructed and not deleted.
EndTypes ==
  /\ threads \in Seq(Ending) /\ IsInjective(threads)
  /\ born \in SUBSET Ending /\ freed \in SUBSET born /\ Range(threads) = born \ freed
  /\ state \in [Ending -> States] /\ place \in [Ending -> Places] /\ where \in [Ending -> Wheres]
  /\ should_die \in SUBSET Ending /\ joiners \in SUBSET Ending
  /\ target \in [Ending -> Ending \union {None}]
  /\ loop \in [Ending -> End!Loops] /\ reaper \in End!Loops
  /\ datalock \in Ending \union {None}
  /\ published \in BOOLEAN /\ panic \in BOOLEAN

\* What has happened, a system call of the program has done.
CallsOK ==
  /\ rudely # {} \/ published \/ datalock # None => End!Calls("exit_proc")
  /\ joiners # {} => End!Calls("jointhread")
  /\ reaper # End!NoLoop => published /\ reaper.i >= 1

\* A thread that runs is one of the process, a dead one does not run, and a thread
\* is in the calls that the program makes.
PlaceOK(t) ==
  /\ place[t] # "none" => t \in born
  /\ state[t] = "ZOMBIE" => place[t] \in {"off", "queued", "none"}
  /\ where[t] \in ExitWheres => End!Calls("exit_proc")
  /\ where[t] \in JoinWheres => End!Calls("jointhread") /\ target[t] \in born
  /\ where[t] = "exec" => End!Calls("execve") /\ loop[t].i >= 1

\* A joiner sleeps until the thread is dead.
JoinOK(t) ==
  /\ t \in joiners => /\ where[t] = "joined" /\ state[t] = "BLOCKED"
                      /\ place[t] \in {"off", "queued"}
  /\ where[t] = "runlock" \/ (where[t] = "joined" /\ t \notin joiners) => state[target[t]] = "ZOMBIE"

\* The threads that exit_proc has looked at are dead.
PollOK(t) ==
  /\ loop[t].end = Len(threads)
  /\ \A j \in DOMAIN threads : j < loop[t].i => threads[j] = t \/ state[threads[j]] = "ZOMBIE"

\* One thread tells the others to die, and is not told so itself; nobody was told
\* to before who is not on the way.
ExitOK(t) ==
  /\ where[t] \in {"tell", "poll", "again"} <=> datalock = t
  /\ datalock = t => t \notin should_die /\ ~published
  /\ datalock = None /\ ~published /\ t \in should_die =>
       where[t] = "ret" \/ (where[t] = "user" /\ state[t] = "ZOMBIE")
  /\ where[t] = "poll" => PollOK(t)

\* As long as vec::at() has not failed, only the last round has removed a thread.
ExecOK(t) ==
  where[t] = "exec" /\ t \notin freed /\ ~panic =>
    /\ loop[t].i <= loop[t].end + 1 /\ Len(threads) <= loop[t].end
    /\ loop[t].i <= loop[t].end /\ Len(threads) = loop[t].end =>
         \A j \in DOMAIN threads : j < loop[t].i => threads[j] = t
    /\ loop[t].i > loop[t].end => threads = <<t>>

EndInv ==
  /\ EndTypes /\ CallsOK
  /\ \A t \in Ending : PlaceOK(t)
  /\ JoinsApart => \A t \in Ending : JoinOK(t)
  /\ ExitsApart => (published => End!IsDead) /\ \A t \in Ending : ExitOK(t)
  /\ ExecsApart => \A t \in Ending : ExecOK(t)

-----------------------------------------------------------------------------
\* A step of one thread t that leaves process::threads and the lock alone.
OnlyOf(t) ==
  /\ UNCHANGED <<prog, threads, born, freed, reaper, published, datalock>>
  /\ rudely' \subseteq rudely /\ (panic => panic')
  /\ joiners' # {} => joiners # {} \/ End!Calls("jointhread")
  /\ state[t] = "ZOMBIE" => state'[t] = "ZOMBIE"
  /\ \A u \in Ending \ {t} :
       /\ where'[u] = where[u] /\ place'[u] = place[u] /\ state'[u] = state[u]
       /\ loop'[u] = loop[u] /\ target'[u] = target[u]
       /\ u \in should_die' <=> u \in should_die
       /\ u \in joiners' <=> u \in joiners

\* Such a step keeps the invariant if it does for t.
LEMMA OneStep ==
  ASSUME EndInv, NEW t \in Ending, OnlyOf(t), EndTypes', PlaceOK(t)',
         JoinsApart => JoinOK(t)', ExitsApart => ExitOK(t)', ExecsApart => ExecOK(t)'
  PROVE  EndInv'
<1>0. EndTypes /\ CallsOK /\ prog' = prog
  BY DEF EndInv, OnlyOf
<1>1. /\ JoinsApart' <=> JoinsApart
      /\ ExitsApart' <=> ExitsApart
      /\ ExecsApart' <=> ExecsApart
      /\ \A c : End!Calls(c)' <=> End!Calls(c)
  BY <1>0 DEF JoinsApart, ExitsApart, ExecsApart, End!Calls
<1>2. CallsOK'
  BY <1>0, <1>1 DEF CallsOK, OnlyOf, End!Calls, End!NoLoop
<1>3. \A u \in Ending : state[u] = "ZOMBIE" => state'[u] = "ZOMBIE"
  BY DEF OnlyOf
<1>4. \A u \in Ending : PlaceOK(u)'
  <2> TAKE u \in Ending
  <2>1. CASE u = t
    BY <2>1
  <2>2. CASE u # t
    BY <1>0, <1>1, <2>2 DEF EndInv, PlaceOK, OnlyOf
  <2> QED BY <2>1, <2>2
<1>5. ASSUME JoinsApart, NEW u \in Ending PROVE JoinOK(u)'
  <2>1. CASE u = t
    BY <1>5, <2>1
  <2>2. CASE u # t
    <3>1. JoinOK(u) /\ PlaceOK(u)
      BY <1>5 DEF EndInv
    <3>2. /\ where'[u] = where[u] /\ place'[u] = place[u] /\ state'[u] = state[u] /\ target'[u] = target[u]
          /\ u \in joiners' <=> u \in joiners
      BY <2>2 DEF OnlyOf
    <3>3. where[u] \in {"runlock", "joined"} => target[u] \in Ending
      BY <1>0, <3>1 DEF PlaceOK, JoinWheres, EndTypes
    <3> QED BY <3>1, <3>2, <3>3, <1>3 DEF JoinOK
  <2> QED BY <2>1, <2>2
<1>6. \A j \in DOMAIN threads : threads[j] \in Ending
  BY <1>0, SMT DEF EndTypes
<1>7. ASSUME ExitsApart PROVE (published => End!IsDead)' /\ \A u \in Ending : ExitOK(u)'
  <2>0. threads' = threads /\ published' = published /\ datalock' = datalock
    BY DEF OnlyOf
  <2>1. (published => End!IsDead)'
    BY <1>3, <1>6, <1>7, <2>0 DEF EndInv, End!IsDead
  <2>2. ASSUME NEW u \in Ending PROVE ExitOK(u)'
    <3>1. CASE u = t
      BY <1>7, <3>1
    <3>2. CASE u # t
      <4>1. ExitOK(u)
        BY <1>7 DEF EndInv
      <4>2. /\ where'[u] = where[u] /\ state'[u] = state[u] /\ loop'[u] = loop[u]
            /\ u \in should_die' <=> u \in should_die
        BY <3>2 DEF OnlyOf
      <4> QED BY <1>3, <1>6, <2>0, <4>1, <4>2 DEF ExitOK, PollOK
    <3> QED BY <3>1, <3>2
  <2> QED BY <2>1, <2>2
<1>8. ASSUME ExecsApart, NEW u \in Ending PROVE ExecOK(u)'
  <2>1. CASE u = t
    BY <1>8, <2>1
  <2>2. CASE u # t
    BY <1>8, <2>2 DEF EndInv, ExecOK, OnlyOf
  <2> QED BY <2>1, <2>2
<1> QED BY <1>1, <1>2, <1>4, <1>5, <1>7, <1>8 DEF EndInv

-----------------------------------------------------------------------------
\* What is known of a thread on a CPU: it is alive, it does not wait to join
\* another, and nobody has published its process.
LEMMA Running ==
  ASSUME EndInv, NEW t \in Ending, End!OnCpu(t)
  PROVE  /\ place[t] = "cpu" /\ state[t] # "ZOMBIE" /\ t \in born /\ t \notin freed /\ panic = FALSE
         /\ \E j \in DOMAIN threads : threads[j] = t
         /\ JoinsApart => t \notin joiners
         /\ ExitsApart => published = FALSE
         /\ ExitsApart /\ datalock = None /\ t \in should_die => where[t] = "ret"
<1>1. /\ EndTypes /\ PlaceOK(t) /\ place[t] = "cpu" /\ t \notin freed /\ panic = FALSE
      /\ JoinsApart => JoinOK(t)
      /\ ExitsApart => ExitOK(t) /\ (published => End!IsDead)
  BY DEF EndInv, EndTypes, End!OnCpu
<1>2. state[t] # "ZOMBIE" /\ t \in born /\ (JoinsApart => t \notin joiners)
  BY <1>1 DEF PlaceOK, JoinOK
<1>3. \E j \in DOMAIN threads : threads[j] = t
  <2>1. t \in Range(threads)
    BY <1>1, <1>2 DEF EndTypes
  <2> QED BY <2>1 DEF Range
<1>4. ExitsApart => published = FALSE
  BY <1>1, <1>2, <1>3 DEF End!IsDead, EndTypes
<1>5. ExitsApart /\ datalock = None /\ t \in should_die => where[t] = "ret"
  BY <1>1, <1>2, <1>4 DEF ExitOK
<1> QED BY <1>1, <1>2, <1>3, <1>4, <1>5

\* The dead stay dead: what t has seen of them stays true.
LEMMA StaysDead ==
  ASSUME EndInv, NEW t \in Ending, OnlyOf(t)
  PROVE  /\ \A u \in Ending : state[u] = "ZOMBIE" => state'[u] = "ZOMBIE"
         /\ where[t] \in JoinWheres => target[t] \in Ending
         /\ PollOK(t) /\ loop'[t] = loop[t] => PollOK(t)'
<1>1. EndTypes /\ PlaceOK(t)
  BY DEF EndInv
<1>2. \A u \in Ending : state[u] = "ZOMBIE" => state'[u] = "ZOMBIE"
  BY DEF OnlyOf
<1>3. where[t] \in JoinWheres => target[t] \in Ending
  BY <1>1 DEF EndTypes, PlaceOK
<1>4. (\A j \in DOMAIN threads : threads[j] \in Ending) /\ threads' = threads
  BY <1>1, SMT DEF EndTypes, OnlyOf
<1> QED BY <1>2, <1>3, <1>4 DEF PollOK

\* The scheduler and the timer move a thread, and it stays where it is in the
\* kernel.
LEMMA MovedStep ==
  ASSUME EndInv, NEW t \in Ending,
         End!Pick(t) \/ End!SwitchInto(t) \/ End!Requeue(t) \/ End!Preempt(t)
  PROVE  EndInv'
<1>0. /\ EndTypes /\ PlaceOK(t) /\ (JoinsApart => JoinOK(t)) /\ (ExitsApart => ExitOK(t))
      /\ ExecsApart => ExecOK(t)
  BY DEF EndInv
<1>1. /\ UNCHANGED <<prog, threads, born, freed, reaper, published, datalock, panic, where,
                     should_die, rudely, target, joiners, loop>>
      /\ state' = state \/ (state' = [state EXCEPT ![t] = "RUNNING"] /\ place[t] = "picked")
      /\ \E p \in Places : place' = [place EXCEPT ![t] = p] /\ p # "none"
      /\ place[t] # "none"
      /\ place'[t] \in {"off", "queued"} \/ state'[t] = "RUNNING"
      /\ place[t] \in {"off", "queued"} /\ state[t] # "RUNNING" => place'[t] \in {"off", "queued"}
  BY <1>0 DEF EndTypes, Places, End!Pick, End!SwitchInto, End!Requeue, End!Preempt, End!OnCpu,
              End!SwitchOut, End!listVars, End!lockVars
<1>2. state' \in [Ending -> States] /\ place' \in [Ending -> Places]
  BY <1>0, <1>1 DEF EndTypes, States
<1>3. EndTypes'
  BY <1>0, <1>1, <1>2 DEF EndTypes
<1>4. state[t] = "ZOMBIE" <=> state'[t] = "ZOMBIE"
  BY <1>0, <1>1 DEF EndTypes, PlaceOK
<1>5. OnlyOf(t)
  BY <1>0, <1>1, <1>4 DEF EndTypes, OnlyOf
<1>6. PlaceOK(t)' /\ (ExecsApart => ExecOK(t)')
  BY <1>0, <1>1, <1>4 DEF PlaceOK, ExecOK, End!Calls
<1>7. JoinsApart => JoinOK(t)'
  BY <1>0, <1>1, <1>2, <1>5, StaysDead DEF JoinOK, JoinWheres
<1>8. ExitsApart => ExitOK(t)'
  BY <1>0, <1>1, <1>4, <1>5, StaysDead DEF ExitOK
<1> QED BY <1>3, <1>5, <1>6, <1>7, <1>8, OneStep

\* A thread goes on in the kernel, or leaves it.
LEMMA GoneStep ==
  ASSUME EndInv, NEW t \in Ending,
         End!Iret(t) \/ End!Block(t) \/ End!Sleep(t) \/ End!exit_thread(t) \/ End!exit_proc(t)
  PROVE  EndInv'
<1>0. EndTypes /\ PlaceOK(t) /\ (ExitsApart => ExitOK(t))
  BY DEF EndInv
<1>1. End!OnCpu(t)
  BY DEF End!Iret, End!Block, End!Sleep, End!exit_thread, End!exit_proc
<1>2. /\ UNCHANGED <<prog, threads, born, freed, reaper, published, datalock, panic,
                     rudely, target, joiners, loop>>
      /\ state' = state \/ state' = [state EXCEPT ![t] = "BLOCKED"]
      /\ place' = place \/ place' = [place EXCEPT ![t] = "off"]
      /\ should_die' = should_die \/ should_die' = should_die \union {t}
      /\ \E w \in {"user", "block", "ret", "lock"} :
           /\ where' = [where EXCEPT ![t] = w]
           /\ w = "lock" => End!Calls("exit_proc")
           /\ w # "ret" => should_die' = should_die /\ (where[t] = "ret" => t \notin should_die)
      /\ where[t] \in {"user", "block", "ret"}
  BY <1>0 DEF EndTypes, End!Iret, End!Block, End!Sleep, End!exit_thread, End!exit_proc, End!Goto,
              End!SwitchOut, End!listVars, End!lockVars
<1>3. EndTypes'
  BY <1>0, <1>2 DEF EndTypes, States, Places, Wheres, ExitWheres
<1>4. OnlyOf(t)
  <2>1. \A u \in Ending \ {t} :
          /\ where'[u] = where[u] /\ place'[u] = place[u] /\ state'[u] = state[u]
          /\ u \in should_die' <=> u \in should_die
    BY <1>0, <1>2 DEF EndTypes
  <2>2. state[t] # "ZOMBIE"
    BY <1>1, Running
  <2> QED BY <1>2, <2>1, <2>2 DEF OnlyOf
<1>5. PlaceOK(t)' /\ (ExecsApart => ExecOK(t)')
  BY <1>0, <1>1, <1>2, Running DEF EndTypes, PlaceOK, ExecOK, End!Calls, ExitWheres, JoinWheres
<1>6. JoinsApart => JoinOK(t)'
  <2>1. where'[t] \in {"user", "block", "ret", "lock"}
    BY <1>0, <1>2 DEF EndTypes
  <2> QED BY <1>1, <1>2, <2>1, Running DEF JoinOK
<1>7. ExitsApart => ExitOK(t)'
  <2>1. PICK w \in {"user", "block", "ret", "lock"} :
          /\ where'[t] = w
          /\ w # "ret" /\ t \in should_die' => where[t] # "ret" /\ should_die' = should_die
    BY <1>0, <1>2 DEF EndTypes
  <2>2. ExitsApart /\ datalock = None /\ t \in should_die' => w = "ret"
    BY <1>1, <2>1, Running
  <2>3. datalock # t \/ ~ExitsApart
    BY <1>0, <1>2 DEF ExitOK
  <2> QED BY <1>2, <2>1, <2>2, <2>3 DEF ExitOK
<1> QED BY <1>3, <1>4, <1>5, <1>6, <1>7, OneStep

\* Whoever a thread waits for in a system call wakes it.
LEMMA WakeStep ==
  ASSUME EndInv, NEW t \in Ending, End!Wake(t)
  PROVE  EndInv'
<1>0. /\ EndTypes /\ PlaceOK(t) /\ (JoinsApart => JoinOK(t)) /\ (ExitsApart => ExitOK(t))
      /\ ExecsApart => ExecOK(t)
  BY DEF EndInv
<1>1. /\ UNCHANGED <<prog, threads, born, freed, reaper, published, datalock, panic, where,
                     should_die, place, target, joiners, loop>>
      /\ state[t] = "BLOCKED" /\ t \notin joiners
      /\ state' = [state EXCEPT ![t] = "RUNNING"] /\ rudely' = rudely \ {t}
  BY DEF End!Wake, End!listVars, End!lockVars
<1>2. EndTypes'
  BY <1>0, <1>1 DEF EndTypes, States
<1>3. state'[t] = "RUNNING" /\ OnlyOf(t)
  BY <1>0, <1>1 DEF EndTypes, OnlyOf
<1>4. PlaceOK(t)' /\ (ExecsApart => ExecOK(t)')
  BY <1>0, <1>1, <1>3 DEF PlaceOK, ExecOK, End!Calls
<1>5. JoinsApart => JoinOK(t)'
  BY <1>0, <1>1, <1>3, StaysDead DEF JoinOK, JoinWheres
<1>6. ExitsApart => ExitOK(t)'
  BY <1>0, <1>1, <1>3, StaysDead DEF ExitOK
<1> QED BY <1>2, <1>3, <1>4, <1>5, <1>6, OneStep

\* Going on to the next thread changes one field of the loop variables of t.
LEMMA NextRound ==
  ASSUME NEW l \in [Ending -> End!Loops], NEW t \in Ending
  PROVE  \E n \in End!Loops : /\ n.end = l[t].end /\ n.i = l[t].i + 1
                              /\ [l EXCEPT ![t].i = @ + 1] = [l EXCEPT ![t] = n]
<1> DEFINE n == [l[t] EXCEPT !.i = l[t].i + 1]
<1>1. n \in End!Loops /\ n.end = l[t].end /\ n.i = l[t].i + 1
  BY SMT DEF End!Loops
<1>2. [l EXCEPT ![t].i = @ + 1] = [l EXCEPT ![t] = n]
  OBVIOUS
<1> QED BY <1>1, <1>2

\* A round of the loop of exit_proc that counts the threads that are not dead.
LEMMA PollStep ==
  ASSUME EndInv, NEW t \in Ending, End!Poll(t) \/ End!PollAgain(t)
  PROVE  EndInv'
<1>0. EndTypes /\ PlaceOK(t) /\ (ExitsApart => ExitOK(t))
      /\ loop \in [Ending -> End!Loops] /\ loop[t] \in End!Loops
  BY DEF EndInv, EndTypes
<1>1. End!OnCpu(t) /\ where[t] \in {"poll", "again"}
  BY DEF End!Poll, End!PollAgain
<1>2. PICK w \in {"poll", "again"}, l \in End!Loops :
        /\ UNCHANGED <<prog, threads, born, freed, reaper, published, datalock, state,
                       should_die, rudely, target, joiners>>
        /\ panic' \in BOOLEAN
        /\ place' = place \/ place' = [place EXCEPT ![t] = "off"]
        /\ where' = [where EXCEPT ![t] = w] /\ loop' = [loop EXCEPT ![t] = l]
        /\ w = "poll" =>
             \/ l.end = Len(threads) /\ l.i = 1
             \/ /\ where[t] = "poll" /\ l.end = loop[t].end /\ l.i = loop[t].i + 1
                /\ \/ loop[t].i > Len(threads)
                   \/ threads[loop[t].i] = t \/ state[threads[loop[t].i]] = "ZOMBIE"
  <2>1. CASE End!Poll(t)
    <3>0. /\ UNCHANGED <<prog, threads, born, freed, reaper, published, datalock, state,
                         should_die, rudely, target, joiners>>
          /\ panic' \in BOOLEAN
      <4>1. (loop[t].i > Len(threads)) \in BOOLEAN
        BY SMT
      <4> QED BY <2>1, <4>1 DEF End!Poll, End!lockVars
    <3>1. PICK l \in End!Loops : /\ l.end = loop[t].end /\ l.i = loop[t].i + 1
                                /\ [loop EXCEPT ![t].i = loop[t].i + 1] = [loop EXCEPT ![t] = l]
      BY <1>0, NextRound
    <3>2. CASE where' = where
      <4>1. where' = [where EXCEPT ![t] = "poll"] /\ where[t] = "poll" /\ where' # [where EXCEPT ![t] = "again"]
        BY <1>0, <2>1, <3>2 DEF End!Poll, EndTypes
      <4>2. /\ loop' = [loop EXCEPT ![t] = l] /\ place' = place
            /\ \/ loop[t].i > Len(threads)
               \/ threads[loop[t].i] = t \/ state[threads[loop[t].i]] = "ZOMBIE"
        BY <2>1, <3>1, <4>1 DEF End!Poll, End!Goto
      <4> QED BY <3>0, <3>1, <4>1, <4>2
    <3>3. CASE where' = [where EXCEPT ![t] = "again"] /\ where' # where
      <4>1. loop' = [loop EXCEPT ![t] = loop[t]] /\ place' = [place EXCEPT ![t] = "off"]
        BY <1>0, <2>1, <3>3 DEF End!Poll, End!SwitchOut
      <4> QED BY <1>0, <3>0, <3>3, <4>1
    <3> QED BY <2>1, <3>2, <3>3 DEF End!Poll, End!Goto
  <2>2. CASE End!PollAgain(t)
    <3>1. End!Begin \in End!Loops /\ End!Begin.i = 1 /\ End!Begin.end = Len(threads)
      BY <1>0, SMT DEF End!Begin, End!Loops, EndTypes
    <3> QED BY <1>0, <2>2, <3>1 DEF End!PollAgain, End!Goto, End!listVars, End!lockVars, EndTypes
  <2> QED BY <2>1, <2>2
<1>3. where'[t] = w /\ loop'[t] = l /\ EndTypes'
  BY <1>0, <1>2 DEF EndTypes, Places, Wheres, ExitWheres
<1>4. OnlyOf(t)
  <2>1. \A u \in Ending \ {t} :
          where'[u] = where[u] /\ place'[u] = place[u] /\ loop'[u] = loop[u]
    BY <1>0, <1>2 DEF EndTypes
  <2>2. panic = FALSE
    BY <1>1, Running
  <2> QED BY <1>2, <2>1, <2>2 DEF OnlyOf
<1>5. PlaceOK(t)' /\ (ExecsApart => ExecOK(t)')
  BY <1>0, <1>1, <1>2, <1>3, Running DEF EndTypes, PlaceOK, ExecOK, End!Calls, ExitWheres, JoinWheres
<1>6. JoinsApart => JoinOK(t)'
  BY <1>1, <1>2, <1>3, Running DEF JoinOK
<1>7. ExitsApart => ExitOK(t)'
  <2>1. ASSUME ExitsApart, w = "poll" PROVE PollOK(t)'
    <3>1. where[t] = "poll" => PollOK(t)
      BY <1>0, <2>1 DEF ExitOK
    <3>2. l.end = Len(threads) /\ threads \in Seq(Ending) /\ l.i \in Nat /\ loop[t].i \in Nat
      BY <1>0, <1>2, <2>1, <3>1, SMT DEF PollOK, EndTypes, End!Loops
    <3>3. ASSUME NEW j \in DOMAIN threads, j < l.i PROVE threads[j] = t \/ state[threads[j]] = "ZOMBIE"
      <4>1. l.i # 1
        BY <3>2, <3>3, SMT
      <4>2. CASE where[t] = "poll" /\ l.i = loop[t].i + 1
        <5>1. j < loop[t].i \/ (j = loop[t].i /\ ~(loop[t].i > Len(threads)))
          BY <3>2, <3>3, <4>2, SMT
        <5> QED BY <1>2, <2>1, <3>1, <4>1, <4>2, <5>1 DEF PollOK
      <4> QED BY <1>2, <2>1, <4>1, <4>2
    <3> QED BY <1>2, <1>3, <3>2, <3>3 DEF PollOK
  <2> QED BY <1>0, <1>1, <1>2, <1>3, <2>1 DEF ExitOK
<1> QED BY <1>3, <1>4, <1>5, <1>6, <1>7, OneStep

\* jointhread up to the run lock of the thread that is joined.
LEMMA JoinStep ==
  ASSUME EndInv, NEW t \in Ending,
         \/ \E u \in Ending : End!jointhread(t, u)
         \/ End!JoinLock(t) \/ End!JoinTest(t) \/ End!JoinWait(t) \/ End!Joined(t)
  PROVE  EndInv'
<1>0. /\ EndTypes /\ PlaceOK(t) /\ (JoinsApart => JoinOK(t)) /\ (ExitsApart => ExitOK(t))
      /\ born \subseteq Ending
  BY DEF EndInv, EndTypes
<1>1. /\ End!OnCpu(t) /\ where[t] \in JoinWheres \union {"user"}
      /\ UNCHANGED <<prog, threads, born, freed, reaper, published, datalock, panic, should_die,
                     rudely, loop>>
  BY DEF JoinWheres, End!jointhread, End!JoinLock, End!JoinTest, End!JoinWait, End!Joined,
         End!listVars, End!lockVars
<1> DEFINE Does(w, to, s, p, js) ==
        /\ where' = [where EXCEPT ![t] = w] /\ target' = [target EXCEPT ![t] = to]
        /\ state' = [state EXCEPT ![t] = s] /\ place' = [place EXCEPT ![t] = p]
        /\ joiners' = js /\ js \ {t} = joiners \ {t}
        /\ s # "ZOMBIE" /\ p # "none"
        /\ w # "ret" => End!Calls("jointhread") /\ to \in born
        /\ w # "joined" /\ t \in js => t \in joiners
        /\ w = "joined" => t \in js /\ s = "BLOCKED" /\ p = "off"
        /\ w = "runlock" => /\ to = target[t] /\ state' = state
                            /\ state[target[t]] = "ZOMBIE" \/ where[t] = "joined"
        /\ js # {} => joiners # {} \/ End!Calls("jointhread")
<1> HIDE DEF Does
<1>2. PICK w \in JoinWheres \union {"ret"}, to \in Ending \union {None}, s \in States, p \in Places,
           js \in SUBSET Ending : Does(w, to, s, p, js)
  <2>0. /\ state[t] \in States /\ place[t] \in Places /\ state[t] # "ZOMBIE" /\ place[t] = "cpu"
        /\ state = [state EXCEPT ![t] = state[t]] /\ place = [place EXCEPT ![t] = place[t]]
        /\ target = [target EXCEPT ![t] = target[t]]
    BY <1>0, <1>1, Running DEF EndTypes
  <2>1. where[t] # "user" => End!Calls("jointhread") /\ target[t] \in born
    BY <1>0, <1>1 DEF PlaceOK
  <2>2. joiners \in SUBSET Ending /\ target[t] \in Ending \union {None}
    BY <1>0 DEF EndTypes
  <2>3. ASSUME NEW u \in Ending, End!jointhread(t, u)
        PROVE  \/ Does("ret", target[t], state[t], place[t], joiners)
               \/ Does("joinlock", u, state[t], place[t], joiners)
    BY <2>0, <2>3 DEF Does, End!jointhread, End!Goto
  <2>4. CASE End!JoinLock(t)
    <3>1. Does("jointest", target[t], state[t], place[t], joiners)
      BY <2>0, <2>1, <2>4 DEF Does, End!JoinLock, End!Goto
    <3> QED BY <2>0, <2>2, <3>1 DEF JoinWheres
  <2>5. CASE End!JoinTest(t)
    <3>1. \/ Does("runlock", target[t], state[t], place[t], joiners)
          \/ Does("joinwait", target[t], state[t], place[t], joiners)
      BY <2>0, <2>1, <2>5 DEF Does, End!JoinTest, End!Goto, End!lockVars
    <3> QED BY <2>0, <2>2, <3>1 DEF JoinWheres
  <2>6. CASE End!JoinWait(t)
    <3>1. Does("joined", target[t], "BLOCKED", "off", joiners \union {t})
      BY <2>0, <2>1, <2>6 DEF Does, End!JoinWait, End!Goto, End!SwitchOut
    <3> QED BY <2>0, <2>2, <3>1 DEF JoinWheres, States, Places
  <2>7. CASE End!Joined(t)
    <3>1. \/ Does("ret", None, state[t], place[t], joiners \ {t})
          \/ Does("runlock", target[t], state[t], place[t], joiners \ {t})
      BY <2>0, <2>1, <2>7 DEF Does, End!Joined, End!Goto
    <3> QED BY <2>0, <2>2, <3>1 DEF JoinWheres
  <2> QED BY <2>0, <2>2, <2>3, <2>4, <2>5, <2>6, <2>7 DEF JoinWheres
<1>3. where'[t] = w /\ target'[t] = to /\ state'[t] = s /\ place'[t] = p
  BY <1>0, <1>2 DEF Does, EndTypes
<1>4. EndTypes'
  BY <1>0, <1>1, <1>2 DEF Does, EndTypes, Wheres
<1>5. OnlyOf(t)
  <2>1. \A u \in Ending \ {t} :
          /\ where'[u] = where[u] /\ place'[u] = place[u] /\ state'[u] = state[u] /\ target'[u] = target[u]
          /\ u \in joiners' <=> u \in joiners
    BY <1>0, <1>2 DEF Does, EndTypes
  <2>2. state[t] # "ZOMBIE"
    BY <1>1, Running
  <2> QED BY <1>1, <1>2, <2>1, <2>2 DEF Does, OnlyOf
<1>6. PlaceOK(t)' /\ (ExecsApart => ExecOK(t)')
  <2>1. w \notin ExitWheres /\ w # "exec" /\ t \in born' /\ born' = born /\ prog' = prog
    BY <1>1, Running DEF ExitWheres, JoinWheres
  <2>2. w \in JoinWheres => w # "ret"
    BY DEF JoinWheres
  <2>3. s # "ZOMBIE" /\ (w # "ret" => End!Calls("jointhread")' /\ to \in born)
    BY <1>1, <1>2 DEF Does, End!Calls
  <2> QED BY <1>3, <2>1, <2>2, <2>3 DEF PlaceOK, ExecOK
<1>7. JoinsApart => JoinOK(t)'
  BY <1>0, <1>1, <1>2, <1>3, Running DEF Does, JoinOK
<1>8. ExitsApart => ExitOK(t)'
  <2>1. w \notin {"tell", "poll", "again"} /\ where[t] \notin {"tell", "poll", "again", "ret"}
    BY <1>1 DEF JoinWheres
  <2> QED BY <1>0, <1>1, <1>3, <2>1, Running DEF ExitOK
<1> QED BY <1>4, <1>5, <1>6, <1>7, <1>8, OneStep

\* execve, before and after its loop.
LEMMA ExecStep ==
  ASSUME EndInv, NEW t \in Ending, End!execve(t) \/ End!ExecDone(t)
  PROVE  EndInv'
<1>0. EndTypes /\ PlaceOK(t) /\ (ExitsApart => ExitOK(t)) /\ loop \in [Ending -> End!Loops]
  BY DEF EndInv, EndTypes
<1>1. /\ End!OnCpu(t) /\ where[t] \in {"user", "exec"}
      /\ UNCHANGED <<prog, threads, born, freed, reaper, published, datalock, panic, state, place,
                     should_die, rudely, target, joiners>>
  BY DEF End!execve, End!ExecDone, End!listVars, End!lockVars
<1>2. /\ End!Begin \in End!Loops /\ End!Begin.i = 1 /\ End!Begin.i >= 1 /\ End!Begin.end = Len(threads)
      /\ End!NoLoop \in End!Loops
  BY <1>0, SMT DEF End!Begin, End!NoLoop, End!Loops, EndTypes
<1>3. PICK w \in {"exec", "ret"}, l \in End!Loops :
        /\ where' = [where EXCEPT ![t] = w] /\ loop' = [loop EXCEPT ![t] = l]
        /\ w = "exec" => l.i = 1 /\ l.i >= 1 /\ l.end = Len(threads) /\ End!Calls("execve")
  BY <1>2 DEF End!execve, End!ExecDone, End!Goto
<1>4. where'[t] = w /\ loop'[t] = l /\ EndTypes'
  BY <1>0, <1>1, <1>3 DEF EndTypes, Wheres
<1>5. OnlyOf(t)
  BY <1>0, <1>1, <1>3 DEF EndTypes, OnlyOf
<1>6. PlaceOK(t)'
  BY <1>0, <1>1, <1>3, <1>4 DEF PlaceOK, End!Calls, ExitWheres, JoinWheres
<1>7. ExecOK(t)'
  <2>1. Len(threads) >= 1 /\ Len(threads) \in Nat /\ DOMAIN threads = 1..Len(threads)
    <3>1. PICK j \in DOMAIN threads : threads[j] = t
      BY <1>1, Running
    <3> QED BY <1>0, <3>1, SMT DEF EndTypes
  <2>2. CASE w = "exec"
    BY <1>1, <1>3, <1>4, <2>1, <2>2, SMT DEF ExecOK
  <2> QED BY <1>4, <2>2 DEF ExecOK
<1>8. JoinsApart => JoinOK(t)'
  BY <1>1, <1>3, <1>4, Running DEF JoinOK
<1>9. ExitsApart => ExitOK(t)'
  BY <1>0, <1>1, <1>3, <1>4, Running DEF ExitOK
<1> QED BY <1>4, <1>5, <1>6, <1>7, <1>8, <1>9, OneStep

-----------------------------------------------------------------------------
\* exit_proc takes datalock.
LEMMA LockStep ==
  ASSUME EndInv, NEW t \in Ending, End!LockData(t)
  PROVE  EndInv'
<1>0. EndTypes /\ CallsOK /\ PlaceOK(t)
  BY DEF EndInv
<1>1. /\ End!OnCpu(t) /\ where[t] = "lock" /\ datalock = None /\ datalock' = t
      /\ where' = [where EXCEPT ![t] = "tell"]
      /\ UNCHANGED <<prog, threads, born, freed, reaper, published, panic, state, place,
                     should_die, rudely, target, joiners, loop>>
  BY DEF End!LockData, End!Goto, End!listVars
<1>2. /\ where'[t] = "tell" /\ \A u \in Ending \ {t} : where'[u] = where[u]
      /\ EndTypes'
  BY <1>0, <1>1 DEF EndTypes, Wheres, ExitWheres
<1>3. CallsOK'
  BY <1>0, <1>1 DEF CallsOK, PlaceOK, ExitWheres, End!Calls, End!NoLoop
<1>4. \A u \in Ending : PlaceOK(u)'
  <2> TAKE u \in Ending
  <2>1. CASE u = t
    BY <1>0, <1>1, <1>2, <2>1 DEF PlaceOK, ExitWheres, JoinWheres, End!Calls
  <2>2. CASE u # t
    BY <1>1, <1>2, <2>2 DEF EndInv, PlaceOK, End!Calls
  <2> QED BY <2>1, <2>2
<1>5. ASSUME JoinsApart, NEW u \in Ending PROVE JoinOK(u)'
  <2>1. CASE u = t
    BY <1>1, <1>2, <1>5, <2>1, Running DEF JoinOK
  <2>2. CASE u # t
    <3>1. JoinOK(u)
      BY <1>5 DEF EndInv
    <3> QED BY <1>1, <1>2, <2>2, <3>1 DEF JoinOK
  <2> QED BY <2>1, <2>2
<1>6. ASSUME ExitsApart PROVE (published => End!IsDead)' /\ \A u \in Ending : ExitOK(u)'
  <2>1. published = FALSE /\ t \notin should_die
    BY <1>1, <1>6, Running
  <2>2. ASSUME NEW u \in Ending PROVE ExitOK(u)'
    <3>1. CASE u = t
      BY <1>1, <1>2, <2>1, <3>1 DEF ExitOK
    <3>2. CASE u # t
      <4>1. ExitOK(u) /\ where'[u] = where[u] /\ datalock # u
        BY <1>1, <1>2, <1>6, <3>2, ProgramsAssumption DEF EndInv, End!ProgramsOK
      <4> QED BY <1>1, <3>2, <4>1 DEF ExitOK
    <3> QED BY <3>1, <3>2
  <2> QED BY <1>1, <2>1, <2>2
<1>7. ASSUME ExecsApart, NEW u \in Ending PROVE ExecOK(u)'
  BY <1>1, <1>2, <1>7 DEF EndInv, ExecOK
<1>8. (JoinsApart' <=> JoinsApart) /\ (ExitsApart' <=> ExitsApart) /\ (ExecsApart' <=> ExecsApart)
  BY <1>1 DEF JoinsApart, ExitsApart, ExecsApart, End!Calls
<1> QED BY <1>2, <1>3, <1>4, <1>5, <1>6, <1>7, <1>8 DEF EndInv

\* exit_proc tells the others to die.
LEMMA TellStep ==
  ASSUME EndInv, NEW t \in Ending, End!Tell(t)
  PROVE  EndInv'
<1>0. EndTypes /\ CallsOK /\ PlaceOK(t)
  BY DEF EndInv
<1>1. PICK others \in SUBSET Ending :
        /\ End!OnCpu(t) /\ where[t] = "tell" /\ t \notin others
        /\ should_die' = should_die \union others
        /\ state' = [u \in Ending |-> IF u \in others THEN "RUNNING" ELSE state[u]]
        /\ loop' = [loop EXCEPT ![t] = End!Begin]
        /\ where' = [where EXCEPT ![t] = "poll"]
        /\ UNCHANGED <<prog, threads, born, freed, reaper, published, datalock, panic, place,
                       target, joiners>>
  <2>1. End!Range(threads) \ {t} \in SUBSET Ending
    BY <1>0 DEF EndTypes, Range, End!Range
  <2> QED BY <2>1 DEF End!Tell, End!Goto, End!listVars, End!lockVars
<1>2. End!Begin \in End!Loops /\ End!Begin.i = 1 /\ End!Begin.end = Len(threads)
  BY <1>0, SMT DEF End!Begin, End!Loops, EndTypes
<1>3. /\ where'[t] = "poll" /\ loop'[t] = End!Begin
      /\ \A u \in Ending \ {t} : where'[u] = where[u] /\ loop'[u] = loop[u]
      /\ \A u \in Ending : state'[u] = "ZOMBIE" => state[u] = "ZOMBIE"
  BY <1>0, <1>1 DEF EndTypes
<1>4. EndTypes'
  BY <1>0, <1>1, <1>2 DEF EndTypes, Wheres, ExitWheres, States
<1>5. End!Calls("exit_proc") /\ (JoinsApart => joiners = {} /\ ~End!Calls("jointhread"))
  BY <1>0, <1>1 DEF PlaceOK, ExitWheres, CallsOK, JoinsApart
<1>6. CallsOK'
  BY <1>0, <1>1, <1>5 DEF CallsOK, End!Calls, End!NoLoop
<1>7. \A u \in Ending : PlaceOK(u)'
  BY <1>0, <1>1, <1>3 DEF EndInv, PlaceOK, ExitWheres, JoinWheres, End!Calls
<1>8. ASSUME JoinsApart, NEW u \in Ending PROVE JoinOK(u)'
  <2>1. PlaceOK(u)' /\ ~End!Calls("jointhread")' /\ joiners' = {}
    BY <1>1, <1>5, <1>7, <1>8 DEF End!Calls
  <2> QED BY <2>1 DEF PlaceOK, JoinOK, JoinWheres
<1>9. ASSUME ExitsApart PROVE (published => End!IsDead)' /\ \A u \in Ending : ExitOK(u)'
  <2>1. published = FALSE /\ datalock = t /\ t \notin should_die
    BY <1>1, <1>9, Running DEF EndInv, ExitOK
  <2>2. PollOK(t)'
    BY <1>0, <1>1, <1>2, <1>3, SMT DEF PollOK, EndTypes
  <2>3. ASSUME NEW u \in Ending PROVE ExitOK(u)'
    <3>1. CASE u = t
      BY <1>1, <1>3, <2>1, <2>2, <3>1, ProgramsAssumption DEF ExitOK, End!ProgramsOK
    <3>2. CASE u # t
      <4>1. ExitOK(u) /\ where'[u] = where[u] /\ datalock # u /\ datalock # None
        BY <1>3, <1>9, <2>1, <3>2, ProgramsAssumption DEF EndInv, End!ProgramsOK
      <4> QED BY <1>1, <4>1 DEF ExitOK
    <3> QED BY <3>1, <3>2
  <2> QED BY <1>1, <2>1, <2>3
<1>10. ASSUME ExecsApart, NEW u \in Ending PROVE ExecOK(u)'
  BY <1>1, <1>3, <1>10 DEF EndInv, ExecOK
<1>11. (JoinsApart' <=> JoinsApart) /\ (ExitsApart' <=> ExitsApart) /\ (ExecsApart' <=> ExecsApart)
  BY <1>1 DEF JoinsApart, ExitsApart, ExecsApart, End!Calls
<1> QED BY <1>4, <1>6, <1>7, <1>8, <1>9, <1>10, <1>11 DEF EndInv

\* A thread dies and wakes the threads that wait to join it. They slept, so that
\* nobody who was dead is awake.
LEMMA Dies ==
  ASSUME EndInv, NEW t \in Ending, End!OnCpu(t), End!NotifyJoiners(t), End!SwitchOut(t)
  PROVE  /\ state' \in [Ending -> States] /\ place' \in [Ending -> Places]
         /\ joiners' \in SUBSET joiners /\ rudely' \subseteq rudely
         /\ state'[t] = "ZOMBIE" /\ place'[t] = "off"
         /\ \A u \in Ending \ {t} : place'[u] = place[u]
         /\ \A u \in Ending \ {t} : u \in joiners' => state'[u] = state[u]
         /\ \A u \in Ending : u \in joiners \ joiners' => target[u] = t
         /\ \A u \in Ending \ {t} : state'[u] = "ZOMBIE" => state[u] = "ZOMBIE"
         /\ JoinsApart => \A u \in Ending : state[u] = "ZOMBIE" => state'[u] = "ZOMBIE"
<1>0. EndTypes
  BY DEF EndInv
<1>1. PICK woken \in SUBSET joiners :
        /\ joiners' = joiners \ woken /\ rudely' = rudely \ woken
        /\ \A u \in woken : target[u] = t
        /\ state' = [u \in Ending |->
             IF u = t THEN "ZOMBIE" ELSE IF u \in woken THEN "RUNNING" ELSE state[u]]
  <2>1. End!Woken(t) \in SUBSET joiners /\ \A u \in End!Woken(t) : target[u] = t
    BY DEF End!Woken
  <2> QED BY <2>1 DEF End!NotifyJoiners
<1>2. /\ place' = [place EXCEPT ![t] = "off"]
      /\ place' \in [Ending -> Places] /\ state' \in [Ending -> States]
  BY <1>0, <1>1 DEF EndTypes, States, Places, End!SwitchOut
<1>3. JoinsApart => \A u \in woken : state[u] = "BLOCKED"
  BY <1>0, <1>1 DEF EndInv, EndTypes, JoinOK
<1> QED BY <1>0, <1>1, <1>2, <1>3 DEF EndTypes

\* The end of a thread that is to die.
LEMMA KillStep ==
  ASSUME EndInv, NEW t \in Ending, End!Kill(t)
  PROVE  EndInv'
<1>0. /\ EndTypes /\ CallsOK /\ PlaceOK(t) /\ (JoinsApart => JoinOK(t)) /\ (ExitsApart => ExitOK(t))
      /\ ExecsApart => ExecOK(t)
  BY DEF EndInv
<1>1. /\ End!OnCpu(t) /\ End!NotifyJoiners(t) /\ End!SwitchOut(t) /\ t \in should_die
      /\ where' = [where EXCEPT ![t] = IF where[t] = "ret" THEN "user" ELSE where[t]]
      /\ UNCHANGED <<prog, threads, born, freed, reaper, published, datalock, panic, should_die,
                     target, loop>>
  BY DEF End!Kill, End!Goto, End!listVars
<1>2. /\ where' \in [Ending -> Wheres]
      /\ where'[t] = where[t] \/ (where[t] = "ret" /\ where'[t] = "user")
      /\ \A u \in Ending \ {t} : where'[u] = where[u]
  BY <1>0, <1>1 DEF EndTypes, Wheres
<1>3. /\ state' \in [Ending -> States] /\ place' \in [Ending -> Places]
      /\ joiners' \in SUBSET joiners /\ rudely' \subseteq rudely
      /\ state'[t] = "ZOMBIE" /\ place'[t] = "off"
      /\ \A u \in Ending \ {t} : place'[u] = place[u]
      /\ \A u \in Ending \ {t} : u \in joiners' => state'[u] = state[u]
      /\ \A u \in Ending : u \in joiners \ joiners' => target[u] = t
      /\ \A u \in Ending \ {t} : state'[u] = "ZOMBIE" => state[u] = "ZOMBIE"
      /\ JoinsApart => \A u \in Ending : state[u] = "ZOMBIE" => state'[u] = "ZOMBIE"
  BY <1>1, Dies
<1>4. EndTypes'
  BY <1>0, <1>1, <1>2, <1>3 DEF EndTypes
<1>5. CallsOK'
  BY <1>0, <1>1, <1>3 DEF CallsOK, End!Calls, End!NoLoop
<1>6. \A u \in Ending : PlaceOK(u)'
  <2> TAKE u \in Ending
  <2>1. CASE u = t
    BY <1>0, <1>1, <1>2, <1>3, <2>1, Running DEF PlaceOK, ExitWheres, JoinWheres, End!Calls
  <2>2. CASE u # t
    BY <1>1, <1>2, <1>3, <2>2 DEF EndInv, PlaceOK, End!Calls
  <2> QED BY <2>1, <2>2
<1>7. ASSUME JoinsApart, NEW u \in Ending PROVE JoinOK(u)'
  <2>0. JoinOK(u) /\ PlaceOK(u) /\ t \notin joiners
    BY <1>1, <1>7, Running DEF EndInv
  <2>1. u \in joiners' => where'[u] = "joined" /\ state'[u] = "BLOCKED" /\ place'[u] \in {"off", "queued"}
    BY <1>2, <1>3, <2>0 DEF JoinOK
  <2>2. ASSUME where'[u] = "runlock" \/ (where'[u] = "joined" /\ u \notin joiners')
        PROVE  state'[target[u]] = "ZOMBIE"
    <3>1. where[u] = where'[u] /\ target[u] \in Ending
      BY <1>0, <1>2, <2>0, <2>2 DEF PlaceOK, JoinWheres, EndTypes
    <3>2. CASE u \in joiners \ joiners'
      BY <1>3, <3>2
    <3>3. CASE u \notin joiners \ joiners'
      BY <1>3, <1>7, <2>0, <2>2, <3>1, <3>3 DEF JoinOK
    <3> QED BY <3>2, <3>3
  <2> QED BY <1>1, <2>1, <2>2 DEF JoinOK
<1>8. ASSUME ExitsApart PROVE (published => End!IsDead)' /\ \A u \in Ending : ExitOK(u)'
  <2>0. published = FALSE /\ datalock # t /\ (datalock = None => where[t] = "ret") /\ JoinsApart
    BY <1>0, <1>1, <1>8, Running DEF ExitOK, ExitsApart, JoinsApart
  <2>1. ASSUME NEW u \in Ending PROVE ExitOK(u)'
    <3>0. ExitOK(u)
      BY <1>8 DEF EndInv
    <3>1. CASE u = t
      BY <1>1, <1>2, <1>3, <2>0, <3>0, <3>1 DEF ExitOK
    <3>2. CASE u # t
      <4>1. where[u] = "poll" => PollOK(u)'
        <5>1. \A j \in DOMAIN threads : threads[j] \in Ending
          BY <1>0, SMT DEF EndTypes
        <5> QED BY <1>1, <1>3, <2>0, <3>0, <5>1 DEF ExitOK, PollOK
      <4> QED BY <1>1, <1>2, <1>3, <2>0, <3>0, <3>2, <4>1 DEF ExitOK
    <3> QED BY <3>1, <3>2
  <2> QED BY <1>1, <2>0, <2>1
<1>9. ASSUME ExecsApart, NEW u \in Ending PROVE ExecOK(u)'
  BY <1>1, <1>2, <1>9 DEF EndInv, ExecOK
<1>10. (JoinsApart' <=> JoinsApart) /\ (ExitsApart' <=> ExitsApart) /\ (ExecsApart' <=> ExecsApart)
  BY <1>1 DEF JoinsApart, ExitsApart, ExecsApart, End!Calls
<1> QED BY <1>4, <1>5, <1>6, <1>7, <1>8, <1>9, <1>10 DEF EndInv

\* exit_proc has seen everyone dead, dies itself and publishes the process.
LEMMA PublishStep ==
  ASSUME EndInv, NEW t \in Ending, End!Publish(t)
  PROVE  EndInv'
<1>0. EndTypes /\ CallsOK /\ PlaceOK(t)
  BY DEF EndInv
<1>1. /\ End!OnCpu(t) /\ End!NotifyJoiners(t) /\ End!SwitchOut(t) /\ where[t] = "poll"
      /\ loop[t].i > loop[t].end /\ datalock' = None /\ published' = TRUE
      /\ where' = [where EXCEPT ![t] = "dead"] /\ loop' = [loop EXCEPT ![t] = End!NoLoop]
      /\ UNCHANGED <<prog, threads, born, freed, reaper, panic, should_die, target>>
  BY DEF End!Publish, End!Goto
<1>2. /\ where'[t] = "dead" /\ where' \in [Ending -> Wheres]
      /\ \A u \in Ending \ {t} : where'[u] = where[u] /\ loop'[u] = loop[u]
  BY <1>0, <1>1 DEF EndTypes, Wheres, ExitWheres
<1>3. /\ state' \in [Ending -> States] /\ place' \in [Ending -> Places]
      /\ joiners' \in SUBSET joiners /\ rudely' \subseteq rudely
      /\ state'[t] = "ZOMBIE" /\ place'[t] = "off"
      /\ \A u \in Ending \ {t} : place'[u] = place[u]
      /\ \A u \in Ending \ {t} : state'[u] = "ZOMBIE" => state[u] = "ZOMBIE"
      /\ JoinsApart => \A u \in Ending : state[u] = "ZOMBIE" => state'[u] = "ZOMBIE"
  BY <1>1, Dies
<1>4. EndTypes'
  <2>1. End!NoLoop \in End!Loops
    BY SMT DEF End!NoLoop, End!Loops
  <2> QED BY <1>0, <1>1, <1>2, <1>3, <2>1 DEF EndTypes
<1>5. End!Calls("exit_proc") /\ (JoinsApart => joiners' = {} /\ ~End!Calls("jointhread"))
  BY <1>0, <1>1, <1>3 DEF PlaceOK, ExitWheres, CallsOK, JoinsApart
<1>6. CallsOK'
  BY <1>0, <1>1, <1>3, <1>5 DEF CallsOK, End!Calls, End!NoLoop
<1>7. \A u \in Ending : PlaceOK(u)'
  <2> TAKE u \in Ending
  <2>1. CASE u = t
    BY <1>0, <1>1, <1>2, <1>3, <1>5, <2>1, Running DEF PlaceOK, JoinWheres, End!Calls
  <2>2. CASE u # t
    BY <1>1, <1>2, <1>3, <2>2 DEF EndInv, PlaceOK, End!Calls
  <2> QED BY <2>1, <2>2
<1>8. ASSUME JoinsApart, NEW u \in Ending PROVE JoinOK(u)'
  <2>1. PlaceOK(u)' /\ ~End!Calls("jointhread")' /\ joiners' = {}
    BY <1>1, <1>5, <1>7, <1>8 DEF End!Calls
  <2> QED BY <2>1 DEF PlaceOK, JoinOK, JoinWheres
<1>9. ASSUME ExitsApart PROVE (published => End!IsDead)' /\ \A u \in Ending : ExitOK(u)'
  <2>0. PollOK(t) /\ datalock = t /\ JoinsApart
    BY <1>1, <1>9 DEF EndInv, ExitOK, ExitsApart, JoinsApart
  <2>1. ASSUME NEW j \in DOMAIN threads PROVE state'[threads[j]] = "ZOMBIE"
    <3>1. j < loop[t].i /\ threads[j] \in Ending
      BY <1>0, <1>1, <2>0, SMT DEF EndTypes, End!Loops, PollOK
    <3> QED BY <1>3, <2>0, <3>1 DEF PollOK
  <2>2. ASSUME NEW u \in Ending PROVE ExitOK(u)'
    <3>1. where'[u] \notin {"tell", "poll", "again"}
      BY <1>2, <1>9, <2>0 DEF EndInv, ExitOK
    <3> QED BY <1>1, <3>1, ProgramsAssumption DEF ExitOK, End!ProgramsOK
  <2> QED BY <1>1, <2>1, <2>2 DEF End!IsDead
<1>10. ASSUME ExecsApart, NEW u \in Ending PROVE ExecOK(u)'
  BY <1>1, <1>2, <1>10 DEF EndInv, ExecOK
<1>11. (JoinsApart' <=> JoinsApart) /\ (ExitsApart' <=> ExitsApart) /\ (ExecsApart' <=> ExecsApart)
  BY <1>1 DEF JoinsApart, ExitsApart, ExecsApart, End!Calls
<1> QED BY <1>4, <1>6, <1>7, <1>8, <1>9, <1>10, <1>11 DEF EndInv

\* spawnthread, in which case nobody looks at the others' list who may be misled.
LEMMA SpawnStep ==
  ASSUME EndInv, NEW t \in Ending, NEW n \in Ending, End!spawnthread(t, n)
  PROVE  EndInv'
<1>0. EndTypes /\ CallsOK
  BY DEF EndInv
<1>1. /\ End!OnCpu(t) /\ End!Calls("spawnthread") /\ where[t] = "user" /\ n \notin born
      /\ born' = born \union {n} /\ threads' = Append(threads, n)
      /\ place' = [place EXCEPT ![n] = "queued"] /\ where' = [where EXCEPT ![t] = "ret"]
      /\ UNCHANGED <<prog, freed, reaper, published, datalock, panic, state, should_die, rudely,
                     target, joiners, loop>>
  BY DEF End!spawnthread, End!Goto, End!lockVars
<1>2. t \in born /\ (JoinsApart => t \notin joiners)
  BY <1>1, Running
<1>3. /\ where'[t] = "ret" /\ (\A u \in Ending \ {t} : where'[u] = where[u])
      /\ place'[n] = "queued" /\ (\A u \in Ending \ {n} : place'[u] = place[u])
      /\ where' \in [Ending -> Wheres] /\ place' \in [Ending -> Places]
  BY <1>0, <1>1 DEF EndTypes, Wheres, Places
<1>4. EndTypes'
  <2>1. /\ threads' \in Seq(Ending) /\ Range(threads') = Range(threads) \union {n}
        /\ IsInjective(threads')
    BY <1>0, <1>1, RngAppend DEF EndTypes
  <2>2. n \notin freed /\ Range(threads') = born' \ freed'
    BY <1>0, <1>1, <2>1 DEF EndTypes
  <2> QED BY <1>0, <1>1, <1>3, <2>1, <2>2 DEF EndTypes
<1>5. CallsOK'
  BY <1>0, <1>1 DEF CallsOK, End!Calls, End!NoLoop
<1>6. \A u \in Ending : PlaceOK(u)'
  <2> TAKE u \in Ending
  <2>0. PlaceOK(u) /\ place[n] = "none"
    BY <1>1 DEF EndInv, PlaceOK
  <2>1. CASE u = t
    BY <1>1, <1>2, <1>3, <2>0, <2>1 DEF PlaceOK, ExitWheres, JoinWheres, End!Calls
  <2>2. CASE u # t
    BY <1>1, <1>3, <2>0, <2>2 DEF PlaceOK, End!Calls
  <2> QED BY <2>1, <2>2
<1>7. ASSUME JoinsApart, NEW u \in Ending PROVE JoinOK(u)'
  <2>0. JoinOK(u) /\ PlaceOK(n) /\ (u = t => u \notin joiners)
    BY <1>2, <1>7 DEF EndInv
  <2> QED BY <1>1, <1>3, <2>0 DEF JoinOK, PlaceOK
<1>8. ASSUME ExitsApart PROVE (published => End!IsDead)' /\ \A u \in Ending : ExitOK(u)'
  <2>0. published = FALSE /\ datalock = None /\ ~End!Calls("exit_proc")
    BY <1>0, <1>1, <1>8 DEF ExitsApart, CallsOK, EndTypes
  <2>1. ASSUME NEW u \in Ending PROVE ExitOK(u)'
    <3>1. ExitOK(u) /\ PlaceOK(u) /\ datalock # u
      BY <1>8, <2>0, ProgramsAssumption DEF EndInv, End!ProgramsOK
    <3>2. where'[u] = where[u] \/ where'[u] = "ret"
      BY <1>3
    <3>3. where[u] # "poll"
      BY <2>0, <3>1 DEF PlaceOK, ExitWheres
    <3> QED BY <1>1, <3>1, <3>2, <3>3 DEF ExitOK
  <2> QED BY <1>1, <2>0, <2>1
<1>9. ASSUME ExecsApart, NEW u \in Ending PROVE ExecOK(u)'
  BY <1>1, <1>3, <1>9 DEF EndInv, PlaceOK, ExecOK, ExecsApart
<1>10. (JoinsApart' <=> JoinsApart) /\ (ExitsApart' <=> ExitsApart) /\ (ExecsApart' <=> ExecsApart)
  BY <1>1 DEF JoinsApart, ExitsApart, ExecsApart, End!Calls
<1> QED BY <1>4, <1>5, <1>6, <1>7, <1>8, <1>9, <1>10 DEF EndInv

-----------------------------------------------------------------------------
\* Del makes the list shorter by one, if it had the element.
LEMMA DelShorter ==
  ASSUME NEW s \in Seq(Ending), IsInjective(s), NEW k \in DOMAIN s
  PROVE  Len(Del(s, s[k])) = Len(s) - 1 /\ Len(Del(s, s[k])) \in Nat
<1>1. PICK r : r = Del(s, s[k])
  OBVIOUS
<1>2. r \in Seq(Ending) /\ DOMAIN r = 1..(Len(s) - 1)
  BY <1>1, RngDel, DelAt
<1>3. Len(r) = Len(s) - 1 /\ Len(r) \in Nat
  BY <1>2, SMT
<1> QED BY <1>1, <1>3

\* teardown of u: process::threads and the threads that were deleted.
LEMMA Torn ==
  ASSUME EndTypes, NEW u \in born, threads' = Del(threads, u), freed' = freed \union {u}, born' = born
  PROVE  /\ threads' \in Seq(Ending) /\ IsInjective(threads')
         /\ freed' \in SUBSET born' /\ Range(threads') = born' \ freed'
         /\ \A j \in DOMAIN threads' : \E k \in DOMAIN threads : threads'[j] = threads[k]
         /\ \/ threads' = threads
            \/ /\ Len(threads') = Len(threads) - 1
               /\ \E k \in DOMAIN threads : threads[k] = u
<1>1. /\ threads \in Seq(Ending) /\ IsInjective(threads) /\ Range(threads) = born \ freed
      /\ freed \subseteq born
  BY DEF EndTypes
<1>2. /\ threads' \in Seq(Ending) /\ IsInjective(threads') /\ Range(threads') = Range(threads) \ {u}
  BY <1>1, RngDel
<1>3. \A j \in DOMAIN threads' : \E k \in DOMAIN threads : threads'[j] = threads[k]
  BY <1>2 DEF Range
<1>4. CASE ~\E k \in DOMAIN threads : threads[k] = u
  <2>1. threads' = threads
    BY <1>4 DEF Del
  <2> QED BY <1>1, <1>2, <1>3, <2>1
<1>5. CASE \E k \in DOMAIN threads : threads[k] = u
  <2>1. PICK k \in DOMAIN threads : threads[k] = u
    BY <1>5
  <2>2. Len(threads') = Len(threads) - 1
    BY <1>1, <2>1, DelShorter
  <2> QED BY <1>1, <1>2, <1>3, <2>1, <2>2
<1> QED BY <1>4, <1>5

\* What another thread that is in execve has found stays true: once its loop is
\* over there is nobody else who could be torn down.
LEMMA ExecKept ==
  ASSUME EndTypes, NEW u \in born, threads' = Del(threads, u), freed' = freed \union {u}, born' = born,
         NEW v \in Ending, ExecOK(v), where'[v] = where[v], loop'[v] = loop[v], panic' = panic
  PROVE  ExecOK(v)'
<1> SUFFICES ASSUME where[v] = "exec", v \notin freed, v # u, ~panic
             PROVE  ExecOK(v)'
  BY DEF ExecOK
<1>1. CASE threads' = threads
  BY <1>1 DEF ExecOK
<1>2. CASE /\ Len(threads') = Len(threads) - 1
           /\ \E k \in DOMAIN threads : threads[k] = u
  <2>1. PICK k \in DOMAIN threads : threads[k] = u
    BY <1>2
  <2>2. threads # <<v>>
    BY <2>1, SMT
  <2>3. /\ loop[v].i <= loop[v].end + 1 /\ Len(threads) <= loop[v].end
        /\ ~(loop[v].i > loop[v].end)
    BY <2>2 DEF ExecOK
  <2>4. /\ loop[v].i \in Nat /\ loop[v].end \in Nat /\ Len(threads) \in Nat
    BY SMT DEF EndTypes, End!Loops
  <2>5. Len(threads') <= loop[v].end /\ Len(threads') # loop[v].end
    BY <1>2, <2>3, <2>4, SMT
  <2> QED BY <2>3, <2>5 DEF ExecOK
<1> QED BY <1>1, <1>2, Torn

\* jointhread tears down the thread that it has joined.
LEMMA TeardownStep ==
  ASSUME EndInv, NEW t \in Ending, End!JoinTeardown(t)
  PROVE  EndInv'
<1>0. EndTypes /\ CallsOK /\ PlaceOK(t)
  BY DEF EndInv
<1>1. PICK u \in born :
        /\ End!OnCpu(t) /\ where[t] = "runlock" /\ u = target[t]
        /\ threads' = Del(threads, u) /\ freed' = freed \union {u}
        /\ where' = [where EXCEPT ![t] = "ret"] /\ target' = [target EXCEPT ![t] = None]
        /\ UNCHANGED <<prog, born, reaper, published, datalock, panic, state, place, should_die,
                       rudely, joiners, loop>>
  <2>1. target[t] \in born /\ \A s, e : End!Del(s, e) = Del(s, e)
    BY <1>0 DEF PlaceOK, JoinWheres, End!JoinTeardown, End!Del, Del
  <2> QED BY <2>1 DEF End!JoinTeardown, End!teardown, End!Goto
<1>2. /\ where'[t] = "ret" /\ where' \in [Ending -> Wheres]
      /\ target' \in [Ending -> Ending \union {None}]
      /\ \A v \in Ending \ {t} : where'[v] = where[v] /\ target'[v] = target[v]
  BY <1>0, <1>1 DEF EndTypes, Wheres
<1>3. EndTypes'
  BY <1>0, <1>1, <1>2, Torn DEF EndTypes
<1>4. CallsOK'
  BY <1>0, <1>1 DEF CallsOK, End!Calls, End!NoLoop
<1>5. \A v \in Ending : PlaceOK(v)'
  <2> TAKE v \in Ending
  <2>1. CASE v = t
    BY <1>0, <1>1, <1>2, <2>1 DEF PlaceOK, ExitWheres, JoinWheres
  <2>2. CASE v # t
    BY <1>1, <1>2, <2>2 DEF EndInv, PlaceOK, End!Calls
  <2> QED BY <2>1, <2>2
<1>6. ASSUME JoinsApart, NEW v \in Ending PROVE JoinOK(v)'
  <2>1. CASE v = t
    BY <1>1, <1>2, <1>6, <2>1, Running DEF JoinOK
  <2>2. CASE v # t
    <3>1. JoinOK(v)
      BY <1>6 DEF EndInv
    <3> QED BY <1>1, <1>2, <2>2, <3>1 DEF JoinOK
  <2> QED BY <2>1, <2>2
<1>7. ASSUME ExitsApart PROVE (published => End!IsDead)' /\ \A v \in Ending : ExitOK(v)'
  <2>0. published = FALSE /\ datalock = None /\ ~End!Calls("exit_proc")
    BY <1>0, <1>1, <1>7 DEF ExitsApart, CallsOK, EndTypes, PlaceOK, JoinWheres
  <2>1. ASSUME NEW v \in Ending PROVE ExitOK(v)'
    <3>1. ExitOK(v) /\ PlaceOK(v) /\ datalock # v
      BY <1>7, <2>0, ProgramsAssumption DEF EndInv, End!ProgramsOK
    <3>2. where'[v] = where[v] \/ where'[v] = "ret"
      BY <1>2
    <3>3. where[v] # "poll"
      BY <2>0, <3>1 DEF PlaceOK, ExitWheres
    <3> QED BY <1>1, <3>1, <3>2, <3>3 DEF ExitOK
  <2> QED BY <1>1, <2>0, <2>1
<1>8. ASSUME ExecsApart, NEW v \in Ending PROVE ExecOK(v)'
  <2>1. CASE v = t
    BY <1>2, <2>1 DEF ExecOK
  <2>2. CASE v # t
    BY <1>0, <1>1, <1>2, <1>8, <2>2, ExecKept DEF EndInv
  <2> QED BY <2>1, <2>2
<1>9. (JoinsApart' <=> JoinsApart) /\ (ExitsApart' <=> ExitsApart) /\ (ExecsApart' <=> ExecsApart)
  BY <1>1 DEF JoinsApart, ExitsApart, ExecsApart, End!Calls
<1> QED BY <1>3, <1>4, <1>5, <1>6, <1>7, <1>8, <1>9 DEF EndInv

\* A sequence of one element, and what is left of two.
LEMMA OneLeft ==
  ASSUME NEW s \in Seq(Ending), Len(s) = 1
  PROVE  s = <<s[1]>>
BY SMT

\* The last round of execve, of those that vec::at() lets through: the thread that
\* called is the only one, or the first one of two.
LEMMA LastRound ==
  ASSUME NEW s \in Seq(Ending), IsInjective(s), NEW t \in Ending, NEW k \in DOMAIN s, s[k] = t,
         \A j \in DOMAIN s : j < Len(s) => s[j] = t
  PROVE  /\ s[Len(s)] = t => s = <<t>>
         /\ s[Len(s)] # t => Del(s, s[Len(s)]) = <<t>>
<1>1. Len(s) \in Nat /\ DOMAIN s = 1..Len(s) /\ k \in Nat /\ 1 <= k /\ k <= Len(s)
  BY SMT
<1>2. CASE s[Len(s)] = t
  <2>1. Len(s) \in DOMAIN s /\ 1 \in DOMAIN s /\ (1 < Len(s) => s[1] = t)
    BY <1>1, SMT
  <2>2. 1 = Len(s)
    BY <1>1, <1>2, <2>1, SMT DEF IsInjective
  <2> QED BY <1>2, <2>2, OneLeft
<1>3. CASE s[Len(s)] # t
  <2>1. k < Len(s) /\ 1 \in DOMAIN s /\ Len(s) - 1 \in DOMAIN s /\ Len(s) \in DOMAIN s
    BY <1>1, <1>3, SMT
  <2>2. s[1] = t /\ s[Len(s) - 1] = t
    BY <1>1, <2>1, SMT
  <2>3. Len(s) = 2
    BY <1>1, <2>1, <2>2, SMT DEF IsInjective
  <2>4. PICK r : r = Del(s, s[Len(s)])
    OBVIOUS
  <2>5. r \in Seq(Ending)
    BY <2>4, RngDel
  <2>6. DOMAIN r = 1..(Len(s) - 1) /\ \A j \in 1..(Len(s) - 1) : r[j] = IF j < Len(s) THEN s[j] ELSE s[j + 1]
    BY <2>1, <2>4, DelAt
  <2>7. Len(r) = 1 /\ r[1] = t
    BY <2>2, <2>3, <2>5, <2>6, SMT
  <2> QED BY <1>3, <2>4, <2>5, <2>7, OneLeft
<1> QED BY <1>2, <1>3

\* A round of execve keeps what is known of the thread that is in it.
LEMMA RoundKept ==
  ASSUME EndTypes, NEW t \in Ending, ExecOK(t), loop[t].i >= 1, t \notin freed, panic = FALSE, where[t] = "exec",
         NEW k \in DOMAIN threads, threads[k] = t,
         NEW l \in End!Loops, l.end = loop[t].end, l.i = loop[t].i + 1, loop'[t] = l,
         loop[t].i <= loop[t].end, ~(loop[t].i > Len(threads)),
         NEW u, u = threads[loop[t].i], threads' = IF u = t THEN threads ELSE Del(threads, u)
  PROVE  ExecOK(t)'
<1>1. /\ threads \in Seq(Ending) /\ IsInjective(threads) /\ Len(threads) \in Nat
      /\ loop[t].i \in Nat /\ loop[t].end \in Nat /\ DOMAIN threads = 1..Len(threads)
  BY SMT DEF EndTypes, End!Loops
<1>2. /\ Len(threads) <= loop[t].end
      /\ Len(threads) = loop[t].end => \A j \in DOMAIN threads : j < loop[t].i => threads[j] = t
  BY DEF ExecOK
<1>3. loop[t].i \in DOMAIN threads
  BY <1>1, <1>2, SMT
<1>4. CASE loop[t].i = loop[t].end
  <2>1. Len(threads) = loop[t].end /\ Len(threads) = loop[t].i
    BY <1>1, <1>2, <1>4, SMT
  <2>2. threads' = <<t>>
    <3>1. u = threads[Len(threads)] /\ \A j \in DOMAIN threads : j < Len(threads) => threads[j] = t
      BY <1>2, <2>1
    <3>2. /\ threads[Len(threads)] = t => threads = <<t>>
          /\ threads[Len(threads)] # t => Del(threads, threads[Len(threads)]) = <<t>>
      BY <1>1, <3>1, LastRound
    <3> QED BY <3>1, <3>2
  <2>3. /\ Len(<<t>>) = 1 /\ l.i <= l.end + 1 /\ 1 <= l.end /\ ~(l.i <= l.end)
    BY <1>1, <1>2, <1>4, <2>1, SMT
  <2> QED BY <2>2, <2>3 DEF ExecOK
<1>5. CASE loop[t].i # loop[t].end /\ u = t
  <2>1. l.i <= l.end + 1 /\ ~(l.i > l.end) /\ Len(threads) <= l.end
    BY <1>1, <1>2, <1>5, SMT
  <2>2. ASSUME Len(threads) = l.end, NEW j \in DOMAIN threads, j < l.i PROVE threads[j] = t
    <3>1. j < loop[t].i \/ j = loop[t].i
      BY <1>1, <2>2, SMT
    <3> QED BY <1>2, <1>5, <2>2, <3>1
  <2> QED BY <1>5, <2>1, <2>2 DEF ExecOK
<1>6. CASE loop[t].i # loop[t].end /\ u # t
  <2>1. PICK n \in Nat : n = Len(threads') /\ n = Len(threads) - 1
    BY <1>1, <1>3, <1>6, DelShorter
  <2>2. l.i <= l.end + 1 /\ ~(l.i > l.end) /\ n <= l.end /\ n # l.end
    BY <1>1, <1>2, <1>6, <2>1, SMT
  <2> QED BY <2>1, <2>2 DEF ExecOK
<1> QED BY <1>4, <1>5, <1>6

\* A round of the loop of execve.
LEMMA ExecRoundStep ==
  ASSUME EndInv, NEW t \in Ending, End!ExecRound(t)
  PROVE  EndInv'
<1>0. EndTypes /\ CallsOK /\ PlaceOK(t) /\ loop \in [Ending -> End!Loops]
  BY DEF EndInv, EndTypes
<1>1. /\ End!OnCpu(t) /\ where[t] = "exec" /\ loop[t].i <= loop[t].end /\ End!Round(loop[t], t)
      /\ UNCHANGED <<prog, born, reaper, published, datalock, state, place, where, should_die,
                     rudely, target, joiners>>
  BY DEF End!ExecRound, End!lockVars
<1>2. PICK l \in End!Loops : /\ l.end = loop[t].end /\ l.i = loop[t].i + 1
                            /\ loop' = [loop EXCEPT ![t] = l]
  <2>1. PICK l \in End!Loops : /\ l.end = loop[t].end /\ l.i = loop[t].i + 1
                              /\ [loop EXCEPT ![t].i = @ + 1] = [loop EXCEPT ![t] = l]
    BY <1>0, NextRound
  <2> QED BY <2>1 DEF End!ExecRound
<1>3. loop'[t] = l /\ (\A v \in Ending \ {t} : loop'[v] = loop[v]) /\ loop' \in [Ending -> End!Loops]
  BY <1>0, <1>2
<1>4. PICK k \in DOMAIN threads : threads[k] = t
  BY <1>1, Running
<1>5. t \in born /\ t \notin freed /\ panic = FALSE /\ loop[t].i >= 1
  BY <1>0, <1>1, Running DEF PlaceOK
<1>6. EndTypes' /\ (ExecsApart => \A v \in Ending : ExecOK(v)')
  <2>1. CASE loop[t].i > Len(threads)
    <3>1. panic' = TRUE /\ threads' = threads /\ freed' = freed
      BY <1>1, <2>1 DEF End!Round
    <3> QED BY <1>0, <1>1, <1>3, <3>1 DEF EndTypes, ExecOK
  <2>2. CASE ~(loop[t].i > Len(threads))
    <3>1. PICK u : u = threads[loop[t].i]
      OBVIOUS
    <3>2. /\ panic' = panic /\ threads' = IF u = t THEN threads ELSE Del(threads, u)
          /\ freed' = IF u = t THEN freed ELSE freed \union {u}
      <4>1. \A s, e : End!Del(s, e) = Del(s, e)
        BY DEF End!Del, Del
      <4> QED BY <1>1, <2>2, <3>1, <4>1 DEF End!Round, End!teardown
    <3>3. ExecsApart => ExecOK(t)'
      BY <1>0, <1>1, <1>2, <1>3, <1>4, <1>5, <2>2, <3>1, <3>2, RoundKept DEF EndInv
    <3>4. CASE u = t
      <4>1. EndTypes' /\ threads' = threads /\ freed' = freed
        BY <1>0, <1>1, <1>3, <3>2, <3>4 DEF EndTypes
      <4> QED BY <1>1, <1>3, <3>2, <3>3, <4>1 DEF EndInv, ExecOK
    <3>5. CASE u # t
      <4>1. loop[t].i \in DOMAIN threads
        BY <1>0, <1>5, <2>2, SMT DEF EndTypes, End!Loops
      <4>2. u \in born
        BY <1>0, <3>1, <4>1 DEF EndTypes, Range
      <4>3. EndTypes'
        BY <1>0, <1>1, <1>3, <3>2, <3>5, <4>2, Torn DEF EndTypes
      <4>4. ASSUME ExecsApart, NEW v \in Ending \ {t} PROVE ExecOK(v)'
        BY <1>0, <1>1, <1>3, <3>2, <3>5, <4>2, <4>4, ExecKept DEF EndInv
      <4> QED BY <3>3, <4>3, <4>4
    <3> QED BY <3>4, <3>5
  <2> QED BY <2>1, <2>2
<1>7. CallsOK' /\ \A v \in Ending : PlaceOK(v)'
  <2>1. loop'[t].i >= 1
    BY <1>0, <1>2, <1>3, <1>5, SMT DEF End!Loops
  <2>2. CallsOK'
    BY <1>0, <1>1 DEF CallsOK, End!Calls, End!NoLoop
  <2> QED BY <1>1, <1>3, <2>1, <2>2 DEF EndInv, PlaceOK, End!Calls
<1>8. ASSUME JoinsApart, NEW v \in Ending PROVE JoinOK(v)'
  BY <1>1, <1>8 DEF EndInv, JoinOK
<1>9. ASSUME ExitsApart PROVE (published => End!IsDead)' /\ \A v \in Ending : ExitOK(v)'
  <2>0. published = FALSE /\ ~End!Calls("exit_proc")
    BY <1>0, <1>1, <1>9 DEF ExitsApart, CallsOK, EndTypes, PlaceOK
  <2>1. ASSUME NEW v \in Ending PROVE ExitOK(v)'
    <3>1. ExitOK(v) /\ PlaceOK(v)
      BY <1>9 DEF EndInv
    <3>2. where[v] # "poll"
      BY <2>0, <3>1 DEF PlaceOK, ExitWheres
    <3> QED BY <1>1, <3>1, <3>2 DEF ExitOK
  <2> QED BY <1>1, <2>0, <2>1
<1>10. (JoinsApart' <=> JoinsApart) /\ (ExitsApart' <=> ExitsApart) /\ (ExecsApart' <=> ExecsApart)
  BY <1>1 DEF JoinsApart, ExitsApart, ExecsApart, End!Calls
<1> QED BY <1>6, <1>7, <1>8, <1>9, <1>10 DEF EndInv

\* reap, in the process that waited for this one.
LEMMA ReapStep ==
  ASSUME EndInv, End!reap \/ End!ReapRound
  PROVE  EndInv'
<1>0. EndTypes /\ CallsOK
  BY DEF EndInv
<1>1. /\ UNCHANGED <<prog, born, published, datalock, state, place, where, should_die,
                     rudely, target, joiners, loop>>
      /\ published
  BY <1>0 DEF End!reap, End!ReapRound, End!lockVars, CallsOK
<1>2. reaper' \in End!Loops /\ reaper'.i >= 1
  <2>1. End!Begin \in End!Loops /\ End!Begin.i >= 1
    BY <1>0, SMT DEF End!Begin, End!Loops, EndTypes
  <2>2. [reaper EXCEPT !.i = @ + 1] \in End!Loops /\ [reaper EXCEPT !.i = @ + 1].i >= 1
    <3>1. reaper \in End!Loops
      BY <1>0 DEF EndTypes
    <3> QED BY <3>1, SMT DEF End!Loops
  <2> QED BY <2>1, <2>2 DEF End!reap, End!ReapRound
<1>3. \/ threads' = threads /\ freed' = freed /\ panic' \in BOOLEAN /\ (panic => panic')
      \/ /\ panic' = panic
         /\ \E u \in born : threads' = Del(threads, u) /\ freed' = freed \union {u}
  <2>1. CASE End!reap
    BY <1>0, <2>1 DEF End!reap, EndTypes
  <2>2. CASE End!ReapRound
    <3>0. End!Round(reaper, None) /\ panic = FALSE /\ reaper.i >= 1
      BY <1>0, <2>2 DEF End!ReapRound, CallsOK, EndTypes
    <3>1. CASE reaper.i > Len(threads)
      BY <3>0, <3>1 DEF End!Round
    <3>2. CASE ~(reaper.i > Len(threads))
      <4>1. reaper.i \in DOMAIN threads
        BY <1>0, <3>0, <3>2, SMT DEF EndTypes, End!Loops
      <4>2. PICK u : u = threads[reaper.i]
        OBVIOUS
      <4>3. u \in born /\ u # None
        BY <1>0, <4>1, <4>2, ProgramsAssumption DEF EndTypes, Range, End!ProgramsOK
      <4>4. \A s, e : End!Del(s, e) = Del(s, e)
        BY DEF End!Del, Del
      <4> QED BY <3>0, <3>2, <4>2, <4>3, <4>4 DEF End!Round, End!teardown
    <3> QED BY <3>1, <3>2
  <2> QED BY <2>1, <2>2
<1>4. EndTypes' /\ \A j \in DOMAIN threads' : \E k \in DOMAIN threads : threads'[j] = threads[k]
  <2>1. CASE threads' = threads /\ freed' = freed /\ panic' \in BOOLEAN
    BY <1>0, <1>1, <1>2, <2>1 DEF EndTypes
  <2>2. ASSUME NEW u \in born, threads' = Del(threads, u), freed' = freed \union {u}, panic' = panic
        PROVE  EndTypes' /\ \A j \in DOMAIN threads' : \E k \in DOMAIN threads : threads'[j] = threads[k]
    BY <1>0, <1>1, <1>2, <2>2, Torn DEF EndTypes
  <2> QED BY <1>3, <2>1, <2>2
<1>5. CallsOK' /\ \A v \in Ending : PlaceOK(v)'
  BY <1>0, <1>1, <1>2 DEF EndInv, CallsOK, PlaceOK, End!Calls
<1>6. ASSUME JoinsApart, NEW v \in Ending PROVE JoinOK(v)'
  BY <1>1, <1>6 DEF EndInv, JoinOK
<1>7. ASSUME ExitsApart PROVE (published => End!IsDead)' /\ \A v \in Ending : ExitOK(v)'
  <2>1. End!IsDead'
    BY <1>1, <1>4, <1>7 DEF EndInv, End!IsDead
  <2>2. ASSUME NEW v \in Ending PROVE ExitOK(v)'
    <3>1. ExitOK(v)
      BY <1>7 DEF EndInv
    <3> QED BY <1>1, <3>1 DEF ExitOK
  <2> QED BY <2>1, <2>2
<1>8. ASSUME ExecsApart, NEW v \in Ending PROVE ExecOK(v)'
  <2>0. ExecOK(v)
    BY <1>8 DEF EndInv
  <2>1. CASE threads' = threads /\ freed' = freed /\ (panic => panic')
    BY <1>1, <2>0, <2>1 DEF ExecOK
  <2>2. ASSUME NEW u \in born, threads' = Del(threads, u), freed' = freed \union {u}, panic' = panic
        PROVE  ExecOK(v)'
    BY <1>0, <1>1, <2>0, <2>2, ExecKept
  <2> QED BY <1>3, <2>1, <2>2
<1>9. (JoinsApart' <=> JoinsApart) /\ (ExitsApart' <=> ExitsApart) /\ (ExecsApart' <=> ExecsApart)
  BY <1>1 DEF JoinsApart, ExitsApart, ExecsApart, End!Calls
<1> QED BY <1>4, <1>5, <1>6, <1>7, <1>8, <1>9 DEF EndInv

-----------------------------------------------------------------------------
\* The invariant holds in the beginning, for every program.
LEMMA EndStarts ==
  ASSUME End!Init
  PROVE  EndInv
<1>1. /\ prog \in Programs /\ threads = prog.first /\ born = Range(threads) /\ freed = {}
      /\ threads \in Seq(Ending) /\ IsInjective(threads)
  <2>1. prog.first \in Seq(Ending) /\ End!IsInjective(prog.first)
    BY ProgramsAssumption DEF End!Init, End!ProgramsOK, End!AllPrograms
  <2> QED BY <2>1 DEF End!Init, End!Range, Range, End!IsInjective, IsInjective
<1>2. End!NoLoop \in End!Loops
  BY SMT DEF End!NoLoop, End!Loops
<1>3. born \in SUBSET Ending
  <2>1. \A j \in DOMAIN threads : threads[j] \in Ending
    BY <1>1, SMT
  <2> QED BY <1>1, <2>1 DEF Range
<1>4. EndTypes
  BY <1>1, <1>2, <1>3 DEF End!Init, EndTypes, States, Places, Wheres
<1>5. CallsOK /\ \A t \in Ending : PlaceOK(t)
  BY <1>1 DEF End!Init, CallsOK, PlaceOK, ExitWheres, JoinWheres
<1>6. \A t \in Ending : JoinOK(t) /\ ExitOK(t) /\ ExecOK(t)
  BY ProgramsAssumption DEF End!Init, End!ProgramsOK, JoinOK, ExitOK, ExecOK
<1> QED BY <1>4, <1>5, <1>6 DEF EndInv, End!Init

\* Every step keeps the invariant.
LEMMA EndStep ==
  ASSUME EndInv, [End!Next]_End!vars
  PROVE  EndInv'
<1>1. CASE UNCHANGED End!vars
  <2>1. EndTypes' /\ CallsOK' /\ ((published => End!IsDead) => (published => End!IsDead)')
    BY <1>1 DEF End!vars, EndInv, EndTypes, CallsOK, End!IsDead, End!Calls
  <2>2. ASSUME NEW t \in Ending
        PROVE  /\ PlaceOK(t) => PlaceOK(t)'
               /\ JoinOK(t) => JoinOK(t)'
               /\ ExitOK(t) => ExitOK(t)'
               /\ ExecOK(t) => ExecOK(t)'
    <3>1. PlaceOK(t) => PlaceOK(t)'
      BY <1>1 DEF End!vars, PlaceOK, End!Calls
    <3>2. JoinOK(t) => JoinOK(t)'
      BY <1>1 DEF End!vars, JoinOK
    <3>3. ExitOK(t) => ExitOK(t)'
      BY <1>1 DEF End!vars, ExitOK, PollOK
    <3>4. ExecOK(t) => ExecOK(t)'
      BY <1>1 DEF End!vars, ExecOK
    <3> QED BY <3>1, <3>2, <3>3, <3>4
  <2>3. (JoinsApart' <=> JoinsApart) /\ (ExitsApart' <=> ExitsApart) /\ (ExecsApart' <=> ExecsApart)
    BY <1>1 DEF End!vars, JoinsApart, ExitsApart, ExecsApart, End!Calls
  <2> QED BY <2>1, <2>2, <2>3 DEF EndInv
<1>2. ASSUME NEW t \in Ending, End!Scheduler(t) \/ End!Preempt(t) \/ End!Wake(t) PROVE EndInv'
  BY <1>2, MovedStep, WakeStep DEF End!Scheduler
<1>3. ASSUME NEW t \in Ending, End!Kernel(t) PROVE EndInv'
  BY <1>3, KillStep, GoneStep, LockStep, TellStep, PollStep, PublishStep, JoinStep, TeardownStep,
     ExecRoundStep, ExecStep DEF End!Kernel
<1>4. ASSUME NEW t \in Ending, End!User(t) PROVE EndInv'
  BY <1>4, GoneStep, ExecStep, SpawnStep, JoinStep DEF End!User
<1>5. CASE End!reap \/ End!ReapRound
  BY <1>5, ReapStep
<1> QED BY <1>1, <1>2, <1>3, <1>4, <1>5 DEF End!Next

\* The invariant of ThreadEnd always holds.
LEMMA EndAlways == End!Spec => []EndInv
BY EndStarts, EndStep, PTL DEF End!Spec

\* No step changes the program.
LEMMA SameProgram ==
  ASSUME [End!Next]_End!vars
  PROVE  prog' = prog
BY DEF End!Next, End!vars, End!Scheduler, End!Kernel, End!User, End!Pick, End!SwitchInto, End!Requeue,
       End!Kill, End!Preempt, End!Iret, End!Block, End!Sleep, End!Wake, End!spawnthread,
       End!exit_thread, End!exit_proc, End!LockData, End!Tell, End!Poll, End!PollAgain, End!Publish,
       End!jointhread, End!JoinLock, End!JoinTest, End!JoinWait, End!Joined, End!JoinTeardown,
       End!execve, End!ExecRound, End!ExecDone, End!reap, End!ReapRound, End!listVars

\* A thread that jointhread is about to tear down is dead, in every program that
\* does not call exit_proc as well.
THEOREM JoinedAreDead == End!Spec /\ JoinsApart => []JoinedIsDead
<1>1. JoinsApart /\ [End!Next]_End!vars => JoinsApart'
  BY SameProgram DEF JoinsApart, End!Calls
<1>2. EndInv /\ JoinsApart => JoinedIsDead
  BY DEF EndInv, JoinOK, JoinedIsDead, End!JoinedIsDead
<1> QED BY <1>1, <1>2, EndAlways, PTL DEF End!Spec

\* assert(p->is_dead()) of reap() holds, in every program that calls exit_proc and
\* not spawnthread, jointhread or execve.
THEOREM PublishedIsDead == End!Spec /\ ExitsApart => []DeadWhenPublished
<1>1. ExitsApart /\ [End!Next]_End!vars => ExitsApart'
  BY SameProgram DEF ExitsApart, End!Calls
<1>2. EndInv /\ ExitsApart => DeadWhenPublished
  BY DEF EndInv, DeadWhenPublished, End!DeadWhenPublished
<1> QED BY <1>1, <1>2, EndAlways, PTL DEF End!Spec

\* When execve returns the thread that called it is the only one, in every program
\* that spawns no threads.
THEOREM ExecsAlone == End!Spec /\ ExecsApart => ExecLeavesOne
<1>1. ExecsApart /\ [End!Next]_End!vars => ExecsApart'
  BY SameProgram DEF ExecsApart, End!Calls
<1>2. ASSUME EndInv, ExecsApart, NEW t \in Ending, End!ExecDone(t)
      PROVE  threads = <<t>> /\ freed = born \ {t}
  <2>1. ExecOK(t) /\ EndTypes /\ where[t] = "exec" /\ t \notin freed /\ ~panic /\ loop[t].i > loop[t].end
    BY <1>2 DEF EndInv, End!ExecDone, End!OnCpu
  <2>2. threads = <<t>>
    BY <2>1 DEF ExecOK
  <2>3. Range(<<t>>) = {t}
    BY SMT DEF Range
  <2>4. born \ freed = {t} /\ freed \subseteq born
    BY <2>1, <2>2, <2>3 DEF EndTypes
  <2> QED BY <2>2, <2>4
<1>3. EndInv /\ ExecsApart /\ [End!Next]_End!vars =>
        [\A t \in Ending : End!ExecDone(t) => threads = <<t>> /\ freed = born \ {t}]_End!vars
  BY <1>2
<1> QED BY <1>1, <1>3, EndAlways, PTL DEF End!Spec, ExecLeavesOne, End!ExecLeavesOne
=============================================================================
