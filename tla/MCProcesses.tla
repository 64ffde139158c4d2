---------------------------- MODULE MCProcesses ----------------------------
(***************************************************************************)
(* The ends of threads and of processes, one of the two in each behaviour: *)
(* the threads of one process that end, join, or call execve (ThreadEnd),  *)
(* and init with two threads and two further processes, each forked by     *)
(* init or by the other, that exit and are waited for (Waitpid).           *)
(***************************************************************************)
EXTENDS Waitpid, TLC

CONSTANTS
  Ending, Programs,  \* the threads and the programs of ThreadEnd
  t1, t2, t3, a, b, a1, b1

VARIABLES part, prog, threads, born, freed, state, place, where, should_die, rudely, datalock,
          joinlock, target, joiners, loop, reaper, published, panic

Program(n, calls, callers) ==
  [first |-> SubSeq(<<t1, t2, t3>>, 1, n), calls |-> calls, callers |-> callers]

\* Three threads end their process, beside system calls that block, and without
\* any, so that the end must come; two threads, a third one spawned, and joins;
\* two threads that may join the same one; execve in a process of two threads.
MCPrograms ==
  {Program(3, {"exit_thread", "exit_proc", "block", "reap"}, {}),
   Program(3, {"exit_thread", "exit_proc"}, {}),
   Program(2, {"exit_thread", "spawnthread", "jointhread", "block"}, {t1}),
   Program(3, {"exit_thread", "jointhread"}, {t1, t2}),
   Program(2, {"exit_thread", "execve", "block"}, {t1})}

\* t1 and t2 are the threads of init in the other part.
MCOwner == t1 :> init @@ t2 :> init @@ a1 :> a @@ b1 :> b

ending == <<prog, threads, born, freed, state, place, where, should_die, rudely, datalock,
            joinlock, target, joiners, loop, reaper, published, panic>>
End == INSTANCE ThreadEnd WITH
  pc <- where, rude <- rudely, Threads <- Ending

ASSUME ProgramsAssumption == End!ProgramsOK

all == <<part, vars, ending>>

MCInit ==
  /\ part \in {"ThreadEnd", "Waitpid"} /\ Init /\ End!Init
  /\ part = "Waitpid" => prog = Program(3, {"exit_thread", "exit_proc"}, {})

MCNext ==
  \/ part = "ThreadEnd" /\ End!Next /\ UNCHANGED <<part, vars>>
  \/ part = "Waitpid" /\ Next /\ UNCHANGED <<part, ending>>

\* The fairness of ThreadEnd!LiveSpec and Waitpid!LiveSpec, each for its part.
InKernel(t) ==
  \/ part = "ThreadEnd" /\ End!Kernel(t) /\ UNCHANGED <<part, vars>>
  \/ /\ part = "Waitpid" /\ t \in {t1, t2}
     /\ do_waitpid(t, ANY, FALSE) /\ UNCHANGED <<part, ending>>

MCFairness ==
  /\ \A t \in Ending :
       /\ WF_ending(part = "ThreadEnd" /\ End!Scheduler(t))
       /\ SF_all(InKernel(t))
       /\ WF_ending(part = "ThreadEnd" /\ End!Kill(t))
  /\ \A p \in Procs : WF_vars(part = "Waitpid" /\ Exiting(p))
  /\ \A t \in Threads : WF_vars(part = "Waitpid" /\ Waiting(t))

MCSpec == MCInit /\ [][MCNext]_all /\ MCFairness
------------------------------------------------------------------------------
\* assert(p->is_dead()) of reap(): a published process has only dead threads.
DeadWhenPublished == End!DeadWhenPublished

\* jointhread: a thread that is about to be torn down is dead.
JoinedIsDead == End!JoinedIsDead

\* exit_proc: the process is published if none of its threads blocks.
ExitFinishes == End!ExitFinishes

\* execve: the thread that called is the only one left.
ExecLeavesOne == End!ExecLeavesOne
=============================================================================
