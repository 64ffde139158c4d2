------------------------------ MODULE MCQueues ------------------------------
(***************************************************************************)
(* The queues that threads hand things over in, one in each behaviour: the *)
(* FIFO of pipes and terminals (FifoBuf), with a ring of three slots and   *)
(* calls for fewer and for more bytes than it holds, a connected CKIPC     *)
(* socket (IpcSock), with a client that polls and two server threads that  *)
(* block, and the linked list of a wait queue (ListHead), with three       *)
(* entries and two wakers.                                                 *)
(***************************************************************************)
EXTENDS FifoBuf

CONSTANTS
  Clients, Servers, Pollers, MaxMsgs, MaxSignals,
  Nodes, Wakers, TaskList

ASSUME ListAssumption == None \notin Nodes \union Wakers
ASSUME NodesAssumption ==
  Nodes \intersect Wakers = {} /\ TaskList \notin Nodes /\ "LIST_POISON" \notin Nodes \union {TaskList}

VARIABLES
  part,
  msgs, closed, wq, open, at, blocked, intr, sent, received, signals, eof,
  next, prev, qlock, todo, owner, list

MCWrites == {[n |-> 3, block |-> TRUE], [n |-> 1, block |-> FALSE]}
MCReads == {[n |-> 2, block |-> TRUE, timed |-> TRUE],
            [n |-> 1, block |-> FALSE, timed |-> FALSE]}

ipc == <<msgs, closed, wq, open, at, blocked, intr, sent, received, signals, eof>>
links == <<next, prev, qlock, todo, owner, list>>

Ipc == INSTANCE IpcSock WITH pc <- at, got <- received
List == INSTANCE ListHead WITH lock <- qlock, pc <- owner

MCInit ==
  /\ Init /\ Ipc!Init /\ List!Init
  /\ part \in {"FifoBuf", "IpcSock", "ListHead"}
  /\ part # "FifoBuf" => buffer = [s \in Slots |-> 0]

MCNext ==
  \/ part = "FifoBuf" /\ Next /\ UNCHANGED <<part, ipc, links>>
  \/ part = "IpcSock" /\ Ipc!Next /\ UNCHANGED <<part, vars, links>>
  \/ part = "ListHead" /\ List!Next /\ UNCHANGED <<part, vars, ipc>>

\* The fairness of FifoBuf!WriterSpec and IpcSock!LiveSpec, each for its part.
MCFairness ==
  /\ \A t \in Writers :
       /\ SF_vars(part = "FifoBuf" /\ WriteStep(t))
       /\ WF_vars(part = "FifoBuf" /\ Writing(t))
  /\ \A t \in Readers : SF_vars(part = "FifoBuf" /\ ReadStep(t))
  /\ \A t \in Closers : WF_vars(part = "FifoBuf" /\ CloseStep(t))
  /\ \A t \in Ipc!Threads : WF_ipc(part = "IpcSock" /\ Ipc!Step(t))

MCSpec == MCInit /\ [][MCNext]_<<part, vars, ipc, links>> /\ MCFairness
------------------------------------------------------------------------------
\* recvfrom: messages arrive once and in order, and 0 means there are no more.
EofIsEnd == Ipc!EofIsEnd

\* recvfrom, sendto, disconnect: a blocked reader is woken.
ReaderIsWoken == Ipc!ReaderIsWoken

\* list_head: the pointers are those of the list, and finish() may ask
\* is_empty_careful() without the lock.
ListIsExact == List!ListIsExact /\ List!NoStrayStore
=============================================================================
