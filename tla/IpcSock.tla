------------------------------- MODULE IpcSock -------------------------------
(***************************************************************************)
(* A CKIPC connection (net/ipcsock.cpp) after connect() and accept():      *)
(* sendto(), recvfrom(), poll() and disconnect() of its two ends, under    *)
(* awaitfs() (kernel/awaitfs.cpp), which waits with multi_wait().          *)
(*                                                                         *)
(* state.lock is held from the first test to the last update of each call  *)
(* (prepare_to_wait included), so each such stretch is one step; the       *)
(* wake-up of sendto() and the multi_wait() of awaitfs() come after it.    *)
(***************************************************************************)
EXTENDS Integers, Lists

CONSTANTS
  Clients, Servers,  \* the threads that use the two ends, two disjoint sets
  Pollers,           \* those that call awaitfs() first and never block in recvfrom()
  MaxMsgs,           \* bound: messages sent in each direction
  MaxSignals         \* bound: interruptions and timeouts

Threads == Clients \union Servers

States == {"for_server", "for_client"}
\* The state a thread sends through, and the one it receives from.
Tx(t) == IF t \in Servers THEN "for_client" ELSE "for_server"
Rx(t) == IF t \in Servers THEN "for_server" ELSE "for_client"

VARIABLES
  msgs, closed, wq,  \* of each state; wq with its head first
  open,              \* the ends whose file is open: "for_server" is the client's
  pc,                \* where each thread is
  blocked,           \* the threads in PS_INTERRUPTIBLE
  intr,              \* the threads that were interrupted or timed out
  sent, got,         \* history: messages sent and received, numbered by sent
  signals,           \* history: interruptions so far
  eof                \* history: the states recvfrom() returned 0 for

vars == <<msgs, closed, wq, open, pc, blocked, intr, sent, got, signals, eof>>
history == <<sent, got, signals, eof>>

Init ==
  /\ msgs = [s \in States |-> <<>>] /\ wq = msgs /\ got = msgs
  /\ closed = [s \in States |-> FALSE]
  /\ open = States
  /\ pc = [t \in Threads |-> "user"]
  /\ blocked = {} /\ intr = {} /\ eof = {}
  /\ sent = [s \in States |-> 0] /\ signals = 0

Run(t, from, to) == pc[t] = from /\ pc' = [pc EXCEPT ![t] = to]
\* The file of a thread's end is open; the call in progress keeps it so.
Call(t, to) == Tx(t) \in open /\ Run(t, "user", to)

Ready(s) == msgs[s] # <<>> \/ closed[s]

\* The entries a wake-up reaches: multi_wait() links exclusive ones, and at the
\* head like all others, and one of these ends the loop of wake_up_common().
Reached(s) ==
  LET excl == {i \in DOMAIN wq[s] : wq[s][i] \in Pollers}
  IN  IF excl = {} THEN wq[s] ELSE SubSeq(wq[s], 1, CHOOSE i \in excl : \A j \in excl : i <= j)

\* Wake the first threads of the queue, and take their entries out of it.
Wake(s, woken) ==
  /\ wq' = [wq EXCEPT ![s] = SubSeq(@, Len(woken) + 1, Len(@))]
  /\ blocked' = blocked \ Range(woken)

------------------------------------------------------------------------------
sendto(t) ==
  /\ Call(t, "wake_up") /\ ~closed[Tx(t)] /\ sent[Tx(t)] < MaxMsgs
  /\ sent' = [sent EXCEPT ![Tx(t)] = @ + 1]
  /\ msgs' = [msgs EXCEPT ![Tx(t)] = Append(@, sent'[Tx(t)])]
  /\ UNCHANGED <<closed, wq, open, blocked, intr, got, signals, eof>>

wake_up(t) ==
  /\ Run(t, "wake_up", "user") /\ Wake(Tx(t), Reached(Tx(t)))
  /\ UNCHANGED <<msgs, closed, open, intr, history>>

recvfrom(t) ==
  /\ Call(t, "recv")
  /\ UNCHANGED <<msgs, closed, wq, open, blocked, intr, history>>

\* Mutant of Receive: the test of closed comes first.
ReceiveClosedFirst(t) ==
  LET s == Rx(t) IN
  /\ pc[t] = "recv"
  /\ \/ /\ closed[s] /\ Run(t, "recv", "user")
        /\ eof' = eof \union {s}
        /\ UNCHANGED <<msgs, got, wq, blocked>>
     \/ /\ ~closed[s] /\ msgs[s] # <<>> /\ Run(t, "recv", "user")
        /\ msgs' = [msgs EXCEPT ![s] = Tail(@)]
        /\ got' = [got EXCEPT ![s] = Append(@, Head(msgs[s]))]
        /\ UNCHANGED <<wq, blocked, eof>>
     \/ /\ ~Ready(s) /\ t \in Pollers /\ Run(t, "recv", "user")
        /\ UNCHANGED <<msgs, got, wq, blocked, eof>>
     \/ /\ ~Ready(s) /\ t \notin Pollers /\ Run(t, "recv", "sleep")
        /\ wq' = [wq EXCEPT ![s] = <<t>> \o @]
        /\ blocked' = blocked \union {t}
        /\ UNCHANGED <<msgs, got, eof>>
  /\ UNCHANGED <<closed, open, intr, sent, signals>>

\* One round of the loop: take the first message, or leave it (MSG_IPC_QUERY, or
\* too small a buffer); or the end has been closed; or MSG_DONTWAIT, or
\* prepare_to_wait() before the lock is released.
Receive(t) ==
  LET s == Rx(t) IN
  /\ pc[t] = "recv"
  /\ \/ /\ msgs[s] # <<>> /\ Run(t, "recv", "user")
        /\ msgs' = [msgs EXCEPT ![s] = Tail(@)]
        /\ got' = [got EXCEPT ![s] = Append(@, Head(msgs[s]))]
        /\ UNCHANGED <<wq, blocked, eof>>
     \/ /\ msgs[s] # <<>> /\ Run(t, "recv", "user")
        /\ UNCHANGED <<msgs, got, wq, blocked, eof>>
     \/ /\ msgs[s] = <<>> /\ closed[s] /\ Run(t, "recv", "user")
        /\ eof' = eof \union {s}
        /\ UNCHANGED <<msgs, got, wq, blocked>>
     \/ /\ ~Ready(s) /\ t \in Pollers /\ Run(t, "recv", "user")
        /\ UNCHANGED <<msgs, got, wq, blocked, eof>>
     \/ /\ ~Ready(s) /\ t \notin Pollers /\ Run(t, "recv", "sleep")
        /\ wq' = [wq EXCEPT ![s] = <<t>> \o @]
        /\ blocked' = blocked \union {t}
        /\ UNCHANGED <<msgs, got, eof>>
  /\ UNCHANGED <<closed, open, intr, sent, signals>>

\* After ent.start(): ~wait_entry() takes the entry out if it is still queued.
Resume(t) ==
  /\ pc[t] \in {"sleep", "multi_wait"} /\ t \notin blocked
  /\ wq' = [wq EXCEPT ![Rx(t)] = Del(@, t)]
  /\ pc' = [pc EXCEPT ![t] = IF pc[t] = "sleep" /\ t \notin intr THEN "recv" ELSE "user"]
  /\ intr' = intr \ {t}
  /\ UNCHANGED <<msgs, closed, open, blocked, history>>

\* A signal, or for awaitfs() its timer; the thread's entry stays queued.
Interrupt(t) ==
  /\ t \in blocked /\ signals < MaxSignals
  /\ blocked' = blocked \ {t} /\ intr' = intr \union {t}
  /\ signals' = signals + 1
  /\ UNCHANGED <<msgs, closed, wq, open, pc, sent, got, eof>>

\* poll(), which names the queue in the poll_table and does not wait on it
awaitfs(t) ==
  /\ t \in Pollers /\ Call(t, IF Ready(Rx(t)) THEN "user" ELSE "poll")
  /\ UNCHANGED <<msgs, closed, wq, open, blocked, intr, history>>

multi_wait(t) ==
  /\ Run(t, "poll", "multi_wait")
  /\ wq' = [wq EXCEPT ![Rx(t)] = <<t>> \o @]
  /\ blocked' = blocked \union {t}
  /\ UNCHANGED <<msgs, closed, open, intr, history>>

\* Mutant of disconnect: nobody is woken.
disconnectQuiet(s) ==
  /\ s \in open /\ \A t \in Threads : Tx(t) = s => pc[t] = "user"
  /\ open' = open \ {s}
  /\ closed' = [closed EXCEPT ![s] = TRUE]
  /\ UNCHANGED <<msgs, pc, intr, wq, blocked, history>>

\* sock_close, with the last reference to the file of the end that sends to s
disconnect(s) ==
  /\ s \in open /\ \A t \in Threads : Tx(t) = s => pc[t] = "user"
  /\ open' = open \ {s}
  /\ closed' = [closed EXCEPT ![s] = TRUE]
  /\ Wake(s, wq[s])
  /\ UNCHANGED <<msgs, pc, intr, history>>

Step(t) == wake_up(t) \/ Receive(t) \/ Resume(t) \/ multi_wait(t)
Next ==
  \/ \E t \in Threads : Step(t) \/ sendto(t) \/ recvfrom(t) \/ awaitfs(t) \/ Interrupt(t)
  \/ \E s \in States : disconnect(s)

\* A runnable thread is scheduled; calls, signals and closing need not come.
Fairness == \A t \in Threads : WF_vars(Step(t))
Spec == Init /\ [][Next]_vars
LiveSpec == Spec /\ Fairness
------------------------------------------------------------------------------
\* recvfrom: 0 means the end of the stream: the other end was closed, and every
\* message it ever sent has been received, once and in the order of sendto().
EofIsEnd ==
  \A s \in States :
    /\ got[s] \o msgs[s] = [i \in 1..sent[s] |-> i]
    /\ s \in eof => closed[s] /\ Len(got[s]) = sent[s]

\* recvfrom, sendto, disconnect: a thread asleep in recvfrom() wakes up after a
\* message or the end of the connection, whenever it arrives.
ReaderIsWoken ==
  \A t \in Threads : (pc[t] = "sleep" /\ Ready(Rx(t))) ~> (pc[t] # "sleep")

\* awaitfs: a thread sleeps in it only while what it waits for is not there,
\* or its sender is about to wake it up.
AwaitSeesReady ==
  \A t \in Threads :
    pc[t] = "multi_wait" /\ t \in blocked /\ Ready(Rx(t))
      => \E u \in Threads : pc[u] = "wake_up" /\ Tx(u) = Rx(t)
=============================================================================
