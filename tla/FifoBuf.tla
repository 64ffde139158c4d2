------------------------------ MODULE FifoBuf ------------------------------
(***************************************************************************)
(* The byte FIFO under pipes, sockets, consoles and channels               *)
(* (kernel/fs/fifo_buf.cpp). Copying goes byte by byte under the lock; the *)
(* wait for data or space starts after the lock is released.               *)
(*                                                                         *)
(* The wait queues are those of WaitQueue.tla, taken at their word: being  *)
(* queued and being asleep start in one step, and a wake-up ends both.     *)
(***************************************************************************)
EXTENDS Integers, Sequences

CONSTANTS
  Writers, Readers, Closers,
  Bytes,
  Size,        \* m_size
  Writes,      \* the writes made: [n : bytes to write, block : BOOLEAN]
  Reads,       \* the reads made: [n : size of the buffer, block, timed : BOOLEAN]
  Signals,     \* may signals arrive?
  None         \* nobody holds the lock

Threads == Writers \union Readers \union Closers

ASSUME SizeAssumption == Size \in Nat \ {0}
ASSUME CallsAssumption ==
  /\ Writes \subseteq [n : Nat \ {0}, block : BOOLEAN]
  /\ Reads \subseteq [n : Nat \ {0}, block : BOOLEAN, timed : BOOLEAN]
ASSUME NoneAssumption == None \notin Threads

VARIABLES
  buffer, read_ptr, write_ptr,
  m_closed,
  lock,         \* the holder of fifo_buf::lock
  wq_readers, wq_writers,   \* the threads queued
  pc,
  op,           \* op[t]: the record of the call t is in
  left,         \* left[t]: the bytes a writer still has to write
  got,          \* got[t]: the bytes a reader collected (obuf)
  woke,         \* woke[t]: what ended the sleep of t
  ret           \* ret[t]: what the last call returned

ring == <<buffer, read_ptr, write_ptr>>
queues == <<wq_readers, wq_writers>>
vars == <<ring, m_closed, lock, queues, pc, op, left, got, woke, ret>>

EINTR == -4
EAGAIN == -11
ECONNRESET == -104
ETIMEDOUT == -110

Slots == 0..(Size - 1)
Locations == {"idle", "write", "fill", "wwait", "wsleep", "test", "read", "drain",
              "rwait", "rsleep", "close_r", "close_w"}
NoCall == [n |-> 0, block |-> FALSE, timed |-> FALSE]

\* Mutant of available: the slot that tells full from empty is given away.
availableAll ==
  IF read_ptr > write_ptr THEN read_ptr - write_ptr - 1 ELSE (Size - write_ptr) + read_ptr

available ==
  IF read_ptr = write_ptr THEN Size - 1
  ELSE IF read_ptr > write_ptr THEN read_ptr - write_ptr - 1
  ELSE (Size - write_ptr) + read_ptr - 1

unread ==
  IF read_ptr = write_ptr THEN 0
  ELSE IF read_ptr > write_ptr THEN (Size - read_ptr) + write_ptr
  ELSE write_ptr - read_ptr

increment(ptr) == IF ptr + 1 = Size THEN 0 ELSE ptr + 1

Init ==
  /\ buffer \in [Slots -> Bytes]
  /\ read_ptr = 0 /\ write_ptr = 0
  /\ m_closed = FALSE
  /\ lock = None
  /\ wq_readers = {} /\ wq_writers = {}
  /\ pc = [t \in Threads |-> "idle"]
  /\ op = [t \in Threads |-> NoCall]
  /\ left = [t \in Threads |-> <<>>]
  /\ got = [t \in Threads |-> <<>>]
  /\ woke = [t \in Threads |-> {}]
  /\ ret = [t \in Threads |-> 0]

Goto(t, to) == pc' = [pc EXCEPT ![t] = to]
Return(t, n) ==
  /\ Goto(t, "idle")
  /\ ret' = [ret EXCEPT ![t] = n]
  /\ op' = [op EXCEPT ![t] = NoCall]
Stay == UNCHANGED <<op, ret>>

\* wake_up_all(): the sleeper's entry leaves the queue, and a wake-up clears
\* the mark of an interruption the sleeper has not yet seen (sched::unblock).
Woken(sleepers) ==
  woke' = [t \in Threads |-> IF t \in sleepers THEN (woke[t] \ {"signal"}) \union {"queue"}
                             ELSE woke[t]]

Lock(t, from, to) ==
  /\ pc[t] = from /\ lock = None
  /\ lock' = t
  /\ Goto(t, to)
  /\ UNCHANGED <<ring, m_closed, queues, op, left, got, woke, ret>>

------------------------------------------------------------------------------
\* fifo_buf::write

write(t, w, data) ==
  /\ pc[t] = "idle"
  /\ op' = [op EXCEPT ![t] = [n |-> w.n, block |-> w.block, timed |-> FALSE]]
  /\ left' = [left EXCEPT ![t] = data]
  /\ ret' = [ret EXCEPT ![t] = 0]
  /\ Goto(t, "write")
  /\ UNCHANGED <<ring, m_closed, lock, queues, got, woke>>

Writing(t) == \E w \in Writes : \E data \in [1..w.n -> Bytes] : write(t, w, data)

Room == available > 0

Fill(t) ==
  /\ pc[t] = "fill" /\ Room /\ left[t] # <<>>
  /\ buffer' = [buffer EXCEPT ![write_ptr] = Head(left[t])]
  /\ write_ptr' = increment(write_ptr)
  /\ left' = [left EXCEPT ![t] = Tail(@)]
  /\ UNCHANGED <<read_ptr, m_closed, lock, queues, pc, op, got, woke, ret>>

\* Mutant of FillEnd: the readers are not woken.
FillEndSilent(t) ==
  /\ pc[t] = "fill" /\ ~(Room /\ left[t] # <<>>)
  /\ UNCHANGED <<woke, wq_readers>>
  /\ lock' = None
  /\ \/ ~op[t].block /\ Return(t, EAGAIN)
     \/ op[t].block /\ left[t] # <<>> /\ Goto(t, "wwait") /\ Stay
     \/ op[t].block /\ left[t] = <<>> /\ Return(t, op[t].n)
  /\ UNCHANGED <<ring, m_closed, wq_writers, left, got>>

\* Wake the readers, unlock; a write that may not block ends here.
FillEnd(t) ==
  /\ pc[t] = "fill" /\ ~(Room /\ left[t] # <<>>)
  /\ Woken(wq_readers) /\ wq_readers' = {}
  /\ lock' = None
  /\ \/ ~op[t].block /\ Return(t, EAGAIN)
     \/ op[t].block /\ left[t] # <<>> /\ Goto(t, "wwait") /\ Stay
     \/ op[t].block /\ left[t] = <<>> /\ Return(t, op[t].n)
  /\ UNCHANGED <<ring, m_closed, wq_writers, left, got>>

WriteWait(t) ==
  /\ pc[t] = "wwait"
  /\ wq_writers' = wq_writers \union {t}
  /\ Goto(t, "wsleep")
  /\ UNCHANGED <<ring, m_closed, lock, wq_readers, op, left, got, woke, ret>>

WriteWoken(t) ==
  LET written == op[t].n - Len(left[t]) IN
  /\ pc[t] = "wsleep" /\ woke[t] # {}
  /\ wq_writers' = wq_writers \ {t}
  /\ woke' = [woke EXCEPT ![t] = {}]
  /\ \/ "signal" \in woke[t] /\ Return(t, IF written > 0 THEN written ELSE EINTR)
     \/ "signal" \notin woke[t] /\ m_closed /\ Return(t, ECONNRESET)
     \/ "signal" \notin woke[t] /\ ~m_closed /\ Goto(t, "write") /\ Stay
  /\ UNCHANGED <<ring, m_closed, lock, wq_readers, left, got>>

------------------------------------------------------------------------------
\* fifo_buf::read

read(t, r) ==
  /\ pc[t] = "idle"
  /\ op' = [op EXCEPT ![t] = r]
  /\ got' = [got EXCEPT ![t] = <<>>]
  /\ ret' = [ret EXCEPT ![t] = 0]
  /\ Goto(t, IF r.block THEN "read" ELSE "test")
  /\ UNCHANGED <<ring, m_closed, lock, queues, left, woke>>

\* The test of a non-blocking read, in a critical section of its own.
ReadTest(t) ==
  /\ pc[t] = "test" /\ lock = None
  /\ \/ unread = 0 /\ Return(t, IF m_closed THEN 0 ELSE EAGAIN)
     \/ unread # 0 /\ Goto(t, "read") /\ Stay
  /\ UNCHANGED <<ring, m_closed, lock, queues, left, got, woke>>

More(t) == unread > 0 /\ Len(got[t]) < op[t].n

Drain(t) ==
  /\ pc[t] = "drain" /\ More(t)
  /\ got' = [got EXCEPT ![t] = Append(@, buffer[read_ptr])]
  /\ read_ptr' = increment(read_ptr)
  /\ UNCHANGED <<buffer, write_ptr, m_closed, lock, queues, pc, op, left, woke, ret>>

DrainEnd(t) ==
  /\ pc[t] = "drain" /\ ~More(t)
  /\ Woken(wq_writers) /\ wq_writers' = {}
  /\ lock' = None
  /\ \/ (~op[t].block \/ got[t] # <<>>) /\ Return(t, Len(got[t]))
     \/ op[t].block /\ got[t] = <<>> /\ Goto(t, "rwait") /\ Stay
  /\ UNCHANGED <<ring, m_closed, wq_readers, left, got>>

ReadWait(t) ==
  /\ pc[t] = "rwait"
  /\ wq_readers' = wq_readers \union {t}
  /\ Goto(t, "rsleep")
  /\ UNCHANGED <<ring, m_closed, lock, wq_writers, op, left, got, woke, ret>>

\* wait_timeout() asks its timer's queue first.
ReadWoken(t) ==
  /\ pc[t] = "rsleep" /\ woke[t] # {}
  /\ wq_readers' = wq_readers \ {t}
  /\ woke' = [woke EXCEPT ![t] = {}]
  /\ \/ "timer" \in woke[t] /\ Return(t, ETIMEDOUT)
     \/ woke[t] = {"signal"} /\ Return(t, EINTR)
     \/ woke[t] = {"queue"} /\ Goto(t, "read") /\ Stay
  /\ UNCHANGED <<ring, m_closed, lock, wq_writers, left, got>>

\* The sleep_waiter of wait_timeout() expires.
Timer(t) ==
  /\ pc[t] = "rsleep" /\ op[t].timed /\ "timer" \notin woke[t]
  /\ woke' = [woke EXCEPT ![t] = (@ \ {"signal"}) \union {"timer"}]
  /\ UNCHANGED <<ring, m_closed, lock, queues, pc, op, left, got, ret>>

\* A signal for a thread that is still asleep.
Signal(t) ==
  /\ Signals /\ pc[t] \in {"rsleep", "wsleep"} /\ woke[t] = {}
  /\ woke' = [woke EXCEPT ![t] = {"signal"}]
  /\ UNCHANGED <<ring, m_closed, lock, queues, pc, op, left, got, ret>>

------------------------------------------------------------------------------
\* fifo_buf::close, without the lock

close(t) ==
  /\ pc[t] = "idle" /\ ~m_closed
  /\ m_closed' = TRUE
  /\ Goto(t, "close_r")
  /\ UNCHANGED <<ring, lock, queues, op, left, got, woke, ret>>

CloseReaders(t) ==
  /\ pc[t] = "close_r"
  /\ Woken(wq_readers) /\ wq_readers' = {}
  /\ Goto(t, "close_w")
  /\ UNCHANGED <<ring, m_closed, lock, wq_writers, op, left, got, ret>>

CloseWriters(t) ==
  /\ pc[t] = "close_w"
  /\ Woken(wq_writers) /\ wq_writers' = {}
  /\ Return(t, 0)
  /\ UNCHANGED <<ring, m_closed, lock, wq_readers, left, got>>

WriteStep(t) ==
  \/ Lock(t, "write", "fill") \/ Fill(t) \/ FillEnd(t) \/ WriteWait(t) \/ WriteWoken(t)

ReadStep(t) ==
  \/ ReadTest(t) \/ Lock(t, "read", "drain") \/ Drain(t) \/ DrainEnd(t)
  \/ ReadWait(t) \/ ReadWoken(t)

CloseStep(t) == CloseReaders(t) \/ CloseWriters(t)

Next ==
  \/ \E t \in Writers :
       \/ Writing(t) \/ WriteStep(t) \/ Signal(t)
  \/ \E t \in Readers : (\E r \in Reads : read(t, r)) \/ ReadStep(t) \/ Timer(t) \/ Signal(t)
  \/ \E t \in Closers : close(t) \/ CloseStep(t)

Spec == Init /\ [][Next]_vars

\* The scheduler runs every thread, and whoever keeps trying the test-and-set
\* lock wins it in the end. Nobody has to start a call.
Fairness ==
  /\ \A t \in Writers : SF_vars(WriteStep(t))
  /\ \A t \in Readers : SF_vars(ReadStep(t))
  /\ \A t \in Closers : WF_vars(CloseStep(t))

LiveSpec == Spec /\ Fairness

\* Writers that never stop calling, a keyboard in use for instance.
WriterSpec == LiveSpec /\ \A t \in Writers : WF_vars(Writing(t))
------------------------------------------------------------------------------
TypeOK ==
  /\ buffer \in [Slots -> Bytes]
  /\ read_ptr \in Slots /\ write_ptr \in Slots
  /\ m_closed \in BOOLEAN
  /\ lock \in Threads \union {None}
  /\ wq_readers \subseteq Readers /\ wq_writers \subseteq Writers
  /\ pc \in [Threads -> Locations]
  /\ op \in [Threads -> [n : Nat, block : BOOLEAN, timed : BOOLEAN]]
  /\ left \in [Threads -> Seq(Bytes)]
  /\ got \in [Threads -> Seq(Bytes)]
  /\ woke \in [Threads -> SUBSET {"queue", "timer", "signal"}]
  /\ ret \in [Threads -> Int]

\* The bytes between the two pointers.
Nth(i) == IF read_ptr + i <= Size THEN read_ptr + i - 1 ELSE read_ptr + i - 1 - Size
Contents == [i \in 1..unread |-> buffer[Nth(i)]]

Queue == INSTANCE ByteQueue WITH contents <- Contents, Capacity <- Size - 1

\* The ring buffer with its two pointers, filled and drained by any number of
\* writers and readers that block, time out or are interrupted, is a bounded
\* queue of bytes: none is lost, duplicated, reordered or given to two readers.
ImplementsByteQueue == Queue!Spec

\* A reader that slept through a write, having found the FIFO empty before it
\* and joined wq_readers after it, is woken by the next one, unless there is no
\* next one: the writers can have filled the ring and gone to sleep for good.
NextWriteWakes ==
  \A t \in Readers :
    pc[t] = "rsleep" ~> pc[t] # "rsleep" \/ [](\A w \in Writers : pc[w] = "wsleep")

\* chan::recv() is to "sit and wait on data to be recv'd": while there are
\* bytes in the FIFO its reader does not stay asleep.
DataIsReceived == \A t \in Readers : pc[t] = "rsleep" /\ unread > 0 ~> pc[t] # "rsleep" \/ unread = 0

\* chan::recv() panics unless its read returned sizeof(T) bytes, here the two
\* of Recvs.
RecvIsWhole ==
  \A t \in Readers : pc[t] = "idle" /\ ret[t] > 0 => \E r \in Reads : ret[t] = r.n

\* EAGAIN stands for "Resource temporarily unavailable": a write that returns
\* it was refused some byte.
AgainMeansUnavailable ==
  \A t \in Writers : pc[t] = "idle" /\ ret[t] = EAGAIN => left[t] # <<>>
=============================================================================
