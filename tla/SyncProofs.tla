----------------------------- MODULE SyncProofs -----------------------------
(***************************************************************************)
(* Proofs about what threads synchronise with: the rwlock (RWLock), the    *)
(* condvar under the semaphore (Semaphore) and the lists of sleepers       *)
(* (Sleep), each for any number of threads. A part's theorem is about its  *)
(* own specification, as the behaviours of MCSync instantiate it.          *)
(***************************************************************************)
EXTENDS SyncParts, ListLemmas, FiniteSetTheorems, TLAPS

\* A step is for Zenon unless it names another prover.
USE Zenon

------------------------------------------------------------------------------
(* RWLock *)

\* The set of counted readers is finite and no larger than the set of threads.
LEMMA CountedFinite ==
  /\ IsFiniteSet(Counted)
  /\ Cardinality(Counted) \in Nat
  /\ Cardinality(Counted) <= Cardinality(Threads)
<1>1. Counted \subseteq Threads
  BY DEF Counted
<1>2. QED
  BY <1>1, ThreadsAssumption, FS_Subset, FS_CardinalityType

\* A step that moves one thread into the counted locations adds one to the
\* cardinality of the counted set, and one that moves it out subtracts one.
LEMMA CountedStep ==
  ASSUME NEW t \in Threads
  PROVE  /\ Counted' = Counted \cup {t} /\ t \notin Counted =>
              Cardinality(Counted') = Cardinality(Counted) + 1
         /\ Counted' = Counted \ {t} /\ t \in Counted =>
              Cardinality(Counted') = Cardinality(Counted) - 1
BY CountedFinite, FS_AddElement, FS_RemoveElement, SMT

\* The inductive invariant holds initially: nobody is counted and nobody holds
\* m_lock.
LEMMA InitIInv == Init => IInv
<1> SUFFICES ASSUME Init PROVE IInv
  OBVIOUS
<1>1. Counted = {}
  BY DEF Init, Counted
<1>2. Cardinality(Counted) = 0
  BY <1>1, FS_EmptySet
<1>3. Wrap \in Nat \ {0}
  BY WrapAssumption, ThreadsAssumption, FS_CardinalityType, SMT
<1>4. QED
  BY <1>2, <1>3, SMT DEF Init, IInv, TypeOK, OneHolder, Holding, ReadersExact, Locations

\* Every step keeps the inductive invariant.
LEMMA NextIInv == IInv /\ [Next]_vars => IInv'
<1> SUFFICES ASSUME IInv, [Next]_vars PROVE IInv'
  OBVIOUS
<1> USE DEF IInv, TypeOK, OneHolder, ReadersExact, Holding, Locations, Goto
<1>1. CASE UNCHANGED vars
  <2>1. Counted' = Counted
    BY <1>1 DEF vars, Counted
  <2>2. QED
    BY <1>1, <2>1 DEF vars
<1>2. ASSUME NEW t \in Threads, Call(t)
      PROVE  IInv'
  <2>1. Counted' = Counted
    BY <1>2 DEF Call, Counted
  <2>2. QED
    BY <1>2, <2>1, SMT DEF Call
<1>3. ASSUME NEW t \in Threads, ReadLock(t)
      PROVE  IInv'
  <2>1. CASE SpinLock(t, "r_spin", "r_inc")
    <3>1. Counted' = Counted
      BY <2>1 DEF SpinLock, Counted
    <3>2. QED
      BY <2>1, <3>1, SMT DEF SpinLock
  <2>2. CASE /\ Goto(t, "r_inc", "r_unlock")
             /\ readers' = (readers + 1) % Wrap
             /\ UNCHANGED locked
    <3>1. Counted' = Counted \cup {t} /\ t \notin Counted
      BY <2>2 DEF Counted
    <3>2. Cardinality(Counted') = readers + 1
      BY <3>1, CountedStep
    <3>3. Cardinality(Counted') <= Cardinality(Threads)
      <4>1. Counted' \subseteq Threads
        BY DEF Counted
      <4>2. QED
        BY <4>1, ThreadsAssumption, FS_Subset
    <3>4. readers' = readers + 1 /\ readers + 1 \in 0..(Wrap - 1)
      BY <2>2, <3>2, <3>3, WrapAssumption, ThreadsAssumption, FS_CardinalityType, SMT
    <3>5. QED
      BY <2>2, <3>2, <3>4
  <2>3. CASE SpinUnlock(t, "r_unlock", "reading")
    <3>1. Counted' = Counted
      BY <2>3 DEF SpinUnlock, Counted
    <3>2. QED
      BY <2>3, <3>1, SMT DEF SpinUnlock
  <2>4. QED
    BY <1>3, <2>1, <2>2, <2>3 DEF ReadLock
<1>4. ASSUME NEW t \in Threads, ReadUnlock(t)
      PROVE  IInv'
  <2>1. CASE SpinLock(t, "ru_spin", "ru_dec")
    <3>1. Counted' = Counted
      BY <2>1 DEF SpinLock, Counted
    <3>2. QED
      BY <2>1, <3>1, SMT DEF SpinLock
  <2>2. CASE /\ Goto(t, "ru_dec", "ru_unlock")
             /\ readers' = (readers + Wrap - 1) % Wrap
             /\ UNCHANGED locked
    <3>1. Counted' = Counted \ {t} /\ t \in Counted
      BY <2>2 DEF Counted
    <3>2. Cardinality(Counted') = readers - 1
      BY <3>1, CountedStep
    <3>3. readers > 0
      <4>1. Cardinality(Counted) # 0
        BY <3>1, CountedFinite, FS_EmptySet
      <4>2. QED
        BY <4>1, CountedFinite, SMT
    <3>4. readers' = readers - 1 /\ readers - 1 \in 0..(Wrap - 1)
      <4>1. readers + Wrap - 1 = (readers - 1) + Wrap /\ readers - 1 \in 0..(Wrap - 1)
        BY <3>3, WrapAssumption, SMT
      <4>2. ((readers - 1) + Wrap) % Wrap = readers - 1
        BY <4>1, WrapAssumption, SMT
      <4>3. QED
        BY <2>2, <4>1, <4>2
    <3>5. QED
      BY <2>2, <3>2, <3>4
  <2>3. CASE SpinUnlock(t, "ru_unlock", "idle")
    <3>1. Counted' = Counted
      BY <2>3 DEF SpinUnlock, Counted
    <3>2. QED
      BY <2>3, <3>1, SMT DEF SpinUnlock
  <2>4. QED
    BY <1>4, <2>1, <2>2, <2>3 DEF ReadUnlock
<1>5. ASSUME NEW t \in Threads, WriteLock(t) \/ WriteUnlock(t)
      PROVE  IInv'
  <2>1. Counted' = Counted
    BY <1>5 DEF WriteLock, WriteUnlock, SpinLock, SpinUnlock, Counted
  <2>2. QED
    BY <1>5, <2>1, SMT DEF WriteLock, WriteUnlock, SpinLock, SpinUnlock
<1>6. QED
  BY <1>1, <1>2, <1>3, <1>4, <1>5 DEF Next, Step

\* Nobody is counted while a writer is inside, so nobody is reading.
LEMMA IInvExcludes == IInv => WriterExcludesAll
<1> SUFFICES ASSUME IInv,
                    NEW t \in Threads, NEW u \in Threads, t # u, pc[t] = "writing"
             PROVE  pc[u] \notin {"writing", "reading"}
  BY DEF WriterExcludesAll
<1>1. pc[u] # "writing"
  BY DEF IInv, OneHolder, Holding
<1>2. Counted = {}
  BY CountedFinite, FS_EmptySet DEF IInv, ReadersExact
<1>3. QED
  BY <1>1, <1>2 DEF Counted

\* rwlock::write_lock returns only to a thread that has the lock to itself, for
\* any number of threads.
THEOREM WriterExclusion == Spec => []WriterExcludesAll
BY InitIInv, NextIInv, IInvExcludes, PTL DEF Spec

\* m_readers is always the number of readers: rwlock::read_unlock never wraps
\* the unsigned count.
THEOREM ReaderCount == Spec => [](TypeOK /\ ReadersExact /\ OneHolder)
<1>1. IInv => TypeOK /\ ReadersExact /\ OneHolder
  BY DEF IInv
<1>2. QED
  BY <1>1, InitIInv, NextIInv, PTL DEF Spec

------------------------------------------------------------------------------
(* Semaphore *)

\* Where a thread is that nwaiters counts, and where one that is in the queue.
InWait == {"prepare", "unlock", "look", "relock", "finish", "test", "i_lock", "i_leave"}
InQueue == {"unlock", "look", "relock", "finish"}
Places == Sema!Waiting \union Sema!Posting \union {"idle"}
Inside == {t \in Waiters : where[t] \in InWait}

\* The inductive invariant. A thread in the queue is inside wait() and has not
\* been told of a signal, and if no wakeup came since it began to wait, it was
\* counted by main_seq.
SemaInv ==
  /\ main_seq \in Nat /\ wakeup_seq \in Nat /\ woken_seq \in Nat
  /\ seq \in [Sema!Callers -> Nat] /\ where \in [Sema!Callers -> Places]
  /\ woken_seq <= wakeup_seq /\ wakeup_seq <= main_seq
  /\ nwaiters = Cardinality(Inside) /\ nwaiters <= main_seq - woken_seq
  /\ \A t \in wq : t \in Waiters /\ where[t] \in InQueue /\ t \notin intr
  /\ \A t \in Inside : seq[t] < wakeup_seq \/ (seq[t] = wakeup_seq /\ main_seq > wakeup_seq)

\* The invariant gives the property.
LEMMA SeqsHold == SemaInv => SeqsInOrder
<1> SUFFICES ASSUME SemaInv PROVE SeqsInOrder
  OBVIOUS
<1>1. Sema!Cardinality(Inside) = Cardinality(Inside)
  BY DEF Sema!Cardinality, Cardinality, Sema!IsFiniteSet, IsFiniteSet
<1>2. \A t \in wq : t \in Inside
  BY DEF SemaInv, Inside, InQueue, InWait
<1>3. \A t \in wq : seq[t] = wakeup_seq => main_seq > wakeup_seq
  <2>1. \A t \in wq : seq[t] \in Nat
    BY DEF SemaInv, Sema!Callers
  <2> QED BY <1>2, <2>1, SMT DEF SemaInv
<1> QED BY <1>1, <1>3 DEF SeqsInOrder, Sema!SeqsInOrder, SemaInv, Inside, InWait

\* The threads inside wait() can be counted.
LEMMA InsideCounts == /\ IsFiniteSet(Inside) /\ Cardinality(Inside) \in Nat
                      /\ \A t \in Inside : Cardinality(Inside \ {t}) = Cardinality(Inside) - 1
                      /\ \A t : t \notin Inside => Cardinality(Inside \union {t}) = Cardinality(Inside) + 1
<1>1. IsFiniteSet(Inside)
  BY WaitersAssumption, FS_Subset DEF Inside
<1> QED BY <1>1, FS_CardinalityType, FS_RemoveElement, FS_AddElement

\* A step of t that neither takes it into wait() nor out of it, and leaves the
\* sequence numbers alone.
LEMMA QuietSema ==
  ASSUME SemaInv, NEW t \in Sema!Callers, NEW to \in Places,
         where' = [where EXCEPT ![t] = to], where[t] \in InWait <=> to \in InWait,
         UNCHANGED <<main_seq, wakeup_seq, woken_seq, nwaiters, seq>>,
         \A u \in wq' : u \in Waiters /\ where'[u] \in InQueue /\ u \notin intr'
  PROVE  SemaInv'
<1>1. Inside' = Inside
  BY DEF SemaInv, Inside, Sema!Callers
<1>2. where' \in [Sema!Callers -> Places]
  BY DEF SemaInv
<1> QED BY <1>1, <1>2 DEF SemaInv

\* semaphore::wait and condvar::wait preserve the invariant.
LEMMA WaiterSteps ==
  ASSUME SemaInv, NEW t \in Waiters, Sema!wait(t) \/ Sema!WaitStep(t)
  PROVE  SemaInv'
<1>0. t \in Sema!Callers
  BY DEF Sema!Callers
<1>a. ASSUME NEW from \in Places, NEW to \in Places,
             Sema!Lock(t, from, to) \/ Sema!CLock(t, from, to) \/ Sema!CUnlock(t, from, to),
             from \in InWait <=> to \in InWait, from \in InQueue => to \in InQueue
      PROVE  SemaInv'
  <2>1. /\ where[t] = from /\ where' = [where EXCEPT ![t] = to]
        /\ UNCHANGED <<main_seq, wakeup_seq, woken_seq, nwaiters, seq, wq, intr>>
    BY <1>a DEF Sema!Lock, Sema!CLock, Sema!CUnlock, Sema!Run, Sema!seqs, Sema!sched
  <2>2. \A u \in wq' : u \in Waiters /\ where'[u] \in InQueue /\ u \notin intr'
    BY <1>0, <1>a, <2>1 DEF SemaInv, Sema!Callers
  <2> QED BY <1>0, <1>a, <2>1, <2>2, QuietSema
<1>b. ASSUME NEW to \in Places, where' = [where EXCEPT ![t] = to],
             where[t] \in InWait <=> to \in InWait, where[t] \in InQueue => to \in InQueue \/ t \in intr,
             UNCHANGED <<main_seq, wakeup_seq, woken_seq, nwaiters, seq, wq, intr>>
      PROVE  SemaInv'
  <2>2. \A u \in wq' : u \in Waiters /\ where'[u] \in InQueue /\ u \notin intr'
    BY <1>0, <1>b DEF SemaInv, Sema!Callers
  <2> QED BY <1>0, <1>b, <2>2, QuietSema
<1> USE DEF Sema!Run, Sema!seqs, Sema!sched
<1>1. CASE Sema!wait(t)
  BY <1>1, <1>b DEF Sema!wait, Places, Sema!Waiting, InWait, InQueue
<1>2. CASE \/ Sema!Lock(t, "s_lock", "s_test") \/ Sema!CLock(t, "c_lock", "c_enter")
           \/ Sema!CUnlock(t, "unlock", "look") \/ Sema!CLock(t, "relock", "finish")
           \/ Sema!CUnlock(t, "leave", "s_relock") \/ Sema!Lock(t, "s_relock", "s_test")
           \/ Sema!CLock(t, "i_lock", "i_leave") \/ Sema!Lock(t, "i_relock", "i_end")
  <2>1. /\ {"s_lock", "s_test", "c_lock", "c_enter", "unlock", "look", "relock", "finish", "leave",
            "s_relock", "i_lock", "i_leave", "i_relock", "i_end"} \subseteq Places
        /\ {"unlock", "look", "relock", "finish"} \subseteq InQueue
        /\ {"unlock", "look", "relock", "finish", "i_lock", "i_leave"} \subseteq InWait
        /\ \A p \in {"s_lock", "s_test", "c_lock", "c_enter", "leave", "s_relock", "i_relock",
                     "i_end"} : p \notin InWait /\ p \notin InQueue
        /\ "i_lock" \notin InQueue
    BY DEF Places, Sema!Waiting, InWait, InQueue
  <2> QED BY <1>2, <1>a, <2>1
<1>3. CASE Sema!TestValue(t)
  BY <1>3, <1>b DEF Sema!TestValue, Places, Sema!Waiting, InWait, InQueue
<1>4. CASE Sema!Enter(t)
  <2>1. /\ where[t] = "c_enter" /\ where' = [where EXCEPT ![t] = "prepare"]
        /\ nwaiters' = nwaiters + 1 /\ main_seq' = main_seq + 1
        /\ seq' = [seq EXCEPT ![t] = wakeup_seq] /\ UNCHANGED <<wakeup_seq, woken_seq, wq, intr>>
    BY <1>4 DEF Sema!Enter
  <2>2. Inside' = Inside \union {t} /\ t \notin Inside
    BY <1>0, <2>1 DEF SemaInv, Inside, InWait, Sema!Callers
  <2>3. Cardinality(Inside') = Cardinality(Inside) + 1 /\ Cardinality(Inside) \in Nat
    BY <2>2, InsideCounts
  <2>4. where' \in [Sema!Callers -> Places] /\ seq' \in [Sema!Callers -> Nat]
    BY <2>1 DEF SemaInv, Places, Sema!Waiting
  <2>5. \A u \in wq' : u \in Waiters /\ where'[u] \in InQueue /\ u \notin intr'
    BY <1>0, <2>1 DEF SemaInv, InQueue, Sema!Callers
  <2>6. \A u \in Inside' : seq'[u] < wakeup_seq' \/ (seq'[u] = wakeup_seq' /\ main_seq' > wakeup_seq')
    <3>1. \A u \in Inside : u \in Sema!Callers
      BY DEF Inside, Sema!Callers
    <3>2. \A u \in Inside : seq[u] \in Nat
      BY <3>1 DEF SemaInv
    <3> QED BY <1>0, <2>1, <2>2, <3>1, <3>2, SMT DEF SemaInv
  <2> QED BY <2>1, <2>3, <2>4, <2>5, <2>6, SMT DEF SemaInv
<1>5. CASE Sema!Prepare(t)
  <2>1. /\ where[t] = "prepare" /\ where' = [where EXCEPT ![t] = "unlock"]
        /\ wq' = wq \union {t} /\ intr' = intr \ {t}
        /\ UNCHANGED <<main_seq, wakeup_seq, woken_seq, nwaiters, seq>>
    BY <1>5 DEF Sema!Prepare
  <2>2. \A u \in wq' : u \in Waiters /\ where'[u] \in InQueue /\ u \notin intr'
    BY <1>0, <2>1 DEF SemaInv, InQueue, Sema!Callers
  <2> QED BY <1>0, <2>1, <2>2, QuietSema DEF InWait, Places, Sema!Waiting
<1>6. CASE Sema!Look(t)
  BY <1>6, <1>b DEF Sema!Look, Places, Sema!Waiting, InWait, InQueue
<1>7. CASE Sema!Finish(t)
  <2>1. /\ where[t] = "finish" /\ where' = [where EXCEPT ![t] = "test"]
        /\ wq' = wq \ {t} /\ UNCHANGED <<main_seq, wakeup_seq, woken_seq, nwaiters, seq, intr>>
    BY <1>7 DEF Sema!Finish
  <2>2. \A u \in wq' : u \in Waiters /\ where'[u] \in InQueue /\ u \notin intr'
    BY <1>0, <2>1 DEF SemaInv, Sema!Callers
  <2> QED BY <1>0, <2>1, <2>2, QuietSema DEF InWait, Places, Sema!Waiting
<1>8. ASSUME where[t] \in InWait \ InQueue, NEW to \in Places \ InWait, NEW n \in 0..1,
             where' = [where EXCEPT ![t] = to], nwaiters' = nwaiters - 1,
             woken_seq' = woken_seq + n, woken_seq + n <= wakeup_seq,
             UNCHANGED <<main_seq, wakeup_seq, seq, wq, intr>>
      PROVE  SemaInv'
  <2>1. Inside' = Inside \ {t} /\ t \in Inside
    BY <1>0, <1>8 DEF SemaInv, Inside, Sema!Callers
  <2>2. Cardinality(Inside') = Cardinality(Inside) - 1 /\ Cardinality(Inside) \in Nat
    BY <2>1, InsideCounts
  <2>3. where' \in [Sema!Callers -> Places]
    BY <1>8 DEF SemaInv
  <2>4. \A u \in wq' : u \in Waiters /\ where'[u] \in InQueue /\ u \notin intr'
    BY <1>0, <1>8 DEF SemaInv, Sema!Callers
  <2>5. \A u \in Inside' : seq'[u] < wakeup_seq' \/ (seq'[u] = wakeup_seq' /\ main_seq' > wakeup_seq')
    BY <1>8, <2>1 DEF SemaInv
  <2>6. woken_seq' \in Nat /\ nwaiters' <= main_seq' - woken_seq'
    BY <1>8, <2>2, SMT DEF SemaInv
  <2> QED BY <1>8, <2>2, <2>3, <2>4, <2>5, <2>6 DEF SemaInv
<1>9. CASE Sema!IntrLeave(t)
  <2>1. "i_leave" \in InWait \ InQueue /\ "i_relock" \in Places \ InWait
    BY DEF InWait, InQueue, Places, Sema!Waiting
  <2>2. woken_seq' = woken_seq + 0 /\ woken_seq + 0 <= wakeup_seq
    BY <1>9, SMT DEF Sema!IntrLeave, SemaInv
  <2>3. /\ where[t] = "i_leave" /\ where' = [where EXCEPT ![t] = "i_relock"]
        /\ nwaiters' = nwaiters - 1 /\ UNCHANGED <<main_seq, wakeup_seq, seq, wq, intr>>
    BY <1>9 DEF Sema!IntrLeave
  <2>4. 0 \in 0..1
    BY SMT
  <2> QED BY <1>8, <2>1, <2>2, <2>3, <2>4
<1>10. CASE Sema!IntrEnd(t)
  BY <1>10, <1>b DEF Sema!IntrEnd, Places, InWait, InQueue
<1>11. CASE Sema!TestSeq(t)
  <2>1. CASE Sema!Run(t, "test", "prepare") /\ UNCHANGED <<Sema!seqs, wq, intr, seq>>
    BY <1>b, <2>1 DEF Places, Sema!Waiting, InWait, InQueue
  <2>2. CASE /\ wakeup_seq # woken_seq /\ Sema!Run(t, "test", "leave")
             /\ woken_seq' = woken_seq + 1 /\ nwaiters' = nwaiters - 1
             /\ UNCHANGED <<main_seq, wakeup_seq, seq, wq, intr>>
    <3>1. "test" \in InWait \ InQueue /\ "leave" \in Places \ InWait
      BY DEF InWait, InQueue, Places, Sema!Waiting
    <3>2. woken_seq + 1 <= wakeup_seq
      BY <2>2, SMT DEF SemaInv
    <3>3. 1 \in 0..1
      BY SMT
    <3> QED BY <1>8, <2>2, <3>1, <3>2, <3>3
  <2> QED BY <1>11, <2>1, <2>2 DEF Sema!TestSeq
<1> QED BY <1>1, <1>2, <1>3, <1>4, <1>5, <1>6, <1>7, <1>9, <1>10, <1>11 DEF Sema!WaitStep

\* semaphore::post and condvar::signal preserve it.
LEMMA PosterSteps ==
  ASSUME SemaInv, NEW t \in Posters, Sema!post(t) \/ Sema!PostStep(t)
  PROVE  SemaInv'
<1>0. t \in Sema!Callers /\ t \notin Waiters
  BY WaitersAssumption DEF Sema!Callers
<1> USE DEF Sema!Run, Sema!seqs, Sema!sched
<1>1. PICK from \in Sema!Posting \union {"idle"}, to \in Sema!Posting \union {"idle"} :
        where[t] = from /\ where' = [where EXCEPT ![t] = to]
  BY DEF Sema!post, Sema!PostStep, Sema!Lock, Sema!AddValue, Sema!CLock, Sema!signal,
         Sema!CUnlock, Sema!PostEnd, Sema!Posting
<1>2. /\ from \notin InWait /\ to \notin InWait /\ to \in Places
      /\ \A u \in Waiters : where'[u] = where[u]
  BY <1>0, <1>1 DEF SemaInv, InWait, Places, Sema!Posting, Sema!Callers
<1>3. CASE UNCHANGED <<main_seq, wakeup_seq, woken_seq, nwaiters, seq, wq, intr>>
  <2>1. \A u \in wq' : u \in Waiters /\ where'[u] \in InQueue /\ u \notin intr'
    BY <1>2, <1>3 DEF SemaInv
  <2> QED BY <1>0, <1>1, <1>2, <1>3, <2>1, QuietSema
<1>4. CASE /\ main_seq > wakeup_seq /\ wakeup_seq' = wakeup_seq + 1 /\ wq' = {}
           /\ UNCHANGED <<main_seq, woken_seq, nwaiters, seq>>
  <2>1. Inside' = Inside
    BY <1>2 DEF Inside
  <2>2. \A u \in Inside : seq[u] \in Nat
    BY DEF SemaInv, Inside, Sema!Callers
  <2>3. where' \in [Sema!Callers -> Places]
    BY <1>1, <1>2 DEF SemaInv
  <2> QED BY <1>4, <2>1, <2>2, <2>3, SMT DEF SemaInv
<1> QED BY <1>3, <1>4 DEF Sema!post, Sema!PostStep, Sema!Lock, Sema!AddValue, Sema!CLock,
                         Sema!signal, Sema!CUnlock, Sema!PostEnd

\* However many threads wait, post, are interrupted or lose the CPU at a bad
\* moment, signal() never takes the queue to be empty while one waits in it.
THEOREM SignalCounts == Sema!Spec => []SeqsInOrder
<1>1. Sema!Init => SemaInv
  <2> SUFFICES ASSUME Sema!Init PROVE SemaInv
    OBVIOUS
  <2>1. Inside = {}
    BY DEF Sema!Init, Inside, InWait, Sema!Callers
  <2>2. Cardinality(Inside) = 0
    BY <2>1, FS_EmptySet
  <2> QED BY <2>1, <2>2, SMT DEF Sema!Init, SemaInv, Places
<1>2. SemaInv /\ [Sema!Next]_(Sema!vars) => SemaInv'
  <2> SUFFICES ASSUME SemaInv, [Sema!Next]_(Sema!vars) PROVE SemaInv'
    OBVIOUS
  <2>1. ASSUME UNCHANGED <<main_seq, wakeup_seq, woken_seq, nwaiters, seq, where, wq, intr>>
        PROVE  SemaInv'
    BY <2>1 DEF SemaInv, Inside
  <2>2. CASE UNCHANGED Sema!vars
    BY <2>1, <2>2 DEF Sema!vars, Sema!seqs, Sema!sched
  <2>3. ASSUME NEW t \in Waiters, Sema!Tick(t) \/ Sema!Interrupt(t) PROVE SemaInv'
    BY <2>1, <2>3 DEF Sema!Tick, Sema!Interrupt, Sema!seqs
  <2> QED BY <2>2, <2>3, WaiterSteps, PosterSteps DEF Sema!Next
<1> QED BY <1>1, <1>2, SeqsHold, PTL DEF Sema!Spec

------------------------------------------------------------------------------
(* Sleeping *)

SleepTypes ==
  /\ sleepers \in [Cpus -> Threads \union {None}]
  /\ snext \in [Threads -> Threads \union {None}] /\ sprev \in [Threads -> Threads \union {None}]
  /\ cpu \in [Threads -> Cpus] /\ spc \in [Threads -> Timer!Locations]
  /\ ticking \subseteq Cpus /\ blk \in [Cpus -> Threads \union {None}]

\* s is the list of c: it has the waiters whose sleep is under way on c, once each.
IsList(c, s) ==
  /\ s \in Seq(Threads) /\ IsInjective(s) /\ Range(s) = Timer!Started(c)
  /\ Timer!Links(c, s)

\* The inductive invariant.
SleepInv ==
  /\ SleepTypes /\ Timer!TickSeesLive
  /\ \A c \in Cpus : \E s \in Seq(Threads) : IsList(c, s)

\* The members of a list without repetitions can be counted.
LEMMA ListCounts ==
  ASSUME NEW S, NEW s \in Seq(S), IsInjective(s)
  PROVE  s \in [1..Cardinality(Range(s)) -> Range(s)]
<1>1. s \in [1..Len(s) -> Range(s)]
  BY SMT DEF Range
<1>2. \A a, b \in 1..Len(s) : s[a] = s[b] => a = b
  BY SMT DEF IsInjective
<1>3. \A e \in Range(s) : \E a \in 1..Len(s) : s[a] = e
  BY SMT DEF Range
<1>4. ExistsBijection(1..Len(s), Range(s))
  BY <1>1, <1>2, <1>3 DEF ExistsBijection, Bijection, Injection, Surjection, IsInjective
<1>5. Cardinality(Range(s)) = Len(s)
  BY <1>4, FS_CountingElements, SMT
<1> QED
  BY <1>1, <1>5

\* The lists are exact.
LEMMA ListsHold == SleepInv => TickSeesLive
<1> SUFFICES ASSUME SleepInv PROVE Timer!ListsAreExact
  BY DEF SleepInv, TickSeesLive
<1>0. \A S : Timer!Cardinality(S) = Cardinality(S)
  BY DEF Timer!Cardinality, Cardinality, Timer!IsFiniteSet, IsFiniteSet
<1> SUFFICES ASSUME NEW c \in Cpus
             PROVE  \E s \in [1..Cardinality(Timer!Started(c)) -> Timer!Started(c)] :
                      IsInjective(s) /\ Timer!Links(c, s)
  BY <1>0 DEF Timer!ListsAreExact, Timer!IsInjective, IsInjective
<1>1. PICK s \in Seq(Threads) : IsList(c, s)
  BY DEF SleepInv
<1>2. s \in [1..Cardinality(Timer!Started(c)) -> Timer!Started(c)]
  BY <1>1, ListCounts DEF IsList
<1> QED
  BY <1>1, <1>2 DEF IsList

\* A list whose waiters and pointers stay as they are stays a list.
LEMMA ListStays ==
  ASSUME SleepTypes, NEW c \in Cpus, NEW s \in Seq(Threads), IsList(c, s),
         Timer!Started(c)' = Timer!Started(c), sleepers'[c] = sleepers[c],
         \A t \in Timer!Started(c) : snext'[t] = snext[t] /\ sprev'[t] = sprev[t]
  PROVE  IsList(c, s)'
<1>1. \A i \in DOMAIN s : s[i] \in Timer!Started(c)
  BY DEF IsList, Range
<1>2. Timer!Links(c, s)'
  BY <1>1, SMT DEF IsList, Timer!Links, Timer!Nth
<1> QED
  BY <1>2 DEF IsList

\* The steps that change no list.
LEMMA QuietSleep ==
  ASSUME SleepInv, SleepTypes', UNCHANGED <<sleepers, snext, sprev>>,
         \A c \in Cpus : Timer!Started(c)' = Timer!Started(c),
         \A c \in Cpus : c \in ticking' /\ blk'[c] # None => blk'[c] \in Timer!Started(c)
  PROVE  SleepInv'
<1>1. ASSUME NEW c \in Cpus PROVE \E s \in Seq(Threads) : IsList(c, s)'
  <2>1. PICK s \in Seq(Threads) : IsList(c, s)
    BY DEF SleepInv
  <2>2. IsList(c, s)'
    BY <2>1, ListStays DEF SleepInv
  <2> QED BY <2>2
<1>2. Timer!TickSeesLive'
  BY DEF Timer!TickSeesLive
<1> QED BY <1>1, <1>2 DEF SleepInv

\* start(): the waiter becomes the first of its list.
LEMMA InsertStep ==
  ASSUME SleepInv, NEW t \in Threads, Timer!Insert(t)
  PROVE  SleepInv'
<1>0. SleepTypes
  BY DEF SleepInv
<1>a. PICK k \in Cpus : k = cpu[t]
  BY <1>0 DEF SleepTypes
<1>b. PICK head \in Threads \union {None} : head = sleepers[k]
  BY <1>0 DEF SleepTypes
<1>1. /\ k \notin ticking /\ UNCHANGED <<cpu, ticking, blk>>
      /\ spc[t] = "start" /\ spc' = [spc EXCEPT ![t] = "wait"]
      /\ snext' = [snext EXCEPT ![t] = head]
      /\ sprev' = [u \in Threads |-> IF u = t THEN None ELSE IF u = head THEN t ELSE sprev[u]]
      /\ sleepers' = [sleepers EXCEPT ![k] = t]
  BY <1>a, <1>b DEF Timer!Insert, Timer!Goto, Timer!tick
<1>2. /\ \A c \in Cpus \ {k} : Timer!Started(c)' = Timer!Started(c)
      /\ Timer!Started(k)' = Timer!Started(k) \union {t}
      /\ \A c \in Cpus : t \notin Timer!Started(c)
  BY <1>0, <1>a, <1>1 DEF SleepTypes, Timer!Started
<1>3. SleepTypes'
  <2>1. "wait" \in Timer!Locations
    BY DEF Timer!Locations
  <2> QED BY <1>0, <1>1, <2>1 DEF SleepTypes
<1>4. /\ snext'[t] = head /\ sprev'[t] = None /\ sleepers'[k] = t
      /\ \A u \in Threads \ {t} : snext'[u] = snext[u] /\ (u # head => sprev'[u] = sprev[u])
      /\ head \in Threads \ {t} => sprev'[head] = t
      /\ \A c \in Cpus \ {k} : sleepers'[c] = sleepers[c]
  BY <1>0, <1>1 DEF SleepTypes
<1>5. PICK s \in Seq(Threads) : IsList(k, s)
  BY <1>1 DEF SleepInv
<1>6. head = Timer!Nth(s, 1) /\ (s = <<>> => head = None) /\ (s # <<>> => head = s[1])
  BY <1>b, <1>5, SMT DEF IsList, Timer!Links, Timer!Nth
<1>7. IsList(k, <<t>> \o s)'
  <2> DEFINE r == <<t>> \o s
  <2>0. t \notin Range(s) /\ IsInjective(s)
    BY <1>2, <1>5 DEF IsList
  <2>1. /\ r \in Seq(Threads) /\ IsInjective(r) /\ Range(r) = Range(s) \union {t}
    BY <2>0, RngCons, SMT
  <2>2. /\ Len(r) = Len(s) + 1 /\ r[1] = t /\ DOMAIN r = 1..(Len(s) + 1)
        /\ \A i \in 1..Len(s) : r[i + 1] = s[i]
    BY SMT
  <2>3. \A i \in 1..Len(s) : s[i] \in Timer!Started(k) /\ s[i] \in Threads \ {t}
    BY <1>1, <1>2, <1>5, SMT DEF IsList, Range
  <2>4. Timer!Nth(r, 1) = t /\ Timer!Nth(r, 2) = head /\ Timer!Nth(r, 0) = None
    BY <1>6, <2>2, SMT DEF Timer!Nth
  <2>5. ASSUME NEW i \in 1..Len(s)
        PROVE  snext'[s[i]] = Timer!Nth(r, i + 2) /\ sprev'[s[i]] = Timer!Nth(r, i)
    <3>1. snext[s[i]] = Timer!Nth(s, i + 1) /\ sprev[s[i]] = Timer!Nth(s, i - 1)
      BY <1>5, SMT DEF IsList, Timer!Links
    <3>2. Timer!Nth(r, i + 2) = Timer!Nth(s, i + 1)
      BY <2>2, SMT DEF Timer!Nth
    <3>3. i # 1 => Timer!Nth(r, i) = Timer!Nth(s, i - 1)
      BY <2>2, SMT DEF Timer!Nth
    <3>4. i = 1 <=> s[i] = head
      BY <1>5, <1>6, SMT DEF IsList, IsInjective
    <3> QED BY <1>4, <2>3, <2>4, <3>1, <3>2, <3>3, <3>4
  <2>6. ASSUME NEW j \in DOMAIN r
        PROVE  snext'[r[j]] = Timer!Nth(r, j + 1) /\ sprev'[r[j]] = Timer!Nth(r, j - 1)
    <3>1. CASE j = 1
      BY <1>4, <2>2, <2>4, <3>1, SMT
    <3>2. CASE j # 1
      <4>1. j - 1 \in 1..Len(s) /\ r[j] = s[j - 1] /\ (j - 1) + 2 = j + 1
        BY <2>2, <3>2, SMT
      <4> QED BY <2>5, <4>1
    <3> QED BY <3>1, <3>2
  <2>7. Range(r) = Timer!Started(k)'
    BY <1>2, <1>5, <2>1 DEF IsList
  <2>8. Timer!Links(k, r)'
    BY <1>4, <2>4, <2>6 DEF Timer!Links
  <2> QED BY <2>1, <2>7, <2>8 DEF IsList
<1>8. ASSUME NEW c \in Cpus, c # k PROVE \E q \in Seq(Threads) : IsList(c, q)'
  <2>1. PICK q \in Seq(Threads) : IsList(c, q)
    BY DEF SleepInv
  <2>2. head # None => head \in Timer!Started(k)
    BY <1>5, <1>6, SMT DEF IsList, Range
  <2>3. \A u \in Timer!Started(c) : u \in Threads \ {t} /\ u # head
    BY <1>1, <1>2, <1>8, <2>2, NoneAssumption DEF Timer!Started
  <2>4. IsList(c, q)'
    BY <1>0, <1>2, <1>4, <1>8, <2>1, <2>3, ListStays
  <2> QED BY <2>4
<1>9. Timer!TickSeesLive'
  BY <1>1, <1>2 DEF SleepInv, Timer!TickSeesLive
<1>10. \A c \in Cpus : \E q \in Seq(Threads) : IsList(c, q)'
  <2>1. <<t>> \o s \in Seq(Threads)
    BY SMT
  <2> QED BY <1>7, <1>8, <2>1
<1> QED BY <1>3, <1>9, <1>10 DEF SleepInv

\* remove(): the neighbours of the waiter are linked to each other.
LEMMA RemoveStep ==
  ASSUME SleepInv, NEW t \in Threads, Timer!remove(t)
  PROVE  SleepInv'
<1>0. SleepTypes
  BY DEF SleepInv
<1>a. PICK k \in Cpus : k = cpu[t]
  BY <1>0 DEF SleepTypes
<1>b. PICK n \in Threads \union {None} : n = snext[t]
  BY <1>0 DEF SleepTypes
<1>c. PICK p \in Threads \union {None} : p = sprev[t]
  BY <1>0 DEF SleepTypes
<1>1. /\ k \notin ticking /\ UNCHANGED <<cpu, ticking, blk>>
      /\ spc[t] = "remove" /\ spc' = [spc EXCEPT ![t] = "idle"]
      /\ sleepers' = [sleepers EXCEPT ![k] = IF @ = t THEN n ELSE @]
      /\ sprev' = [u \in Threads |-> IF u = t THEN None ELSE IF u = n THEN p ELSE sprev[u]]
      /\ snext' = [u \in Threads |-> IF u = t THEN None ELSE IF u = p THEN n ELSE snext[u]]
  BY <1>a, <1>b, <1>c DEF Timer!remove, Timer!Goto, Timer!Gone, Timer!tick
<1>2. /\ \A c \in Cpus \ {k} : Timer!Started(c)' = Timer!Started(c)
      /\ Timer!Started(k)' = Timer!Started(k) \ {t}
      /\ t \in Timer!Started(k) /\ \A c \in Cpus \ {k} : t \notin Timer!Started(c)
  BY <1>0, <1>a, <1>1 DEF SleepTypes, Timer!Started
<1>3. SleepTypes'
  <2>1. "idle" \in Timer!Locations
    BY DEF Timer!Locations
  <2> QED BY <1>0, <1>1, <2>1 DEF SleepTypes
<1>4. /\ sleepers'[k] = IF sleepers[k] = t THEN n ELSE sleepers[k]
      /\ \A u \in Threads \ {t} : /\ snext'[u] = IF u = p THEN n ELSE snext[u]
                               /\ sprev'[u] = IF u = n THEN p ELSE sprev[u]
      /\ \A c \in Cpus \ {k} : sleepers'[c] = sleepers[c]
  BY <1>0, <1>1 DEF SleepTypes
<1>5. PICK s \in Seq(Threads) : IsList(k, s)
  BY DEF SleepInv
<1>6. PICK x \in DOMAIN s : s[x] = t
  BY <1>2, <1>5 DEF IsList, Range
<1>7. n = Timer!Nth(s, x + 1) /\ p = Timer!Nth(s, x - 1)
  BY <1>b, <1>c, <1>5, <1>6 DEF IsList, Timer!Links
<1>8. \A i, j \in DOMAIN s : s[i] = s[j] <=> i = j
  BY <1>5 DEF IsList, IsInjective
<1>9. IsList(k, Del(s, t))'
  <2> DEFINE r == Del(s, t)
  <2>1. r \in Seq(Threads) /\ IsInjective(r) /\ Range(r) = Timer!Started(k)'
    <3>1. IsInjective(s) /\ Range(s) = Timer!Started(k)
      BY <1>5 DEF IsList
    <3>2. Range(r) = Range(s) \ {t} /\ r \in Seq(Threads) /\ IsInjective(r)
      BY <3>1, RngDel
    <3> QED BY <1>2, <3>1, <3>2
  <2>2. /\ DOMAIN r = 1..(Len(s) - 1) /\ DOMAIN s = 1..Len(s) /\ Len(s) \in Nat
        /\ \A j \in 1..(Len(s) - 1) : r[j] = IF j < x THEN s[j] ELSE s[j + 1]
    BY <1>5, <1>6, DelAt, SMT DEF IsList
  <2> HIDE DEF r
  <2>3. Timer!Nth(r, 1) = IF x = 1 THEN n ELSE s[1]
    BY <1>6, <1>7, <2>2, SMT DEF Timer!Nth
  <2>4. sleepers[k] = s[1]
    BY <1>5, <1>6, <2>2, SMT DEF IsList, Timer!Links, Timer!Nth
  <2>5. sleepers'[k] = Timer!Nth(r, 1)
    BY <1>4, <1>6, <1>8, <2>2, <2>3, <2>4, SMT
  <2>6. \A i \in DOMAIN s : s[i] \in Threads /\ snext[s[i]] = Timer!Nth(s, i + 1)
                                         /\ sprev[s[i]] = Timer!Nth(s, i - 1)
    BY <1>5, SMT DEF IsList, Timer!Links
  <2>7. \A i \in DOMAIN s : (s[i] = n <=> i = x + 1) /\ (s[i] = p <=> i = x - 1)
    BY <1>6, <1>7, <1>8, <2>2, <2>6, NoneAssumption, SMT DEF Timer!Nth
  <2>8. ASSUME NEW j \in DOMAIN r
        PROVE  snext'[r[j]] = Timer!Nth(r, j + 1) /\ sprev'[r[j]] = Timer!Nth(r, j - 1)
    <3>1. CASE j < x
      <4>1. j \in DOMAIN s /\ r[j] = s[j] /\ s[j] # t
        BY <1>6, <1>8, <2>2, <3>1, SMT
      <4>2. snext'[s[j]] = (IF j = x - 1 THEN n ELSE Timer!Nth(s, j + 1))
        BY <1>4, <2>6, <2>7, <4>1
      <4>3. Timer!Nth(r, j + 1) = (IF j = x - 1 THEN n ELSE Timer!Nth(s, j + 1))
        BY <1>6, <1>7, <2>2, <3>1, SMT DEF Timer!Nth
      <4>4. sprev'[s[j]] = Timer!Nth(s, j - 1)
        BY <1>4, <1>6, <2>2, <2>6, <2>7, <3>1, <4>1, SMTT(30)
      <4>5. Timer!Nth(r, j - 1) = Timer!Nth(s, j - 1)
        BY <1>6, <2>2, <3>1, SMT DEF Timer!Nth
      <4> QED BY <4>1, <4>2, <4>3, <4>4, <4>5
    <3>2. CASE j >= x
      <4>1. j + 1 \in DOMAIN s /\ r[j] = s[j + 1] /\ s[j + 1] # t
        BY <1>6, <1>8, <2>2, <3>2, SMT
      <4>2. snext'[s[j + 1]] = Timer!Nth(s, j + 2)
        BY <1>4, <1>6, <2>2, <2>6, <2>7, <3>2, <4>1, SMT
      <4>3. Timer!Nth(r, j + 1) = Timer!Nth(s, j + 2)
        BY <1>6, <2>2, <3>2, SMT DEF Timer!Nth
      <4>4. sprev'[s[j + 1]] = (IF j = x THEN p ELSE Timer!Nth(s, j))
        BY <1>4, <1>6, <2>2, <2>6, <2>7, <3>2, <4>1, SMT
      <4>5. Timer!Nth(r, j - 1) = (IF j = x THEN p ELSE Timer!Nth(s, j))
        BY <1>6, <1>7, <2>2, <3>2, SMT DEF Timer!Nth
      <4> QED BY <4>1, <4>2, <4>3, <4>4, <4>5
    <3> QED BY <1>6, <2>2, <3>1, <3>2, SMT
  <2>9. Timer!Links(k, r)'
    BY <2>5, <2>8 DEF Timer!Links
  <2> QED BY <2>1, <2>9 DEF IsList, r
<1>10. ASSUME NEW c \in Cpus, c # k PROVE \E q \in Seq(Threads) : IsList(c, q)'
  <2>1. PICK q \in Seq(Threads) : IsList(c, q)
    BY DEF SleepInv
  <2>2. (n # None => n \in Timer!Started(k)) /\ (p # None => p \in Timer!Started(k))
    BY <1>5, <1>7 DEF IsList, Range, Timer!Nth
  <2>3. \A u \in Timer!Started(c) : u \in Threads \ {t} /\ u # n /\ u # p
    BY <1>2, <1>10, <2>2, NoneAssumption DEF Timer!Started
  <2>4. IsList(c, q)'
    BY <1>0, <1>2, <1>4, <1>10, <2>1, <2>3, ListStays
  <2> QED BY <2>4
<1>11. Timer!TickSeesLive'
  BY <1>1, <1>2 DEF SleepInv, Timer!TickSeesLive
<1>12. \A c \in Cpus : \E q \in Seq(Threads) : IsList(c, q)'
  <2>1. Del(s, t) \in Seq(Threads)
    BY <1>5, RngDel DEF IsList
  <2> QED BY <1>9, <1>10, <2>1
<1> QED BY <1>3, <1>11, <1>12 DEF SleepInv

\* The steps that leave the lists alone: a thread goes from one location to
\* another, and a tick from one waiter to the next of the same list.
LEMMA OtherSleepSteps ==
  ASSUME SleepInv, NEW t \in Threads,
         \/ Timer!Wait(t) \/ Timer!Woken(t) \/ Timer!Interrupted(t)
         \/ \E us \in Delays, c \in Cpus : Timer!usleep(t, us, c)
  PROVE  SleepInv'
<1>0. SleepTypes
  BY DEF SleepInv
<1>1. /\ UNCHANGED <<sleepers, snext, sprev, ticking, blk>> /\ SleepTypes'
      /\ \A c \in Cpus : Timer!Started(c)' = Timer!Started(c)
  <2>1. CASE Timer!Wait(t)
    BY <1>0, <2>1 DEF SleepTypes, Timer!Wait, Timer!Goto, Timer!Started, Timer!Locations,
                      Timer!node, Timer!tick
  <2>2. CASE Timer!Woken(t)
    BY <1>0, <2>2 DEF SleepTypes, Timer!Woken, Timer!Goto, Timer!Started, Timer!Locations,
                      Timer!node, Timer!tick
  <2>3. CASE Timer!Interrupted(t)
    BY <1>0, <2>3 DEF SleepTypes, Timer!Interrupted, Timer!Goto, Timer!Started, Timer!Locations,
                      Timer!node, Timer!tick
  <2>4. CASE \E us \in Delays, c \in Cpus : Timer!usleep(t, us, c)
    BY <1>0, <2>4, SMT DEF SleepTypes, Timer!usleep, Timer!Goto, Timer!Started, Timer!Locations,
                      Timer!tick
  <2> QED BY <2>1, <2>2, <2>3, <2>4
<1>2. \A c \in Cpus : c \in ticking' /\ blk'[c] # None => blk'[c] \in Timer!Started(c)
  BY <1>1 DEF SleepInv, Timer!TickSeesLive
<1> QED BY <1>1, <1>2, QuietSleep

\* check_wakeups() goes along the list of its CPU.
LEMMA TickSteps ==
  ASSUME SleepInv, NEW k \in Cpus, Timer!Tick(k) \/ Timer!Check(k) \/ Timer!TickEnd(k)
  PROVE  SleepInv'
<1>0. SleepTypes
  BY DEF SleepInv
<1>1. UNCHANGED <<sleepers, snext, sprev, cpu, spc>>
  BY DEF Timer!Tick, Timer!Check, Timer!TickEnd, Timer!node
<1>2. \A c \in Cpus : Timer!Started(c)' = Timer!Started(c)
  BY <1>1 DEF Timer!Started
<1>3. PICK s \in Seq(Threads) : IsList(k, s)
  BY DEF SleepInv
<1>4. \A i \in Int : Timer!Nth(s, i) # None => Timer!Nth(s, i) \in Timer!Started(k)
  BY <1>3 DEF IsList, Range, Timer!Nth
<1>5. \A c \in Cpus : c \in ticking /\ blk[c] # None => blk[c] \in Timer!Started(c)
  BY DEF SleepInv, Timer!TickSeesLive
<1>6. SleepTypes' /\ \A c \in Cpus : c \in ticking' /\ blk'[c] # None => blk'[c] \in Timer!Started(c)
  <2>1. CASE Timer!Tick(k)
    <3>1. sleepers[k] # None => sleepers[k] \in Timer!Started(k)
      BY <1>3, <1>4, SMTT(30) DEF IsList, Timer!Links
    <3> QED BY <1>0, <1>5, <2>1, <3>1 DEF SleepTypes, Timer!Tick, Timer!node
  <2>2. CASE Timer!Check(k)
    <3>1. k \in ticking /\ blk[k] # None /\ blk[k] \in Timer!Started(k)
      BY <1>5, <2>2 DEF Timer!Check
    <3>2. PICK i \in DOMAIN s : s[i] = blk[k]
      BY <1>3, <3>1 DEF IsList, Range
    <3>3. i + 1 \in Int /\ snext[blk[k]] = Timer!Nth(s, i + 1)
      BY <1>3, <3>2, SMT DEF IsList, Timer!Links
    <3>4. snext[blk[k]] # None => snext[blk[k]] \in Timer!Started(k)
      BY <1>4, <3>3
    <3>5. blk[k] \in Threads
      BY <3>1 DEF Timer!Started
    <3> QED BY <1>0, <1>5, <2>2, <3>4, <3>5 DEF SleepTypes, Timer!Check, Timer!node
  <2>3. CASE Timer!TickEnd(k)
    BY <1>0, <1>5, <2>3 DEF SleepTypes, Timer!TickEnd, Timer!node
  <2> QED BY <2>1, <2>2, <2>3
<1> QED BY <1>1, <1>2, <1>6, QuietSleep

\* Whatever the order in which sleepers come, are woken or interrupted and go,
\* on any number of CPUs: the list of a CPU is exactly the waiters whose
\* sleep is under way there, and a tick never looks at one that is gone.
THEOREM TickIsSafe == Timer!Spec => []TickSeesLive
<1>1. Timer!Init => SleepInv
  <2> SUFFICES ASSUME Timer!Init PROVE SleepInv
    OBVIOUS
  <2>1. SleepTypes /\ Timer!TickSeesLive
    BY DEF Timer!Init, SleepTypes, Timer!Locations, Timer!TickSeesLive
  <2>2. ASSUME NEW c \in Cpus PROVE IsList(c, <<>>)
    <3>1. Timer!Started(c) = {} /\ sleepers[c] = None
      BY DEF Timer!Init, Timer!Started
    <3> QED BY <3>1, SMT DEF IsList, IsInjective, Range, Timer!Links, Timer!Nth
  <2>3. <<>> \in Seq(Threads)
    BY SMT
  <2> QED BY <2>1, <2>2, <2>3 DEF SleepInv
<1>2. SleepInv /\ [Timer!Next]_(Timer!vars) => SleepInv'
  <2> SUFFICES ASSUME SleepInv, [Timer!Next]_(Timer!vars) PROVE SleepInv'
    OBVIOUS
  <2>1. ASSUME UNCHANGED <<sleepers, snext, sprev, cpu, spc, ticking, blk>> PROVE SleepInv'
    <3>1. \A c \in Cpus : Timer!Started(c)' = Timer!Started(c)
      BY <2>1 DEF Timer!Started
    <3>2. SleepTypes'
      BY <2>1 DEF SleepInv, SleepTypes
    <3>3. \A c \in Cpus : c \in ticking' /\ blk'[c] # None => blk'[c] \in Timer!Started(c)
      BY <2>1 DEF SleepInv, Timer!TickSeesLive
    <3> QED BY <2>1, <3>1, <3>2, <3>3, QuietSleep
  <2>2. CASE UNCHANGED Timer!vars
    BY <2>1, <2>2 DEF Timer!vars, Timer!node, Timer!tick
  <2>3. CASE Timer!Advance
    BY <2>1, <2>3 DEF Timer!Advance, Timer!node, Timer!tick
  <2>4. ASSUME NEW t \in Threads, \/ \E us \in Delays, c \in Cpus : Timer!usleep(t, us, c)
                                  \/ Timer!ThreadStep(t) \/ Timer!Interrupted(t)
        PROVE  SleepInv'
    BY <2>4, OtherSleepSteps, InsertStep, RemoveStep DEF Timer!ThreadStep
  <2>5. ASSUME NEW c \in Cpus, Timer!Tick(c) \/ Timer!TickStep(c)
        PROVE  SleepInv'
    BY <2>5, TickSteps DEF Timer!TickStep
  <2> QED BY <2>2, <2>3, <2>4, <2>5 DEF Timer!Next
<1> QED BY <1>1, <1>2, ListsHold, PTL DEF Timer!Spec
==============================================================================
