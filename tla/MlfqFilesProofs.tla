--------------------------- MODULE MlfqFilesProofs --------------------------
(***************************************************************************)
(* For any number of threads, CPUs and queues: the scheduler loses no      *)
(* thread and has none twice, and remove_task() finds every queued thread. *)
(* For any number of processes, threads, inodes, files and descriptors:    *)
(* no inode in use is deleted, but for the one way that the code leaves.   *)
(***************************************************************************)
EXTENDS MCTwoThreads, ListLemmas, FiniteSetTheorems, TLAPS

\* A step is for Zenon unless it names another prover.
USE Zenon

------------------------------------------------------------------------------
(* Mlfq *)

\* Thread t is on queue p of CPU c, for the queues q of all CPUs.
On(q, t, c, p) == t \in Range(q[c][p])

Pcs == {"loop", "pick", "steal", "switch", "run", "tick", "tick_steal", "iret", "out", "add"}

QueuesOK(q) ==
  /\ q \in [Cpus -> [Prios -> Seq(Threads)]]
  /\ \A c \in Cpus, p \in Prios : IsInjective(q[c][p])

Types ==
  /\ QueuesOK(queue)
  /\ state \in [Threads -> States]
  /\ priority \in [Threads -> Prios]
  /\ current_cpu \in [Threads -> Cpus \union {-1}]
  /\ pc \in [Cpus -> Pcs]
  /\ thd \in [Cpus -> Threads \union {None}]
  /\ next_thread \in [Cpus -> Threads \union {None}]
  /\ next_worksteal \in [Cpus -> Cpus]

\* A CPU has no thread in its hands while it looks for one, no other picked when it
\* steals one, and has one when it is about to queue it.
HandsOK ==
  \A c \in Cpus :
    /\ pc[c] \in {"loop", "pick", "steal", "switch"} => thd[c] = None
    /\ pc[c] \in {"steal", "tick_steal"} => next_thread[c] = None
    /\ pc[c] = "add" => thd[c] # None

\* Two places where the same thread is are one.
Once ==
  \A t \in Threads, c, d \in Cpus :
    /\ \A p, r \in Prios : On(queue, t, c, p) /\ On(queue, t, d, r) => c = d /\ p = r
    /\ \A p \in Prios : On(queue, t, c, p) => thd[d] # t /\ next_thread[d] # t
    /\ thd[c] = t => next_thread[d] # t
    /\ thd[c] = t /\ thd[d] = t => c = d
    /\ next_thread[c] = t /\ next_thread[d] = t => c = d

\* The threads that were started are those that are somewhere.
Somewhere(t) ==
  \/ \E c \in Cpus, p \in Prios : On(queue, t, c, p)
  \/ \E c \in Cpus : thd[c] = t \/ next_thread[c] = t

Kept == \A t \in Threads : state[t] # EMBRYO <=> Somewhere(t)

Findable ==
  \A t \in Threads, c \in Cpus, p \in Prios :
    On(queue, t, c, p) => current_cpu[t] = c /\ priority[t] = p

\* The inductive invariant.
IInv == Types /\ HandsOK /\ Once /\ Kept /\ Findable
------------------------------------------------------------------------------
\* How the operations of mlfq change the queues q to q2.
Appended(q, q2, c, p, t) == q2 = [q EXCEPT ![c][p] = Append(@, t)]
Deleted(q, q2, c, p, t) == q2 = [q EXCEPT ![c][p] = Del(@, t)]
BoostedAt(q, q2, c) == q2 = [q EXCEPT ![c] = Boosted(@)]

\* mlfq::add puts a thread on one queue.
LEMMA QueueAppend ==
  ASSUME NEW q, QueuesOK(q), NEW c \in Cpus, NEW p \in Prios, NEW t \in Threads,
         ~On(q, t, c, p), NEW q2, Appended(q, q2, c, p, t)
  PROVE  /\ QueuesOK(q2)
         /\ \A u \in Threads, d \in Cpus, r \in Prios :
              On(q2, u, d, r) <=> On(q, u, d, r) \/ (u = t /\ d = c /\ r = p)
<1>1. /\ Append(q[c][p], t) \in Seq(Threads) /\ IsInjective(Append(q[c][p], t))
      /\ Range(Append(q[c][p], t)) = Range(q[c][p]) \union {t}
  BY RngAppend, SMT DEF QueuesOK, On
<1>2. \A d \in Cpus, r \in Prios :
        q2[d][r] = IF d = c /\ r = p THEN Append(q[c][p], t) ELSE q[d][r]
  BY DEF QueuesOK, Appended
<1>3. q2 \in [Cpus -> [Prios -> Seq(Threads)]]
  BY <1>1 DEF QueuesOK, Appended
<1> QED
  BY <1>1, <1>2, <1>3 DEF QueuesOK, On

\* get_next() and steal() take a thread off one queue.
LEMMA QueueDel ==
  ASSUME NEW q, QueuesOK(q), NEW c \in Cpus, NEW p \in Prios, NEW t,
         NEW q2, Deleted(q, q2, c, p, t)
  PROVE  /\ QueuesOK(q2)
         /\ \A u \in Threads, d \in Cpus, r \in Prios :
              On(q2, u, d, r) <=> On(q, u, d, r) /\ ~(u = t /\ d = c /\ r = p)
<1>1. /\ Del(q[c][p], t) \in Seq(Threads) /\ IsInjective(Del(q[c][p], t))
      /\ Range(Del(q[c][p], t)) = Range(q[c][p]) \ {t}
  BY RngDel, SMT DEF QueuesOK
<1>2. \A d \in Cpus, r \in Prios :
        q2[d][r] = IF d = c /\ r = p THEN Del(q[c][p], t) ELSE q[d][r]
  BY DEF QueuesOK, Deleted
<1>3. q2 \in [Cpus -> [Prios -> Seq(Threads)]]
  BY <1>1 DEF QueuesOK, Deleted
<1> QED
  BY <1>1, <1>2, <1>3 DEF QueuesOK, On

\* Two lists without a common element, one after the other.
LEMMA RngConcat ==
  ASSUME NEW S, NEW s \in Seq(S), NEW r \in Seq(S)
  PROVE  /\ s \o r \in Seq(S)
         /\ Range(s \o r) = Range(s) \union Range(r)
         /\ IsInjective(s) /\ IsInjective(r) /\ Range(s) \intersect Range(r) = {}
              => IsInjective(s \o r)
<1> DEFINE z == s \o r
<1>1. /\ z \in Seq(S) /\ Len(z) = Len(s) + Len(r)
      /\ Len(s) \in Nat /\ Len(r) \in Nat
      /\ \A k \in 1..Len(s) : z[k] = s[k]
      /\ \A k \in 1..Len(r) : z[Len(s) + k] = r[k]
      /\ DOMAIN z = 1..(Len(s) + Len(r)) /\ DOMAIN s = 1..Len(s) /\ DOMAIN r = 1..Len(r)
  BY SMT
<1> HIDE DEF z
<1>2. \A k \in DOMAIN z : k \in DOMAIN s \/ (k - Len(s) \in DOMAIN r /\ z[k] = r[k - Len(s)])
  <2> SUFFICES ASSUME NEW k \in DOMAIN z, k \notin DOMAIN s
               PROVE  k - Len(s) \in DOMAIN r /\ z[k] = r[k - Len(s)]
    OBVIOUS
  <2>1. k - Len(s) \in 1..Len(r) /\ k = Len(s) + (k - Len(s))
    BY <1>1, SMT
  <2> QED
    BY <1>1, <2>1
<1>3. Range(z) = Range(s) \union Range(r)
  <2>1. \A k \in DOMAIN s : k \in DOMAIN z /\ z[k] = s[k]
    BY <1>1, SMT
  <2>2. \A k \in DOMAIN r : Len(s) + k \in DOMAIN z /\ z[Len(s) + k] = r[k]
    BY <1>1, SMT
  <2> QED
    BY <1>2, <2>1, <2>2, SMT DEF Range
<1>4. ASSUME IsInjective(s), IsInjective(r), Range(s) \intersect Range(r) = {}
      PROVE  IsInjective(z)
  <2> SUFFICES ASSUME NEW i \in DOMAIN z, NEW j \in DOMAIN z, z[i] = z[j]
               PROVE  i = j
    BY DEF IsInjective
  <2>1. CASE i \in DOMAIN s /\ j \in DOMAIN s
    BY <1>1, <1>4, <2>1 DEF IsInjective
  <2>2. \A k \in DOMAIN z : z[k] \in IF k \in DOMAIN s THEN Range(s) ELSE Range(r)
    BY <1>1, <1>2 DEF Range
  <2>3. CASE ~(i \in DOMAIN s <=> j \in DOMAIN s)
    BY <1>4, <2>2, <2>3
  <2>4. CASE i \notin DOMAIN s /\ j \notin DOMAIN s
    <3>1. i - Len(s) \in DOMAIN r /\ j - Len(s) \in DOMAIN r /\ r[i - Len(s)] = r[j - Len(s)]
      BY <1>2, <2>4
    <3>2. i - Len(s) = j - Len(s)
      BY <1>4, <3>1 DEF IsInjective
    <3> QED
      BY <1>1, <3>2, SMT
  <2> QED
    BY <2>1, <2>3, <2>4
<1> QED
  BY <1>1, <1>3, <1>4 DEF z

\* mlfq::boost takes the first thread of every queue but 0.
First(q, p) == IF p \in Prios \ {0} /\ q[p] # <<>> THEN <<Head(q[p])>> ELSE <<>>
Rest(q, p) == IF p > 0 /\ q[p] # <<>> THEN Tail(q[p]) ELSE q[p]
Moves(q, t, p) == p \in Prios \ {0} /\ q[p] # <<>> /\ t = Head(q[p])

\* What boost leaves of a queue: all but a first thread that moves.
LEMMA BoostParts ==
  ASSUME NEW q \in [Prios -> Seq(Threads)], NEW p \in Prios, IsInjective(q[p])
  PROVE  /\ Rest(q, p) \in Seq(Threads) /\ IsInjective(Rest(q, p))
         /\ \A t \in Threads : t \in Range(Rest(q, p)) <=> t \in Range(q[p]) /\ ~Moves(q, t, p)
         /\ \A t \in Threads : Moves(q, t, p) => t \in Range(q[p])
<1>1. p \in Nat /\ (p > 0 <=> p # 0)
  BY SizeAssumption, SMT DEF Prios
<1>2. CASE p > 0 /\ q[p] # <<>>
  <2>1. /\ Head(q[p]) \in Range(q[p]) /\ Tail(q[p]) \in Seq(Threads)
        /\ Range(Tail(q[p])) = Range(q[p]) \ {Head(q[p])} /\ IsInjective(Tail(q[p]))
    BY <1>2, RngTail
  <2> QED
    BY <1>1, <1>2, <2>1 DEF Rest, Moves
<1>3. CASE ~(p > 0 /\ q[p] # <<>>)
  BY <1>1, <1>3 DEF Rest, Moves
<1> QED
  BY <1>2, <1>3

\* What boost takes of a queue: a list of at most one thread.
LEMMA BoostFirst ==
  ASSUME NEW q \in [Prios -> Seq(Threads)], NEW p \in Nat
  PROVE  /\ First(q, p) \in Seq(Threads) /\ IsInjective(First(q, p))
         /\ \A t \in Threads : t \in Range(First(q, p)) <=> Moves(q, t, p)
<1>1. CASE p \in Prios \ {0} /\ q[p] # <<>>
  <2>1. Head(q[p]) \in Threads
    BY <1>1, SMT
  <2>2. First(q, p) = <<Head(q[p])>>
    BY <1>1 DEF First
  <2> QED
    BY <1>1, <2>1, <2>2, SMT DEF Range, IsInjective, Moves
<1>2. CASE ~(p \in Prios \ {0} /\ q[p] # <<>>)
  <2>1. First(q, p) = <<>>
    BY <1>2 DEF First
  <2> QED
    BY <1>2, <2>1, SMT DEF Range, IsInjective, Moves
<1> QED
  BY <1>1, <1>2

\* One queue of the boosted ones.
LEMMA BoostQueue ==
  ASSUME NEW q \in [Prios -> Seq(Threads)], \A p \in Prios : IsInjective(q[p]),
         \A t \in Threads, p, r \in Prios : t \in Range(q[p]) /\ t \in Range(q[r]) => p = r,
         NEW r \in Prios
  PROVE  /\ Boosted(q)[r] \in Seq(Threads) /\ IsInjective(Boosted(q)[r])
         /\ \A t \in Threads : t \in Range(Boosted(q)[r]) <=>
              \/ t \in Range(q[r]) /\ ~Moves(q, t, r)
              \/ r # 0 /\ Moves(q, t, 2 * r)
              \/ Moves(q, t, 2 * r + 1)
<1> DEFINE A == IF r = 0 THEN <<>> ELSE First(q, 2 * r)
           B == First(q, 2 * r + 1)
           R == Rest(q, r)
<1>1. r \in Nat /\ 2 * r \in Nat /\ 2 * r + 1 \in Nat /\ r # 2 * r + 1 /\ 2 * r # 2 * r + 1
      /\ (r # 0 => r # 2 * r)
  BY SizeAssumption, SMT DEF Prios
<1>2. Boosted(q)[r] = (R \o A) \o B
  BY DEF Boosted, First, Rest
<1>3. /\ R \in Seq(Threads) /\ IsInjective(R)
      /\ \A t \in Threads : t \in Range(R) <=> t \in Range(q[r]) /\ ~Moves(q, t, r)
  BY BoostParts
<1>4. /\ A \in Seq(Threads) /\ IsInjective(A)
      /\ \A t \in Threads : t \in Range(A) <=> r # 0 /\ Moves(q, t, 2 * r)
  <2>1. CASE r = 0
    <3>1. A = <<>>
      BY <2>1
    <3> QED
      BY <2>1, <3>1, SMT DEF Range, IsInjective
  <2>2. CASE r # 0
    <3>1. A = First(q, 2 * r)
      BY <2>2
    <3> QED
      BY <1>1, <2>2, <3>1, BoostFirst
  <2> QED
    BY <2>1, <2>2
<1>5. /\ B \in Seq(Threads) /\ IsInjective(B)
      /\ \A t \in Threads : t \in Range(B) <=> Moves(q, t, 2 * r + 1)
  BY <1>1, BoostFirst
<1>6. \A p \in Nat, t \in Threads : Moves(q, t, p) => p \in Prios /\ t \in Range(q[p])
  BY BoostParts DEF Moves
<1> HIDE DEF A, B, R
<1>7. Range(R) \subseteq Threads /\ Range(A) \subseteq Threads /\ Range(B) \subseteq Threads
  BY <1>3, <1>4, <1>5, SMT DEF Range
<1>8. Range(R) \intersect Range(A) = {}
  BY <1>1, <1>3, <1>4, <1>6, <1>7, SMT
<1>9. (Range(R) \union Range(A)) \intersect Range(B) = {}
  BY <1>1, <1>3, <1>4, <1>5, <1>6, <1>7, SMT
<1>10. /\ R \o A \in Seq(Threads) /\ IsInjective(R \o A)
       /\ Range(R \o A) = Range(R) \union Range(A)
  BY <1>3, <1>4, <1>8, RngConcat, SMT
<1>11. /\ (R \o A) \o B \in Seq(Threads) /\ IsInjective((R \o A) \o B)
       /\ Range((R \o A) \o B) = (Range(R) \union Range(A)) \union Range(B)
  <2> DEFINE Z == R \o A
  <2>1. Z \in Seq(Threads) /\ IsInjective(Z) /\ Range(Z) \intersect Range(B) = {}
    BY <1>9, <1>10
  <2> HIDE DEF Z
  <2>2. /\ Z \o B \in Seq(Threads) /\ IsInjective(Z \o B)
        /\ Range(Z \o B) = Range(Z) \union Range(B)
    BY <1>5, <2>1, RngConcat, SMT
  <2> QED
    BY <1>10, <2>2 DEF Z
<1> QED
  BY <1>2, <1>3, <1>4, <1>5, <1>11

\* mlfq::boost: a thread that is the first of its queue goes to the queue of half
\* its number, the others stay.
LEMMA QueueBoost ==
  ASSUME NEW q, QueuesOK(q), NEW c \in Cpus,
         \A t \in Threads, p, r \in Prios : On(q, t, c, p) /\ On(q, t, c, r) => p = r,
         NEW q2, BoostedAt(q, q2, c)
  PROVE  /\ QueuesOK(q2)
         /\ \A t \in Threads, d \in Cpus, r \in Prios : d # c => (On(q2, t, d, r) <=> On(q, t, d, r))
         /\ \A t \in Threads, s \in Prios : On(q, t, c, s) =>
              On(q2, t, c, IF Moves(q[c], t, s) THEN s \div 2 ELSE s)
         /\ \A t \in Threads, r \in Prios : On(q2, t, c, r) =>
              \E s \in Prios : On(q, t, c, s) /\ r = IF Moves(q[c], t, s) THEN s \div 2 ELSE s
<1>1. /\ q[c] \in [Prios -> Seq(Threads)] /\ \A p \in Prios : IsInjective(q[c][p])
      /\ \A t \in Threads, p, r \in Prios : t \in Range(q[c][p]) /\ t \in Range(q[c][r]) => p = r
  BY DEF QueuesOK, On
<1>2. Boosted(q[c]) = [p \in Prios |-> Boosted(q[c])[p]]
  BY <1>1 DEF Boosted
<1>3. \A r \in Prios :
        /\ Boosted(q[c])[r] \in Seq(Threads) /\ IsInjective(Boosted(q[c])[r])
        /\ \A t \in Threads : t \in Range(Boosted(q[c])[r]) <=>
              \/ t \in Range(q[c][r]) /\ ~Moves(q[c], t, r)
              \/ r # 0 /\ Moves(q[c], t, 2 * r)
              \/ Moves(q[c], t, 2 * r + 1)
  BY <1>1, BoostQueue
<1> DEFINE b == Boosted(q[c])
<1>4. q2 = [q EXCEPT ![c] = b] /\ b \in [Prios -> Seq(Threads)]
  BY <1>2, <1>3 DEF BoostedAt
<1>5. \A p \in Nat, t \in Threads :
        Moves(q[c], t, p) => p \in Prios /\ p # 0 /\ t \in Range(q[c][p])
  BY <1>1, BoostParts DEF Moves
<1> HIDE DEF b
<1>6. q2 \in [Cpus -> [Prios -> Seq(Threads)]] /\ q2[c] = b
      /\ \A d \in Cpus : d # c => q2[d] = q[d]
  BY <1>4 DEF QueuesOK
<1>7. QueuesOK(q2)
  BY <1>3, <1>6 DEF QueuesOK, b
<1>8. ASSUME NEW t \in Threads, NEW s \in Prios, On(q, t, c, s)
      PROVE  On(q2, t, c, IF Moves(q[c], t, s) THEN s \div 2 ELSE s)
  <2>1. CASE ~Moves(q[c], t, s)
    BY <1>3, <1>6, <1>8, <2>1 DEF On, b
  <2>2. CASE Moves(q[c], t, s)
    <3> DEFINE r == s \div 2
    <3>1. s \in Nat /\ s # 0
      BY <1>5, <2>2, SizeAssumption, SMT DEF Prios
    <3>2. r \in Prios /\ (s = 2 * r \/ s = 2 * r + 1)
      BY <3>1, SizeAssumption, SMT DEF Prios
    <3> HIDE DEF r
    <3>3. t \in Range(Boosted(q[c])[r])
      <4>1. r \in Nat
        BY <3>2, SizeAssumption, SMT DEF Prios
      <4>2. CASE s = 2 * r
        <5>1. r # 0
          BY <3>1, <4>1, <4>2, SMT
        <5> QED
          BY <1>3, <2>2, <3>2, <4>2, <5>1
      <4>3. CASE s = 2 * r + 1
        BY <1>3, <2>2, <3>2, <4>3
      <4> QED
        BY <3>2, <4>2, <4>3
    <3> QED
      BY <1>6, <2>2, <3>3 DEF On, b, r
  <2> QED
    BY <2>1, <2>2
<1>9. ASSUME NEW t \in Threads, NEW r \in Prios, On(q2, t, c, r)
      PROVE  \E s \in Prios : On(q, t, c, s) /\ r = IF Moves(q[c], t, s) THEN s \div 2 ELSE s
  <2>0. r \in Nat
    BY SizeAssumption, SMT DEF Prios
  <2>1. t \in Range(Boosted(q[c])[r])
    BY <1>6, <1>9 DEF On, b
  <2>2. CASE t \in Range(q[c][r]) /\ ~Moves(q[c], t, r)
    BY <2>2 DEF On
  <2>3. CASE r # 0 /\ Moves(q[c], t, 2 * r)
    <3>1. 2 * r \in Prios /\ t \in Range(q[c][2 * r]) /\ (2 * r) \div 2 = r
      BY <1>5, <2>0, <2>3, SMT
    <3> QED
      BY <2>3, <3>1 DEF On
  <2>4. CASE Moves(q[c], t, 2 * r + 1)
    <3>1. 2 * r + 1 \in Prios /\ t \in Range(q[c][2 * r + 1]) /\ (2 * r + 1) \div 2 = r
      BY <1>5, <2>0, <2>4, SMT
    <3> QED
      BY <2>4, <3>1 DEF On
  <2> QED
    BY <1>3, <2>1, <2>2, <2>3, <2>4
<1> QED
  BY <1>6, <1>7, <1>8, <1>9 DEF On

------------------------------------------------------------------------------
(* The steps *)

\* A step that moves no thread.
Still == UNCHANGED <<queue, thd, next_thread>>

\* What such a step keeps.
LEMMA StillKeeps ==
  ASSUME IInv, Still
  PROVE  /\ QueuesOK(queue') /\ Once'
         /\ thd' \in [Cpus -> Threads \union {None}]
         /\ next_thread' \in [Cpus -> Threads \union {None}]
         /\ \A t \in Threads : Somewhere(t)' <=> Somewhere(t)
<1>1. queue' = queue /\ thd' = thd /\ next_thread' = next_thread
  BY DEF Still
<1>2. Once'
  BY <1>1, SMT DEF IInv, Once
<1>3. \A t \in Threads : Somewhere(t)' <=> Somewhere(t)
  BY <1>1 DEF Somewhere
<1> QED
  BY <1>1, <1>2, <1>3 DEF IInv, Types

\* The steps that move no thread and change no state, priority or CPU of a queued
\* one: what is left to show is about the program counters.
LEMMA QuietStep ==
  ASSUME IInv, Still, UNCHANGED <<state, priority>>,
         next_worksteal' \in [Cpus -> Cpus],
         current_cpu' \in [Threads -> Cpus \union {-1}],
         \A t \in Threads, c \in Cpus, p \in Prios :
           On(queue, t, c, p) => current_cpu'[t] = current_cpu[t],
         pc' \in [Cpus -> Pcs],
         HandsOK'
  PROVE  IInv'
<1>1. queue' = queue /\ state' = state /\ priority' = priority
  BY DEF Still
<1>2. Types'
  BY <1>1, StillKeeps DEF IInv, Types
<1>3. Kept'
  BY <1>1, StillKeeps DEF IInv, Kept
<1>4. Findable'
  BY <1>1 DEF IInv, Findable
<1> QED
  BY <1>2, <1>3, <1>4, StillKeeps DEF IInv

\* A thread that CPU c has in its hands yields: no queue has it.
LEMMA YieldKeeps ==
  ASSUME IInv, NEW c \in Cpus, pc[c] \in {"run", "iret"}, YieldFrom(c), Still,
         UNCHANGED <<state, priority, next_worksteal>>
  PROVE  IInv'
<1>1. /\ pc \in [Cpus -> Pcs]
      /\ current_cpu \in [Threads -> Cpus \union {-1}]
      /\ thd' = thd /\ next_thread' = next_thread
  BY DEF IInv, Types, Still
<1>2. pc' = [pc EXCEPT ![c] = "out"]
  BY DEF YieldFrom, Goto
<1>3. current_cpu' = [t \in Threads |-> IF t = thd[c] THEN -1 ELSE current_cpu[t]]
  BY DEF YieldFrom
<1>4. current_cpu' \in [Threads -> Cpus \union {-1}]
  BY <1>1, <1>3
<1>5. \A t \in Threads, d \in Cpus, p \in Prios :
        On(queue, t, d, p) => current_cpu'[t] = current_cpu[t]
  BY <1>3 DEF IInv, Once
<1>6. HandsOK'
  BY <1>1, <1>2 DEF IInv, HandsOK
<1>7. pc' \in [Cpus -> Pcs]
  BY <1>1, <1>2 DEF Pcs
<1>8. next_worksteal' \in [Cpus -> Cpus]
  BY DEF IInv, Types
<1> QED
  BY <1>4, <1>5, <1>6, <1>7, <1>8, QuietStep

\* A step of CPU c from `from` to `to`, where nothing else changes that matters here.
LEMMA GotoKeeps ==
  ASSUME IInv, NEW c \in Cpus, NEW to, pc' = [pc EXCEPT ![c] = to],
         to \in Pcs,
         to \in {"loop", "pick", "steal", "switch"} => thd[c] = None,
         to \in {"steal", "tick_steal"} => next_thread[c] = None,
         to = "add" => thd[c] # None,
         Still, UNCHANGED <<state, priority, current_cpu>>,
         next_worksteal' \in [Cpus -> Cpus]
  PROVE  IInv'
<1>1. /\ pc \in [Cpus -> Pcs]
      /\ current_cpu \in [Threads -> Cpus \union {-1}] /\ current_cpu' = current_cpu
      /\ thd' = thd /\ next_thread' = next_thread
  BY DEF IInv, Types, Still
<1>2. HandsOK'
  BY <1>1 DEF IInv, HandsOK
<1>3. pc' \in [Cpus -> Pcs]
  BY <1>1
<1> QED
  BY <1>1, <1>2, <1>3, QuietStep

\* A thread changes its state and does not become new again.
LEMMA StateKeeps ==
  ASSUME IInv, NEW t \in Threads, state[t] # EMBRYO, NEW st \in States \ {EMBRYO},
         state' = [state EXCEPT ![t] = st], Still,
         UNCHANGED <<priority, current_cpu, pc, next_worksteal>>
  PROVE  IInv'
<1>1. queue' = queue /\ priority' = priority /\ current_cpu' = current_cpu /\ pc' = pc
      /\ thd' = thd /\ next_thread' = next_thread
  BY DEF Still
<1>2. state' \in [Threads -> States] /\ \A u \in Threads : state'[u] # EMBRYO <=> state[u] # EMBRYO
  BY DEF IInv, Types
<1>3. Types'
  BY <1>1, <1>2, StillKeeps DEF IInv, Types
<1>4. Kept'
  BY <1>2, StillKeeps DEF IInv, Kept
<1>5. Findable' /\ HandsOK'
  BY <1>1 DEF IInv, Findable, HandsOK
<1> QED
  BY <1>3, <1>4, <1>5, StillKeeps DEF IInv

\* get_next() or steal(): a thread goes from a queue of CPU d to CPU c.
LEMMA TakeKeeps ==
  ASSUME IInv, NEW c \in Cpus, NEW d \in Cpus, next_thread[c] = None, TakeFirst(c, d),
         UNCHANGED <<thd, state, priority, current_cpu>>,
         next_worksteal' \in [Cpus -> Cpus], pc' \in [Cpus -> Pcs], HandsOK'
  PROVE  IInv'
<1>1. PICK p \in Prios : \E i \in DOMAIN queue[d][p] :
        /\ next_thread' = [next_thread EXCEPT ![c] = queue[d][p][i]]
        /\ queue' = [queue EXCEPT ![d][p] = Del(@, queue[d][p][i])]
  BY DEF TakeFirst
<1>2. PICK i \in DOMAIN queue[d][p] :
        /\ next_thread' = [next_thread EXCEPT ![c] = queue[d][p][i]]
        /\ queue' = [queue EXCEPT ![d][p] = Del(@, queue[d][p][i])]
  BY <1>1
<1> DEFINE t == queue[d][p][i]
<1>3. t \in Threads /\ On(queue, t, d, p)
  BY SMT DEF IInv, Types, QueuesOK, On, Range
<1>4. next_thread' = [next_thread EXCEPT ![c] = t] /\ Deleted(queue, queue', d, p, t)
  BY <1>2 DEF Deleted
<1> HIDE DEF t
<1>5. QueuesOK(queue)
  BY DEF IInv, Types
<1>6. /\ QueuesOK(queue')
      /\ \A u \in Threads, e \in Cpus, r \in Prios :
           On(queue', u, e, r) <=> On(queue, u, e, r) /\ ~(u = t /\ e = d /\ r = p)
  BY <1>4, <1>5, QueueDel, SMT
<1>7. /\ next_thread' \in [Cpus -> Threads \union {None}]
      /\ next_thread'[c] = t /\ \A e \in Cpus : e # c => next_thread'[e] = next_thread[e]
  BY <1>3, <1>4 DEF IInv, Types
<1>8. thd' = thd /\ state' = state /\ priority' = priority /\ current_cpu' = current_cpu
  OBVIOUS
<1>9. \A e \in Cpus : thd[e] # t /\ next_thread[e] # t
  BY <1>3 DEF IInv, Once
<1>10. \A e \in Cpus, r \in Prios : On(queue, t, e, r) => e = d /\ r = p
  BY <1>3 DEF IInv, Once
<1>11. Types'
  BY <1>6, <1>7, <1>8 DEF IInv, Types
<1>12. Once'
  <2> SUFFICES ASSUME NEW u \in Threads, NEW e \in Cpus, NEW f \in Cpus
               PROVE  /\ \A r, s \in Prios : On(queue', u, e, r) /\ On(queue', u, f, s) => e = f /\ r = s
                      /\ \A r \in Prios : On(queue', u, e, r) => thd'[f] # u /\ next_thread'[f] # u
                      /\ thd'[e] = u => next_thread'[f] # u
                      /\ thd'[e] = u /\ thd'[f] = u => e = f
                      /\ next_thread'[e] = u /\ next_thread'[f] = u => e = f
    BY DEF Once
  <2>1. /\ \A r, s \in Prios : On(queue, u, e, r) /\ On(queue, u, f, s) => e = f /\ r = s
        /\ \A r \in Prios : On(queue, u, e, r) => thd[f] # u /\ next_thread[f] # u
        /\ thd[e] = u => next_thread[f] # u
        /\ thd[e] = u /\ thd[f] = u => e = f
        /\ next_thread[e] = u /\ next_thread[f] = u => e = f
    BY DEF IInv, Once
  <2>2. CASE u = t
    BY <1>6, <1>7, <1>8, <1>9, <1>10, <2>2
  <2>3. CASE u # t
    BY <1>6, <1>7, <1>8, <2>1, <2>3
  <2> QED
    BY <2>2, <2>3
<1>13. \A u \in Threads : Somewhere(u)' <=> Somewhere(u)
  <2> SUFFICES ASSUME NEW u \in Threads
               PROVE  Somewhere(u)' <=> Somewhere(u)
    OBVIOUS
  <2>1. CASE u = t
    BY <1>3, <1>7, <2>1 DEF Somewhere
  <2>2. CASE u # t
    <3>1. u # None
      BY NoneAssumption
    <3>2. \A e \in Cpus : next_thread'[e] = u <=> next_thread[e] = u
      BY <1>7, <2>2, <3>1
    <3> QED
      BY <1>6, <1>8, <2>2, <3>2 DEF Somewhere
  <2> QED
    BY <2>1, <2>2
<1>14. Kept' /\ Findable'
  BY <1>6, <1>8, <1>13, SMT DEF IInv, Kept, Findable
<1> QED
  BY <1>11, <1>12, <1>14 DEF IInv

\* run() takes the thread that was picked into its hands.
LEMMA SwitchIntoKeeps ==
  ASSUME IInv, NEW c \in Cpus, SwitchInto(c)
  PROVE  IInv'
<1>1. /\ pc[c] = "switch" /\ pc' = [pc EXCEPT ![c] = "run"]
      /\ thd' = [thd EXCEPT ![c] = next_thread[c]]
      /\ next_thread' = [next_thread EXCEPT ![c] = None]
      /\ queue' = queue /\ priority' = priority /\ next_worksteal' = next_worksteal
  BY DEF SwitchInto, Goto
<1>2. /\ thd \in [Cpus -> Threads \union {None}] /\ next_thread \in [Cpus -> Threads \union {None}]
      /\ pc \in [Cpus -> Pcs] /\ state \in [Threads -> States]
      /\ current_cpu \in [Threads -> Cpus \union {-1}]
  BY DEF IInv, Types
<1>3. thd[c] = None
  BY <1>1 DEF IInv, HandsOK
<1>4. /\ thd'[c] = next_thread[c] /\ next_thread'[c] = None
      /\ \A e \in Cpus : e # c => thd'[e] = thd[e] /\ next_thread'[e] = next_thread[e]
      /\ thd' \in [Cpus -> Threads \union {None}]
      /\ next_thread' \in [Cpus -> Threads \union {None}] /\ pc' \in [Cpus -> Pcs]
  BY <1>1, <1>2 DEF Pcs
<1>5. /\ state' \in [Threads -> States] /\ current_cpu' \in [Threads -> Cpus \union {-1}]
      /\ \A u \in Threads : u # next_thread[c] => state'[u] = state[u] /\ current_cpu'[u] = current_cpu[u]
      /\ next_thread[c] \in Threads => state'[next_thread[c]] = RUNNING
  <2>1. CASE next_thread[c] = None /\ UNCHANGED <<state, has_run, current_cpu, run>>
    BY <1>2, <2>1, NoneAssumption
  <2>2. CASE \E t \in Threads :
               /\ next_thread[c] = t
               /\ state' = [state EXCEPT ![t] = RUNNING]
               /\ current_cpu' = [current_cpu EXCEPT ![t] = c]
    BY <1>2, <2>2 DEF States
  <2> QED
    BY <2>1, <2>2 DEF SwitchInto
<1>6. Types'
  BY <1>1, <1>4, <1>5 DEF IInv, Types
<1>7. HandsOK'
  BY <1>1, <1>2, <1>4 DEF IInv, HandsOK
<1>8. Once'
  <2> SUFFICES ASSUME NEW u \in Threads, NEW e \in Cpus, NEW f \in Cpus
               PROVE  /\ \A r, s \in Prios : On(queue, u, e, r) /\ On(queue, u, f, s) => e = f /\ r = s
                      /\ \A r \in Prios : On(queue, u, e, r) => thd'[f] # u /\ next_thread'[f] # u
                      /\ thd'[e] = u => next_thread'[f] # u
                      /\ thd'[e] = u /\ thd'[f] = u => e = f
                      /\ next_thread'[e] = u /\ next_thread'[f] = u => e = f
    BY <1>1, SMT DEF Once
  <2>1. u # None
    BY NoneAssumption
  <2>2. \A g, h \in Cpus :
          /\ \A r, s \in Prios : On(queue, u, g, r) /\ On(queue, u, h, s) => g = h /\ r = s
          /\ \A r \in Prios : On(queue, u, g, r) => thd[h] # u /\ next_thread[h] # u
          /\ thd[g] = u => next_thread[h] # u
          /\ thd[g] = u /\ thd[h] = u => g = h
          /\ next_thread[g] = u /\ next_thread[h] = u => g = h
    BY DEF IInv, Once
  <2> QED
    BY <1>3, <1>4, <2>1, <2>2
<1>9. \A u \in Threads : Somewhere(u)' <=> Somewhere(u)
  <2>1. \A u \in Threads : (\E e \in Cpus : thd'[e] = u \/ next_thread'[e] = u)
                             <=> (\E e \in Cpus : thd[e] = u \/ next_thread[e] = u)
    BY <1>3, <1>4, NoneAssumption
  <2> QED
    BY <1>1, <2>1 DEF Somewhere
<1>10. Kept'
  <2> SUFFICES ASSUME NEW u \in Threads
               PROVE  state'[u] # EMBRYO <=> Somewhere(u)
    BY <1>9 DEF Kept
  <2>1. CASE u = next_thread[c]
    BY <1>5, <2>1 DEF Somewhere, RUNNING, EMBRYO
  <2>2. CASE u # next_thread[c]
    BY <1>5, <2>2 DEF IInv, Kept
  <2> QED
    BY <2>1, <2>2
<1>11. Findable'
  <2>1. \A u \in Threads, e \in Cpus, r \in Prios : On(queue, u, e, r) => u # next_thread[c]
    BY DEF IInv, Once
  <2> QED
    BY <1>1, <1>5, <2>1 DEF IInv, Findable
<1> QED
  BY <1>6, <1>7, <1>8, <1>10, <1>11 DEF IInv

\* sched::add_task on CPU c, of a thread that is on no queue and in no hands after
\* the step.
LEMMA AddKeeps ==
  ASSUME IInv, NEW c \in Cpus, NEW t \in Threads, AddTask(c, t),
         \A d \in Cpus, p \in Prios : ~On(queue, t, d, p),
         \A d \in Cpus : next_thread[d] # t /\ thd'[d] # t,
         \A d \in Cpus : thd'[d] = thd[d] \/ (thd[d] = t /\ thd'[d] = None),
         thd' \in [Cpus -> Threads \union {None}], pc' \in [Cpus -> Pcs], HandsOK',
         state' \in [Threads -> States], state'[t] # EMBRYO,
         \A u \in Threads : u # t => state'[u] = state[u],
         UNCHANGED <<next_thread, next_worksteal>>
  PROVE  IInv'
<1>1. priority \in [Threads -> Prios] /\ current_cpu \in [Threads -> Cpus \union {-1}]
      /\ QueuesOK(queue)
  BY DEF IInv, Types
<1>2. PICK p0 : /\ p0 = CASE Bad(t) /\ priority[t] < NQueues - 1 -> priority[t] + 1
                          [] (~Bad(t) /\ good_streak[t] + 1 > priority[t] * 2 + NQueues)
                               /\ priority[t] > 0 -> priority[t] - 1
                          [] OTHER -> priority[t]
                /\ priority' = [priority EXCEPT ![t] = p0]
                /\ queue' = [queue EXCEPT ![c][p0] = Append(@, t)]
  BY DEF AddTask
<1>3. p0 \in Prios
  <2>1. priority[t] \in Nat /\ priority[t] <= NQueues - 1 /\ NQueues \in Nat
    BY <1>1, SizeAssumption, SMT DEF Prios
  <2>2. CASE Bad(t) /\ priority[t] < NQueues - 1
    BY <1>2, <2>1, <2>2, SMT DEF Prios
  <2>3. CASE Bad(t) /\ ~(priority[t] < NQueues - 1)
    BY <1>1, <1>2, <2>3
  <2>4. CASE ~Bad(t)
    <3>1. p0 = priority[t] \/ (priority[t] > 0 /\ p0 = priority[t] - 1)
      BY <1>2, <2>4
    <3> QED
      BY <2>1, <3>1, SMT DEF Prios
  <2> QED
    BY <2>2, <2>3, <2>4
<1>4. /\ priority' \in [Threads -> Prios] /\ priority'[t] = p0
      /\ \A u \in Threads : u # t => priority'[u] = priority[u]
  BY <1>1, <1>2, <1>3
<1>5. /\ current_cpu' \in [Threads -> Cpus \union {-1}] /\ current_cpu'[t] = c
      /\ \A u \in Threads : u # t => current_cpu'[u] = current_cpu[u]
  BY <1>1 DEF AddTask
<1>6. /\ QueuesOK(queue')
      /\ \A u \in Threads, d \in Cpus, r \in Prios :
           On(queue', u, d, r) <=> On(queue, u, d, r) \/ (u = t /\ d = c /\ r = p0)
  <2>1. Appended(queue, queue', c, p0, t)
    BY <1>2 DEF Appended
  <2> QED
    BY <1>1, <1>3, <2>1, QueueAppend, SMT
<1>7. t # None /\ \A u \in Threads : u # None
  BY NoneAssumption
<1>8. Types'
  BY <1>4, <1>5, <1>6 DEF IInv, Types
<1>9. Once'
  <2> SUFFICES ASSUME NEW u \in Threads, NEW e \in Cpus, NEW f \in Cpus
               PROVE  /\ \A r, s \in Prios : On(queue', u, e, r) /\ On(queue', u, f, s) => e = f /\ r = s
                      /\ \A r \in Prios : On(queue', u, e, r) => thd'[f] # u /\ next_thread'[f] # u
                      /\ thd'[e] = u => next_thread'[f] # u
                      /\ thd'[e] = u /\ thd'[f] = u => e = f
                      /\ next_thread'[e] = u /\ next_thread'[f] = u => e = f
    BY DEF Once
  <2>1. /\ \A r, s \in Prios : On(queue, u, e, r) /\ On(queue, u, f, s) => e = f /\ r = s
        /\ \A r \in Prios : On(queue, u, e, r) => thd[f] # u /\ next_thread[f] # u
        /\ thd[e] = u => next_thread[f] # u
        /\ thd[e] = u /\ thd[f] = u => e = f
        /\ next_thread[e] = u /\ next_thread[f] = u => e = f
    BY SMT DEF IInv, Once
  <2>2. next_thread' = next_thread
    OBVIOUS
  <2>3. CASE u = t
    BY <1>6, <2>2, <2>3, SMT
  <2>4. CASE u # t
    BY <1>6, <1>7, <2>1, <2>2, <2>4
  <2> QED
    BY <2>3, <2>4
<1>10. Kept'
  <2> SUFFICES ASSUME NEW u \in Threads
               PROVE  state'[u] # EMBRYO <=> Somewhere(u)'
    BY DEF Kept
  <2>1. CASE u = t
    BY <1>3, <1>6, <2>1 DEF Somewhere
  <2>2. CASE u # t
    <3>1. \A d \in Cpus : (thd'[d] = u <=> thd[d] = u) /\ next_thread'[d] = next_thread[d]
      BY <1>7, <2>2
    <3>2. Somewhere(u)' <=> Somewhere(u)
      BY <1>6, <2>2, <3>1 DEF Somewhere
    <3> QED
      BY <2>2, <3>2 DEF IInv, Kept
  <2> QED
    BY <2>1, <2>2
<1>11. Findable'
  BY <1>4, <1>5, <1>6, SMT DEF IInv, Findable
<1> QED
  BY <1>8, <1>9, <1>10, <1>11 DEF IInv

\* mlfq::boost: a thread stays on the queues of its CPU, and its priority follows it.
LEMMA BoostKeeps ==
  ASSUME IInv, NEW c \in Cpus, Boost(c), pc' \in [Cpus -> Pcs], HandsOK',
         UNCHANGED <<state, current_cpu, thd, next_thread, next_worksteal>>
  PROVE  IInv'
<1>1. /\ priority \in [Threads -> Prios] /\ QueuesOK(queue)
      /\ thd' = thd /\ next_thread' = next_thread /\ state' = state /\ current_cpu' = current_cpu
  BY DEF IInv, Types
<1>2. \A t \in Threads, p, r \in Prios : On(queue, t, c, p) /\ On(queue, t, c, r) => p = r
  BY DEF IInv, Once
<1>3. BoostedAt(queue, queue', c)
  BY DEF Boost, BoostedAt
<1>4. /\ QueuesOK(queue')
      /\ \A t \in Threads, d \in Cpus, r \in Prios :
           d # c => (On(queue', t, d, r) <=> On(queue, t, d, r))
      /\ \A t \in Threads, s \in Prios : On(queue, t, c, s) =>
           On(queue', t, c, IF Moves(queue[c], t, s) THEN s \div 2 ELSE s)
      /\ \A t \in Threads, r \in Prios : On(queue', t, c, r) =>
           \E s \in Prios : On(queue, t, c, s) /\ r = IF Moves(queue[c], t, s) THEN s \div 2 ELSE s
  BY <1>1, <1>2, <1>3, QueueBoost
<1>5. \A s \in Prios : s \div 2 \in Prios
  BY SizeAssumption, SMT DEF Prios
<1>6. /\ priority' \in [Threads -> Prios]
      /\ \A t \in Threads : priority'[t] = IF \E p \in Prios : Moves(queue[c], t, p)
                                           THEN priority[t] \div 2 ELSE priority[t]
  BY <1>1, <1>5 DEF Boost, Moves
<1>7. \A t \in Threads, p \in Prios : Moves(queue[c], t, p) => On(queue, t, c, p)
  <2>1. queue[c] \in [Prios -> Seq(Threads)] /\ \A p \in Prios : IsInjective(queue[c][p])
    BY <1>1 DEF QueuesOK
  <2> QED
    BY <2>1, BoostParts DEF On
<1>8. \A t \in Threads, d \in Cpus :
        (\E r \in Prios : On(queue', t, d, r)) <=> (\E r \in Prios : On(queue, t, d, r))
  <2> SUFFICES ASSUME NEW t \in Threads, NEW d \in Cpus
               PROVE  (\E r \in Prios : On(queue', t, d, r)) <=> (\E r \in Prios : On(queue, t, d, r))
    OBVIOUS
  <2>1. CASE d # c
    BY <1>4, <2>1
  <2>2. CASE d = c
    BY <1>4, <1>5, <2>2
  <2> QED
    BY <2>1, <2>2
<1>9. Types'
  BY <1>1, <1>4, <1>6 DEF IInv, Types
<1>10. \A t \in Threads, r, s \in Prios : On(queue', t, c, r) /\ On(queue', t, c, s) => r = s
  <2> SUFFICES ASSUME NEW t \in Threads, NEW r \in Prios, NEW s \in Prios,
                      On(queue', t, c, r), On(queue', t, c, s)
               PROVE  r = s
    OBVIOUS
  <2>1. PICK x \in Prios : On(queue, t, c, x) /\ r = IF Moves(queue[c], t, x) THEN x \div 2 ELSE x
    BY <1>4
  <2>2. PICK y \in Prios : On(queue, t, c, y) /\ s = IF Moves(queue[c], t, y) THEN y \div 2 ELSE y
    BY <1>4
  <2>3. x = y
    BY <1>2, <2>1, <2>2
  <2> QED
    BY <2>1, <2>2, <2>3
<1>11. Once'
  <2> SUFFICES ASSUME NEW u \in Threads, NEW e \in Cpus, NEW f \in Cpus
               PROVE  /\ \A r, s \in Prios : On(queue', u, e, r) /\ On(queue', u, f, s) => e = f /\ r = s
                      /\ \A r \in Prios : On(queue', u, e, r) => thd[f] # u /\ next_thread[f] # u
                      /\ thd[e] = u => next_thread[f] # u
                      /\ thd[e] = u /\ thd[f] = u => e = f
                      /\ next_thread[e] = u /\ next_thread[f] = u => e = f
    BY <1>1, SMT DEF Once
  <2>1. /\ \A r, s \in Prios : On(queue, u, e, r) /\ On(queue, u, f, s) => e = f /\ r = s
        /\ \A r \in Prios : On(queue, u, e, r) => thd[f] # u /\ next_thread[f] # u
        /\ thd[e] = u => next_thread[f] # u
        /\ thd[e] = u /\ thd[f] = u => e = f
        /\ next_thread[e] = u /\ next_thread[f] = u => e = f
    BY DEF IInv, Once
  <2>2. ASSUME NEW r \in Prios, NEW s \in Prios, On(queue', u, e, r), On(queue', u, f, s)
        PROVE  e = f /\ r = s
    <3>1. e = f
      BY <1>8, <2>1, <2>2
    <3>2. CASE e = c
      BY <1>10, <2>2, <3>1, <3>2
    <3>3. CASE e # c
      BY <1>4, <2>1, <2>2, <3>1, <3>3
    <3> QED
      BY <3>1, <3>2, <3>3
  <2>3. \A r \in Prios : On(queue', u, e, r) => thd[f] # u /\ next_thread[f] # u
    BY <1>8, <2>1
  <2> QED
    BY <2>1, <2>2, <2>3
<1>12. Kept'
  <2>1. \A u \in Threads : Somewhere(u)' <=> Somewhere(u)
    BY <1>1, <1>8 DEF Somewhere
  <2> QED
    BY <1>1, <2>1 DEF IInv, Kept
<1>13. Findable'
  <2> SUFFICES ASSUME NEW t \in Threads, NEW d \in Cpus, NEW r \in Prios, On(queue', t, d, r)
               PROVE  current_cpu[t] = d /\ priority'[t] = r
    BY <1>1 DEF Findable
  <2>1. CASE d # c
    <3>1. On(queue, t, d, r)
      BY <1>4, <2>1
    <3>2. \A p \in Prios : ~On(queue, t, c, p)
      BY <2>1, <3>1 DEF IInv, Once
    <3>3. priority'[t] = priority[t]
      BY <1>6, <1>7, <3>2
    <3> QED
      BY <3>1, <3>3 DEF IInv, Findable
  <2>2. CASE d = c
    <3>1. PICK s \in Prios : On(queue, t, c, s) /\ r = IF Moves(queue[c], t, s) THEN s \div 2 ELSE s
      BY <1>4, <2>2
    <3>2. priority[t] = s /\ current_cpu[t] = c
      BY <3>1 DEF IInv, Findable
    <3>3. (\E p \in Prios : Moves(queue[c], t, p)) <=> Moves(queue[c], t, s)
      BY <1>2, <1>7, <3>1
    <3> QED
      BY <1>6, <2>2, <3>1, <3>2, <3>3
  <2> QED
    BY <2>1, <2>2
<1> QED
  BY <1>9, <1>11, <1>12, <1>13 DEF IInv


\* sched::init and the first kickoff establish the invariant.
LEMMA InitIInv == Init => IInv
<1> SUFFICES ASSUME Init PROVE IInv
  OBVIOUS
<1>1. PICK t \in Threads :
        /\ queue = [c \in Cpus |-> [p \in Prios |-> IF c = 0 /\ p = 0 THEN <<t>> ELSE <<>>]]
        /\ state = [u \in Threads |-> IF u = t THEN RUNNING ELSE EMBRYO]
        /\ current_cpu = [u \in Threads |-> IF u = t THEN 0 ELSE -1]
  BY DEF Init
<1>2. 0 \in Cpus /\ 0 \in Prios
  BY SizeAssumption, SMT DEF Cpus, Prios
<1>3. /\ pc = [c \in Cpus |-> "loop"] /\ thd = [c \in Cpus |-> None]
      /\ next_thread = [c \in Cpus |-> None] /\ priority = [u \in Threads |-> 0]
      /\ next_worksteal = [c \in Cpus |-> 0]
  BY DEF Init
<1>4. /\ <<t>> \in Seq(Threads) /\ IsInjective(<<t>>) /\ Range(<<t>>) = {t}
      /\ <<>> \in Seq(Threads) /\ IsInjective(<<>>) /\ Range(<<>>) = {}
  BY SMT DEF IsInjective, Range
<1>5. \A c \in Cpus, p \in Prios : queue[c][p] = IF c = 0 /\ p = 0 THEN <<t>> ELSE <<>>
  BY <1>1
<1>6. queue \in [Cpus -> [Prios -> Seq(Threads)]]
  BY <1>1, <1>4
<1>7. QueuesOK(queue)
  BY <1>4, <1>5, <1>6 DEF QueuesOK
<1>8. \A u \in Threads, c \in Cpus, p \in Prios : On(queue, u, c, p) <=> u = t /\ c = 0 /\ p = 0
  BY <1>4, <1>5 DEF On
<1>9. state \in [Threads -> States] /\ current_cpu \in [Threads -> Cpus \union {-1}]
  BY <1>1, <1>2 DEF States
<1>10. Types
  BY <1>2, <1>3, <1>7, <1>9 DEF Types, Pcs
<1>11. HandsOK
  BY <1>3 DEF HandsOK
<1>12. Once
  BY <1>3, <1>8, NoneAssumption, SMT DEF Once
<1>13. Kept
  <2>1. \A u \in Threads : Somewhere(u) <=> u = t
    BY <1>2, <1>3, <1>8, NoneAssumption DEF Somewhere
  <2> QED
    BY <1>1, <2>1 DEF Kept, RUNNING, EMBRYO
<1>14. Findable
  BY <1>1, <1>3, <1>8 DEF Findable
<1> QED
  BY <1>10, <1>11, <1>12, <1>13, <1>14 DEF IInv

\* The top of the loop of run(), with a boost or without.
LEMMA LoopKeeps ==
  ASSUME IInv, NEW c \in Cpus, Loop(c)
  PROVE  IInv'
<1>1. /\ pc[c] = "loop" /\ pc' = [pc EXCEPT ![c] = "pick"]
      /\ UNCHANGED <<state, current_cpu, thd, next_thread, next_worksteal>>
  BY DEF Loop, Goto
<1>2. pc \in [Cpus -> Pcs] /\ thd[c] = None
  BY <1>1 DEF IInv, Types, HandsOK
<1>3. CASE Boost(c)
  <2>1. pc' \in [Cpus -> Pcs]
    BY <1>1, <1>2 DEF Pcs
  <2>2. HandsOK'
    BY <1>1, <1>2 DEF IInv, HandsOK
  <2> QED
    BY <1>1, <1>3, <2>1, <2>2, BoostKeeps
<1>4. CASE UNCHANGED <<queue, priority>>
  <2>1. /\ Still /\ UNCHANGED <<state, priority, current_cpu>>
        /\ next_worksteal' \in [Cpus -> Cpus]
    BY <1>1, <1>4 DEF Still, IInv, Types
  <2>2. "pick" \in Pcs
    BY DEF Pcs
  <2> QED
    BY <1>1, <1>2, <2>1, <2>2, GotoKeeps
<1> QED
  BY <1>3, <1>4 DEF Loop

\* pick_next_thread() returns to run() or to the tick.
LEMMA PickedTo ==
  ASSUME IInv, NEW c \in Cpus, pc[c] \in {"pick", "steal", "tick", "tick_steal"}, Picked(c)
  PROVE  \E to \in {"switch", "iret"} :
           pc' = [pc EXCEPT ![c] = to] /\ (to = "switch" => thd[c] = None)
<1>1. CASE pc[c] \in {"pick", "steal"}
  BY <1>1 DEF Picked, Goto, IInv, HandsOK
<1>2. CASE pc[c] \notin {"pick", "steal"}
  BY <1>2 DEF Picked, Goto
<1> QED
  BY <1>1, <1>2

\* A step that picks a thread, or none.
LEMMA PickKeeps ==
  ASSUME IInv, NEW c \in Cpus, NEW d \in Cpus,
         pc[c] \in {"pick", "steal", "tick", "tick_steal"}, Picked(c),
         next_thread[c] = None, TakeFirst(c, d),
         UNCHANGED <<thd, state, priority, current_cpu>>, next_worksteal' \in [Cpus -> Cpus]
  PROVE  IInv'
<1>1. PICK to \in {"switch", "iret"} :
        pc' = [pc EXCEPT ![c] = to] /\ (to = "switch" => thd[c] = None)
  BY PickedTo
<1>2. pc \in [Cpus -> Pcs] /\ next_thread \in [Cpus -> Threads \union {None}] /\ thd' = thd
  BY DEF IInv, Types
<1>3. pc' \in [Cpus -> Pcs]
  BY <1>1, <1>2 DEF Pcs
<1>4. \A e \in Cpus : e # c => next_thread'[e] = next_thread[e]
  BY <1>2 DEF TakeFirst
<1>5. HandsOK'
  BY <1>1, <1>2, <1>4 DEF IInv, HandsOK
<1> QED
  BY <1>3, <1>5, TakeKeeps

\* ... and none is picked.
LEMMA PickNoneKeeps ==
  ASSUME IInv, NEW c \in Cpus, pc[c] \in {"pick", "steal", "tick", "tick_steal"}, Picked(c),
         UNCHANGED <<queue, next_thread, thd, state, priority, current_cpu>>,
         next_worksteal' \in [Cpus -> Cpus]
  PROVE  IInv'
<1>1. PICK to \in {"switch", "iret"} :
        pc' = [pc EXCEPT ![c] = to] /\ (to = "switch" => thd[c] = None)
  BY PickedTo
<1>2. Still /\ to \in Pcs
  BY DEF Still, Pcs
<1> QED
  BY <1>1, <1>2, GotoKeeps

\* pick_next_thread and get_next.
LEMMA GetNextKeeps ==
  ASSUME IInv, NEW c \in Cpus, GetNext(c)
  PROVE  IInv'
<1>1. /\ pc[c] \in {"pick", "tick"} /\ UNCHANGED <<thd, state, priority, current_cpu>>
      /\ next_worksteal' \in [Cpus -> Cpus]
  BY DEF GetNext, sched, IInv, Types
<1>2. CASE Picked(c) /\ UNCHANGED <<queue, next_thread>>
  BY <1>1, <1>2, PickNoneKeeps
<1>3. CASE next_thread[c] = None /\ TakeFirst(c, c) /\ Picked(c)
  BY <1>1, <1>3, PickKeeps
<1>4. CASE /\ next_thread[c] = None /\ UNCHANGED <<queue, next_thread>>
           /\ Goto(c, IF pc[c] = "pick" THEN "steal" ELSE "tick_steal")
  <2> DEFINE to == IF pc[c] = "pick" THEN "steal" ELSE "tick_steal"
  <2>1. pc' = [pc EXCEPT ![c] = to]
    BY <1>4 DEF Goto
  <2>2. to \in Pcs /\ (to \in {"loop", "pick", "steal", "switch"} => thd[c] = None) /\ to # "add"
    BY <1>1 DEF Pcs, IInv, HandsOK
  <2>3. Still
    BY <1>1, <1>4 DEF Still
  <2> HIDE DEF to
  <2> QED
    BY <1>1, <1>4, <2>1, <2>2, <2>3, GotoKeeps
<1> QED
  BY <1>2, <1>3, <1>4 DEF GetNext

\* worksteal and steal; the CPU that is tried is one.
LEMMA StealKeepsIInv ==
  ASSUME IInv, NEW c \in Cpus, Steal(c)
  PROVE  IInv'
<1>1. /\ pc[c] \in {"steal", "tick_steal"} /\ UNCHANGED <<thd, state, priority, current_cpu>>
      /\ Picked(c) /\ next_worksteal' = [next_worksteal EXCEPT ![c] = StealAfter(c)]
  BY DEF Steal, sched
<1>2. next_worksteal[c] \in Nat /\ NCpus \in Nat /\ NCpus > 0
  BY SizeAssumption, SMT DEF IInv, Types, Cpus
<1>3. StealTurn(c) \in Nat
  BY <1>2, SMT DEF StealTurn
<1>4. StealTarget(c) \in Cpus /\ StealAfter(c) \in Cpus
  BY <1>2, <1>3, SMT DEF StealTarget, StealAfter, Cpus
<1>5. next_worksteal' \in [Cpus -> Cpus]
  BY <1>1, <1>4 DEF IInv, Types
<1>6. next_thread[c] = None
  BY <1>1 DEF IInv, HandsOK
<1>7. CASE TakeFirst(c, StealTarget(c))
  BY <1>1, <1>4, <1>5, <1>6, <1>7, PickKeeps
<1>8. CASE UNCHANGED <<queue, next_thread>>
  BY <1>1, <1>5, <1>8, PickNoneKeeps
<1> QED
  BY <1>7, <1>8 DEF Steal

\* The end of switch_into: an idle CPU goes on, another one has a thread to queue.
LEMMA SwitchedOutKeeps ==
  ASSUME IInv, NEW c \in Cpus, SwitchedOut(c)
  PROVE  IInv'
<1>1. /\ UNCHANGED <<state, priority, current_cpu>> /\ next_worksteal' \in [Cpus -> Cpus] /\ Still
  BY DEF SwitchedOut, sched, IInv, Types, Still
<1>2. PICK to \in {"loop", "add"} :
        pc' = [pc EXCEPT ![c] = to] /\ (to = "loop" <=> thd[c] = None)
  BY NoneAssumption DEF SwitchedOut, Goto
<1>3. to \in Pcs
  BY DEF Pcs
<1> QED
  BY <1>1, <1>2, <1>3, GotoKeeps

\* run() queues the thread that it has in its hands.
LEMMA AddKeepsIInv ==
  ASSUME IInv, NEW c \in Cpus, Add(c)
  PROVE  IInv'
<1> DEFINE t == thd[c]
<1>1. /\ pc[c] = "add" /\ AddTask(c, t) /\ thd' = [thd EXCEPT ![c] = None]
      /\ pc' = [pc EXCEPT ![c] = "loop"] /\ state' = state
      /\ UNCHANGED <<next_thread, next_worksteal>>
  BY DEF Add, Goto
<1>2. /\ thd \in [Cpus -> Threads \union {None}] /\ pc \in [Cpus -> Pcs]
      /\ state \in [Threads -> States]
  BY DEF IInv, Types
<1>3. t \in Threads
  BY <1>1, <1>2 DEF IInv, HandsOK
<1>4. \A d \in Cpus : thd[d] = t => d = c
  BY <1>3 DEF IInv, Once
<1>5. \A d \in Cpus, p \in Prios : ~On(queue, t, d, p)
  BY <1>3 DEF IInv, Once
<1>6. \A d \in Cpus : next_thread[d] # t
  BY <1>3 DEF IInv, Once
<1>7. \A d \in Cpus : thd'[d] # t /\ (thd'[d] = thd[d] \/ (thd[d] = t /\ thd'[d] = None))
  BY <1>1, <1>2, <1>3, <1>4, NoneAssumption
<1>8. thd' \in [Cpus -> Threads \union {None}] /\ pc' \in [Cpus -> Pcs]
  BY <1>1, <1>2 DEF Pcs
<1>9. HandsOK'
  BY <1>1, <1>2 DEF IInv, HandsOK
<1>10. state[t] # EMBRYO
  BY <1>3 DEF IInv, Kept, Somewhere
<1> HIDE DEF t
<1> QED
  BY <1>1, <1>2, <1>3, <1>5, <1>6, <1>7, <1>8, <1>9, <1>10, AddKeeps

\* kickoff queues a new thread, which is nowhere before.
LEMMA KickoffKeeps ==
  ASSUME IInv, NEW c \in Cpus, NEW t \in Threads, Kickoff(c, t)
  PROVE  IInv'
<1>1. /\ AddTask(c, t) /\ state[t] = EMBRYO /\ state' = [state EXCEPT ![t] = RUNNING]
      /\ thd' = thd /\ pc' = pc /\ next_thread' = next_thread /\ next_worksteal' = next_worksteal
  BY DEF Kickoff
<1>2. /\ thd \in [Cpus -> Threads \union {None}] /\ pc \in [Cpus -> Pcs]
      /\ state \in [Threads -> States]
  BY DEF IInv, Types
<1>3. ~Somewhere(t)
  BY <1>1 DEF IInv, Kept
<1>4. \A d \in Cpus, p \in Prios : ~On(queue, t, d, p)
  BY <1>3 DEF Somewhere
<1>5. \A d \in Cpus : next_thread[d] # t /\ thd[d] # t
  BY <1>3 DEF Somewhere
<1>6. /\ state' \in [Threads -> States] /\ state'[t] # EMBRYO
      /\ \A u \in Threads : u # t => state'[u] = state[u]
  BY <1>1, <1>2 DEF States, RUNNING, EMBRYO
<1>7. HandsOK'
  BY <1>1 DEF IInv, HandsOK
<1> QED
  BY <1>1, <1>2, <1>4, <1>5, <1>6, <1>7, AddKeeps

\* handle_tick moves no thread.
LEMMA TickKeeps ==
  ASSUME IInv, NEW c \in Cpus, Tick(c)
  PROVE  IInv'
<1>1. /\ UNCHANGED <<state, priority, current_cpu>> /\ next_worksteal' \in [Cpus -> Cpus] /\ Still
  BY DEF Tick, IInv, Types, Still
<1>2. PICK to \in {"tick", "iret"} : pc' = [pc EXCEPT ![c] = to]
  BY DEF Tick, Goto
<1>3. to \in Pcs
  BY DEF Pcs
<1> QED
  BY <1>1, <1>2, <1>3, GotoKeeps

\* before_iret returns to the thread, or yields.
LEMMA BeforeIretKeeps ==
  ASSUME IInv, NEW c \in Cpus, BeforeIret(c)
  PROVE  IInv'
<1>1. /\ pc[c] = "iret" /\ UNCHANGED <<state, priority, next_worksteal>> /\ Still
      /\ next_worksteal' \in [Cpus -> Cpus]
  BY DEF BeforeIret, sched, IInv, Types, Still
<1>2. CASE YieldFrom(c)
  BY <1>1, <1>2, YieldKeeps
<1>3. CASE Goto(c, "run") /\ UNCHANGED current_cpu
  <2>1. "run" \in Pcs /\ pc' = [pc EXCEPT ![c] = "run"]
    BY <1>3 DEF Pcs, Goto
  <2> QED
    BY <1>1, <1>3, <2>1, GotoKeeps
<1> QED
  BY <1>2, <1>3 DEF BeforeIret

\* Every step preserves the invariant.
LEMMA NextIInv == IInv /\ [Next]_vars => IInv'
<1> SUFFICES ASSUME IInv, [Next]_vars PROVE IInv'
  OBVIOUS
<1>1. ASSUME NEW c \in Cpus, Cpu(c) PROVE IInv'
  BY <1>1, LoopKeeps, GetNextKeeps, StealKeepsIInv, SwitchIntoKeeps, SwitchedOutKeeps,
     AddKeepsIInv, TickKeeps, BeforeIretKeeps DEF Cpu
<1>2. ASSUME NEW c \in Cpus, Yield(c) PROVE IInv'
  <2>1. /\ pc[c] = "run" /\ YieldFrom(c) /\ UNCHANGED <<state, priority, next_worksteal>> /\ Still
    BY <1>2 DEF Yield, sched, Still
  <2> QED
    BY <2>1, YieldKeeps
<1>3. ASSUME NEW c \in Cpus, NEW t \in Threads, Kickoff(c, t) PROVE IInv'
  BY <1>3, KickoffKeeps
<1>4. ASSUME NEW c \in Cpus, NEW t \in Threads, NEW st \in Leaves, SetState(c, t, st) PROVE IInv'
  <2>1. /\ state[t] # EMBRYO /\ state' = [state EXCEPT ![t] = st] /\ Still
        /\ UNCHANGED <<priority, current_cpu, pc, next_worksteal>>
    BY <1>4 DEF SetState, sched, Still, RUNNING, EMBRYO
  <2>2. st \in States \ {EMBRYO}
    BY LeavesAssumption DEF States, EMBRYO, RUNNING, INTERRUPTIBLE, ZOMBIE
  <2> QED
    BY <2>1, <2>2, StateKeeps
<1>5. ASSUME NEW t \in Threads, Unblock(t) PROVE IInv'
  <2>1. /\ state[t] # EMBRYO /\ state' = [state EXCEPT ![t] = RUNNING] /\ Still
        /\ UNCHANGED <<priority, current_cpu, pc, next_worksteal>>
    BY <1>5 DEF Unblock, sched, Still, INTERRUPTIBLE, EMBRYO
  <2>2. RUNNING \in States \ {EMBRYO}
    BY DEF States, EMBRYO, RUNNING
  <2> QED
    BY <2>1, <2>2, StateKeeps
<1>6. CASE UNCHANGED vars
  <2>1. /\ queue' = queue /\ thd' = thd /\ next_thread' = next_thread /\ state' = state
        /\ priority' = priority /\ current_cpu' = current_cpu /\ pc' = pc
        /\ next_worksteal' = next_worksteal
    BY <1>6 DEF vars
  <2>2. Types' /\ HandsOK' /\ Findable' /\ Once' /\ Kept'
    BY <2>1, SMT DEF IInv, Types, HandsOK, Findable, Once, Kept, Somewhere
  <2> QED
    BY <2>2 DEF IInv
<1> QED
  BY <1>1, <1>2, <1>3, <1>4, <1>5, <1>6 DEF Next
------------------------------------------------------------------------------
\* The places of a thread, by the predicates of the invariant.
LEMMA PlacesAre ==
  ASSUME NEW t \in Threads, NEW x
  PROVE  x \in Places(t) <=>
           \/ \E c \in Cpus, p \in Prios : On(queue, t, c, p) /\ x = <<"queue", c, p>>
           \/ \E c \in Cpus : thd[c] = t /\ x = <<"thd", c>>
           \/ \E c \in Cpus : next_thread[c] = t /\ x = <<"next", c>>
<1> DEFINE Q == {y \in Cpus \X Prios : t \in Range(queue[y[1]][y[2]])}
<1>1. x \in {<<"queue", z[1], z[2]>> : z \in Q}
        <=> \E c \in Cpus, p \in Prios : On(queue, t, c, p) /\ x = <<"queue", c, p>>
  <2>1. ASSUME NEW z \in Q
        PROVE  z[1] \in Cpus /\ z[2] \in Prios /\ On(queue, t, z[1], z[2])
    BY DEF On
  <2>2. ASSUME NEW c \in Cpus, NEW p \in Prios, On(queue, t, c, p)
        PROVE  <<c, p>> \in Q /\ <<c, p>>[1] = c /\ <<c, p>>[2] = p
    BY <2>2 DEF On
  <2> HIDE DEF Q
  <2>3. ASSUME x \in {<<"queue", z[1], z[2]>> : z \in Q}
        PROVE  \E c \in Cpus, p \in Prios : On(queue, t, c, p) /\ x = <<"queue", c, p>>
    <3>1. PICK z \in Q : x = <<"queue", z[1], z[2]>>
      BY <2>3
    <3> QED
      BY <2>1, <3>1
  <2>4. ASSUME NEW c \in Cpus, NEW p \in Prios, On(queue, t, c, p), x = <<"queue", c, p>>
        PROVE  x \in {<<"queue", z[1], z[2]>> : z \in Q}
    <3> DEFINE z == <<c, p>>
    <3>1. z \in Q /\ x = <<"queue", z[1], z[2]>>
      BY <2>2, <2>4
    <3> HIDE DEF z
    <3> QED
      BY <3>1
  <2> QED
    BY <2>3, <2>4
<1>2. x \in {<<"thd", c>> : c \in {d \in Cpus : thd[d] = t}}
        <=> \E c \in Cpus : thd[c] = t /\ x = <<"thd", c>>
  OBVIOUS
<1>3. x \in {<<"next", c>> : c \in {d \in Cpus : next_thread[d] = t}}
        <=> \E c \in Cpus : next_thread[c] = t /\ x = <<"next", c>>
  OBVIOUS
<1> QED
  BY <1>1, <1>2, <1>3 DEF Places

\* Once and Kept are OnePlace.
LEMMA IInvOnePlace == IInv => OnePlace
<1> SUFFICES ASSUME IInv PROVE OnePlace
  OBVIOUS
<1>1. \A c \in Cpus, p \in Prios : IsInjective(queue[c][p])
  BY DEF IInv, Types, QueuesOK
<1>2. ASSUME NEW t \in Threads, state[t] = EMBRYO PROVE Places(t) = {}
  <2>1. ~Somewhere(t)
    BY <1>2 DEF IInv, Kept
  <2>2. \A x : x \notin Places(t)
    BY <2>1, PlacesAre DEF Somewhere
  <2> QED
    BY <2>2
<1>3. ASSUME NEW t \in Threads, state[t] # EMBRYO PROVE \E x \in Places(t) : Places(t) = {x}
  <2>1. Somewhere(t)
    BY <1>3 DEF IInv, Kept
  <2>2. PICK x : x \in Places(t)
    BY <2>1, PlacesAre DEF Somewhere
  <2>3. ASSUME NEW y \in Places(t) PROVE y = x
    <3>1. \A c, d \in Cpus :
            /\ \A p, r \in Prios : On(queue, t, c, p) /\ On(queue, t, d, r) => c = d /\ p = r
            /\ \A p \in Prios : On(queue, t, c, p) => thd[d] # t /\ next_thread[d] # t
            /\ thd[c] = t => next_thread[d] # t
            /\ thd[c] = t /\ thd[d] = t => c = d
            /\ next_thread[c] = t /\ next_thread[d] = t => c = d
      BY DEF IInv, Once
    <3>2. \/ \E c \in Cpus, p \in Prios : On(queue, t, c, p) /\ x = <<"queue", c, p>>
          \/ \E c \in Cpus : thd[c] = t /\ x = <<"thd", c>>
          \/ \E c \in Cpus : next_thread[c] = t /\ x = <<"next", c>>
      BY <2>2, PlacesAre
    <3>3. \/ \E c \in Cpus, p \in Prios : On(queue, t, c, p) /\ y = <<"queue", c, p>>
          \/ \E c \in Cpus : thd[c] = t /\ y = <<"thd", c>>
          \/ \E c \in Cpus : next_thread[c] = t /\ y = <<"next", c>>
      BY PlacesAre
    <3>4. CASE \E c \in Cpus, p \in Prios : On(queue, t, c, p) /\ x = <<"queue", c, p>>
      BY <3>1, <3>3, <3>4
    <3>5. CASE \E c \in Cpus : thd[c] = t /\ x = <<"thd", c>>
      BY <3>1, <3>3, <3>5
    <3>6. CASE \E c \in Cpus : next_thread[c] = t /\ x = <<"next", c>>
      BY <3>1, <3>3, <3>6
    <3> QED
      BY <3>2, <3>4, <3>5, <3>6
  <2> QED
    BY <2>2, <2>3
<1> QED
  BY <1>1, <1>2, <1>3 DEF OnePlace

\* kernel/sched/core.cpp: whatever run(), the ticks, the prefetches, the thieves and
\* the wakers do, a thread that was started is on one queue, once, or in the hands
\* of one CPU, and a new one is nowhere.
THEOREM NoThreadLost == Spec => []OnePlace
<1>1. Spec => []IInv
  BY InitIInv, NextIInv, PTL DEF Spec
<1> QED
  BY <1>1, IInvOnePlace, PTL

\* sched::remove_task and mlfq::remove: a queued thread is on the queue that its own
\* current_cpu and priority name, also after boost() moved it.
THEOREM RemoveFinds == Spec => []QueuedIsFindable
<1>1. Spec => []IInv
  BY InitIInv, NextIInv, PTL DEF Spec
<1>2. IInv => QueuedIsFindable
  <2> SUFFICES ASSUME IInv, NEW c \in Cpus, NEW p \in Prios, NEW t \in Range(queue[c][p])
               PROVE  current_cpu[t] = c /\ priority[t] = p
    BY DEF QueuedIsFindable
  <2>1. t \in Threads
    BY SMT DEF IInv, Types, QueuesOK, Range
  <2> QED
    BY <2>1 DEF IInv, Findable, On
<1> QED
  BY <1>1, <1>2, PTL

------------------------------------------------------------------------------
(* Files *)

Refs == Open!Files \union {Open!Null, None}
Steps == {"user", "found", "create", "open", "file", "acquire", "victim", "remove", "add_fd",
          "read", "dup2", "set", "undefined"}
CallRecord == [at : Steps, name : Names \union {None}, ino : Open!Inodes \union {None},
               newfd : Open!Fds \union {None}]

OpenTypes ==
  /\ name \in [Open!Inodes -> Names \union {None}] /\ rc \in [Open!Inodes -> Int]
  /\ dir \in SUBSET Open!Inodes /\ deleted \in SUBSET Open!Inodes /\ early \in SUBSET Open!Inodes
  /\ file \in [Open!Files -> Open!Inodes \union {None}]
  /\ fds \in [Procs -> [Open!Fds -> Refs]] /\ held \in [Callers -> Refs]
  /\ call \in [Callers -> CallRecord]

\* The arguments that a call goes on with, and the inodes that have been made.
Made(i) == i \in Open!Inodes /\ name[i] # None
CallOK(c) ==
  /\ c.at \in {"create", "acquire", "open", "remove", "victim"} => c.name \in Names
  /\ c.at \in {"found", "file", "victim", "remove", "acquire"} => Made(c.ino)
  /\ c.at \in {"dup2", "set"} => c.newfd \in Open!Fds
MadeOK ==
  /\ \A t \in Callers : CallOK(call[t])
  /\ \A i \in dir : Made(i)
  /\ \A f \in Open!Files : file[f] # None => Made(file[f])

\* A ref is to an open file.
RefsOK(table, refs) ==
  /\ \A p \in Procs, d \in Open!Fds : table[p][d] \in Open!Files => file[table[p][d]] # None
  /\ \A t \in Callers : refs[t] \in Open!Files => file[refs[t]] # None

\* The references that are counted: one of the inode that is never released, one
\* for each open file, and that of an entry which has been acquired.
Opened(i) == {f \in Open!Files : file[f] = i}
Acquiring(i) == \E u \in Callers : call[u].at = "acquire" /\ call[u].ino = i
Counted(i) == Cardinality(Opened(i)) + (IF i \in dir /\ ~Acquiring(i) THEN 2 ELSE 1)
CountOK == \A i \in Open!Inodes : Made(i) /\ i \notin early => rc[i] >= Counted(i)

OpenInv ==
  OpenTypes /\ MadeOK /\ RefsOK(fds, held) /\ CountOK /\ deleted \subseteq early

\* The sets of numbers that the types are made of.
LEMMA Kinds ==
  /\ Open!Files \subseteq Nat /\ Open!Inodes \subseteq Nat /\ Open!Fds \subseteq Nat
  /\ None \notin Open!Files /\ None \notin Open!Inodes /\ None \notin Open!Fds
  /\ None # Open!Null /\ Open!Null \notin Open!Files
  BY BoundsAssumption, SMT DEF Open!Files, Open!Inodes, Open!Fds, Open!Null

\* The open files of an inode can be counted.
LEMMA OpenedFinite == \A i : IsFiniteSet(Opened(i)) /\ Cardinality(Opened(i)) \in Nat
<1>1. IsFiniteSet(Open!Files)
  BY BoundsAssumption, FS_Interval, SMT DEF Open!Files
<1> QED BY <1>1, FS_Subset, FS_CardinalityType DEF Opened

\* A call that goes on elsewhere, with arguments that fit.
LEMMA CallGoesOn ==
  ASSUME OpenTypes, MadeOK, NEW t \in Callers, NEW c \in CallRecord, CallOK(c)',
         call' = [call EXCEPT ![t] = c], \A i : Made(i) => Made(i)'
  PROVE  call' \in [Callers -> CallRecord] /\ \A u \in Callers : CallOK(call[u])'
<1>1. call' \in [Callers -> CallRecord] /\ \A u \in Callers \ {t} : call'[u] = call[u]
  BY DEF OpenTypes
<1>2. \A u \in Callers \ {t} : CallOK(call[u])'
  BY <1>1 DEF MadeOK, CallOK
<1>3. CallOK(call[t])'
  BY DEF OpenTypes, CallOK
<1> QED BY <1>1, <1>2, <1>3

\* Whether an entry is still to be acquired, once thread t goes on to c.
LEMMA AcquiringStays ==
  ASSUME OpenTypes, NEW t \in Callers, NEW c \in CallRecord, call' = [call EXCEPT ![t] = c],
         c.at # "acquire", NEW i, call[t].at = "acquire" => call[t].ino # i
  PROVE  Acquiring(i)' <=> Acquiring(i)
  BY DEF OpenTypes, Acquiring

\* A step that only moves thread t, and not on from an entry to be acquired.
LEMMA CallStep ==
  ASSUME OpenInv, NEW t \in Callers, NEW c \in CallRecord, CallOK(c)', call' = [call EXCEPT ![t] = c],
         c.at # "acquire", call[t].at = "acquire" => call[t].ino \notin dir,
         UNCHANGED <<name, dir, rc, deleted, early, file, fds, held>>
  PROVE  OpenInv'
<1>0. OpenTypes /\ MadeOK
  BY DEF OpenInv
<1>1. \A i : (Made(i)' <=> Made(i)) /\ Opened(i)' = Opened(i)
  BY DEF Made, Opened
<1>2. call' \in [Callers -> CallRecord] /\ \A u \in Callers : CallOK(call[u])'
  BY <1>0, <1>1, CallGoesOn
<1>3. OpenTypes' /\ MadeOK' /\ RefsOK(fds, held)' /\ (deleted \subseteq early)'
  BY <1>1, <1>2 DEF OpenInv, OpenTypes, MadeOK, RefsOK
<1>4. \A i \in dir : Acquiring(i)' <=> Acquiring(i)
  BY <1>0, AcquiringStays
<1>5. \A i \in Open!Inodes : Counted(i)' = Counted(i)
  BY <1>1, <1>4 DEF Counted
<1>6. CountOK'
  BY <1>1, <1>5 DEF OpenInv, CountOK
<1> QED BY <1>3, <1>6 DEF OpenInv

\* Files are closed: the open files of an inode are fewer by as many.
LEMMA FewerOpened ==
  ASSUME NEW gone \in SUBSET Open!Files, NEW i \in Open!Inodes,
         file' = [f \in Open!Files |-> IF f \in gone THEN None ELSE file[f]]
  PROVE  /\ Cardinality({f \in gone : file[f] = i}) \in Nat /\ Cardinality(Opened(i)') \in Nat
         /\ Cardinality(Opened(i)') = Cardinality(Opened(i)) - Cardinality({f \in gone : file[f] = i})
         /\ Cardinality({f \in gone : file[f] = i}) > 0 => \E f \in gone : file[f] = i
<1>1. PICK of : of = {f \in gone : file[f] = i}
  OBVIOUS
<1>2. Opened(i)' = Opened(i) \ of /\ Opened(i) \intersect of = of
  <2>1. \A f \in Open!Files : file'[f] = i <=> file[f] = i /\ f \notin of
    BY <1>1, Kinds
  <2>2. \A f : f \in of => f \in Open!Files /\ file[f] = i
    BY <1>1
  <2> QED BY <2>1, <2>2 DEF Opened
<1>3. IsFiniteSet(Opened(i)) /\ of \subseteq Opened(i) /\ Opened(i)' \subseteq Opened(i)
  BY <1>2, OpenedFinite
<1>4. IsFiniteSet(of) /\ Cardinality(of) \in Nat /\ Cardinality(Opened(i)') \in Nat
  BY <1>3, FS_Subset, FS_CardinalityType
<1>5. Cardinality(Opened(i)') = Cardinality(Opened(i)) - Cardinality(of)
  BY <1>2, <1>3, FS_Difference
<1>6. of = {} => Cardinality(of) = 0
  BY FS_EmptySet
<1>7. Cardinality(of) > 0 => \E f \in gone : file[f] = i
  BY <1>1, <1>6, SMT
<1> QED BY <1>1, <1>4, <1>5, <1>7

\* Refs are dropped: the inodes of the files that are then closed lose the
\* references that were counted for these, and no more.
LEMMA DropStep ==
  ASSUME OpenInv, NEW table \in [Procs -> [Open!Fds -> Refs]], NEW refs \in [Callers -> Refs],
         RefsOK(table, refs), Open!DropFiles(table, refs), UNCHANGED <<name, dir, early>>,
         call' \in [Callers -> CallRecord], \A u \in Callers : CallOK(call[u])',
         \A i : Acquiring(i)' <=> Acquiring(i)
  PROVE  OpenInv'
<1>0. OpenTypes /\ MadeOK /\ CountOK /\ deleted \subseteq early
  BY DEF OpenInv
<1>1. \A S : Open!Cardinality(S) = Cardinality(S)
  BY DEF Open!Cardinality, Cardinality, Open!IsFiniteSet, IsFiniteSet
<1>2. PICK gone \in SUBSET Open!Files :
        /\ fds' = table /\ held' = refs
        /\ \A f \in gone : /\ file[f] # None
                           /\ \A p \in Procs, d \in Open!Fds : table[p][d] # f
                           /\ \A t \in Callers : refs[t] # f
        /\ file' = [f \in Open!Files |-> IF f \in gone THEN None ELSE file[f]]
        /\ Open!release([i \in Open!Inodes |-> Cardinality({f \in gone : file[f] = i})])
  <2> DEFINE gone == {f \in Open!Files :
                        /\ file[f] # None
                        /\ ~(\/ \E p \in Procs, d \in Open!Fds : table[p][d] = f
                             \/ \E t \in Callers : refs[t] = f)}
  <2>1. [i \in Open!Inodes |-> Open!Cardinality({f \in gone : file[f] = i})]
          = [i \in Open!Inodes |-> Cardinality({f \in gone : file[f] = i})]
    BY <1>1
  <2>2. /\ fds' = table /\ held' = refs
        /\ file' = [f \in Open!Files |-> IF f \in gone THEN None ELSE file[f]]
        /\ Open!release([i \in Open!Inodes |-> Open!Cardinality({f \in gone : file[f] = i})])
    BY DEF Open!DropFiles
  <2>3. WITNESS gone \in SUBSET Open!Files
  <2> QED BY <2>1, <2>2
<1>3. PICK n : n = [i \in Open!Inodes |-> Cardinality({f \in gone : file[f] = i})]
  OBVIOUS
<1>4. /\ rc' = [i \in Open!Inodes |-> rc[i] - n[i]]
      /\ deleted' = deleted \union {i \in Open!Inodes : n[i] > 0 /\ rc'[i] = 0}
  BY <1>2, <1>3 DEF Open!release
<1>5. \A i : Made(i)' <=> Made(i)
  BY DEF Made
<1>6. \A i \in Open!Inodes :
        /\ n[i] \in Nat /\ Cardinality(Opened(i)) \in Nat /\ Cardinality(Opened(i)') \in Nat
        /\ Cardinality(Opened(i)') = Cardinality(Opened(i)) - n[i]
        /\ n[i] > 0 => \E f \in gone : file[f] = i
  <2> SUFFICES ASSUME NEW i \in Open!Inodes
               PROVE  /\ n[i] \in Nat /\ Cardinality(Opened(i)) \in Nat
                      /\ Cardinality(Opened(i)') \in Nat
                      /\ Cardinality(Opened(i)') = Cardinality(Opened(i)) - n[i]
                      /\ n[i] > 0 => \E f \in gone : file[f] = i
    OBVIOUS
  <2>1. n[i] = Cardinality({f \in gone : file[f] = i})
    BY <1>3
  <2>2. /\ Cardinality({f \in gone : file[f] = i}) \in Nat /\ Cardinality(Opened(i)') \in Nat
        /\ Cardinality(Opened(i)') = Cardinality(Opened(i)) - Cardinality({f \in gone : file[f] = i})
        /\ Cardinality({f \in gone : file[f] = i}) > 0 => \E f \in gone : file[f] = i
    BY <1>2, FewerOpened
  <2> QED BY <2>1, <2>2, OpenedFinite
<1>7. \A i \in Open!Inodes : rc[i] \in Int /\ rc'[i] = rc[i] - n[i]
  BY <1>0, <1>4 DEF OpenTypes
<1>8. CountOK'
  BY <1>0, <1>5, <1>6, <1>7, SMT DEF CountOK, Counted
<1>9. (deleted \subseteq early)'
  <2> SUFFICES ASSUME NEW i \in Open!Inodes, n[i] > 0, rc'[i] = 0, i \notin early PROVE FALSE
    BY <1>0, <1>4
  <2>1. Made(i)
    BY <1>0, <1>2, <1>6 DEF MadeOK
  <2>2. rc'[i] >= Counted(i)'
    BY <1>5, <1>8, <2>1 DEF CountOK
  <2> QED BY <1>6, <2>2, SMT DEF Counted
<1>10. OpenTypes'
  <2>1. rc' \in [Open!Inodes -> Int]
    BY <1>4, <1>6, <1>7, SMT
  <2>2. file' \in [Open!Files -> Open!Inodes \union {None}]
    BY <1>0, <1>2 DEF OpenTypes
  <2>3. deleted' \in SUBSET Open!Inodes
    BY <1>0, <1>4 DEF OpenTypes
  <2> QED BY <1>0, <1>2, <2>1, <2>2, <2>3 DEF OpenTypes
<1>11. MadeOK'
  BY <1>0, <1>2, <1>5 DEF MadeOK
<1>12. RefsOK(fds, held)'
  BY <1>2 DEF RefsOK
<1> QED BY <1>8, <1>9, <1>10, <1>11, <1>12 DEF OpenInv

\* A call starts, goes on or returns without an entry to be acquired.
LEMMA CallMove ==
  ASSUME OpenInv, NEW t \in Callers, NEW c \in CallRecord, CallOK(c), call' = [call EXCEPT ![t] = c],
         c.at # "acquire", call[t].at # "acquire", UNCHANGED name
  PROVE  /\ call' \in [Callers -> CallRecord] /\ \A u \in Callers : CallOK(call[u])'
         /\ \A i : Acquiring(i)' <=> Acquiring(i)
<1>1. (\A i : Made(i)' <=> Made(i)) /\ OpenTypes /\ MadeOK
  BY DEF Made, OpenInv
<1>2. CallOK(c)'
  BY <1>1 DEF CallOK
<1> QED BY <1>1, <1>2, CallGoesOn, AcquiringStays

\* The record of a call.
LEMMA DoingRecord ==
  ASSUME NEW at \in Steps, NEW n \in Names \union {None}, NEW i \in Open!Inodes \union {None},
         NEW d \in Open!Fds \union {None}
  PROVE  /\ Open!Doing(at, n, i, d) \in CallRecord
         /\ Open!Doing(at, n, i, d).at = at /\ Open!Doing(at, n, i, d).name = n
         /\ Open!Doing(at, n, i, d).ino = i /\ Open!Doing(at, n, i, d).newfd = d
  BY SMT DEF Open!Doing, CallRecord

\* Of these calls, the arguments fit.
LEMMA DoingOK ==
  ASSUME OpenInv, NEW at \in Steps, NEW n \in Names \union {None}, NEW i \in Open!Inodes \union {None},
         NEW d \in Open!Fds \union {None},
         \/ at \in {"user", "add_fd", "read"}
         \/ at = "create" /\ n \in Names
         \/ at \in {"found", "victim"} /\ n \in Names /\ i \in dir
         \/ at = "dup2" /\ d \in Open!Fds
  PROVE  CallOK(Open!Doing(at, n, i, d))
<1>1. \A j \in dir : Made(j)
  BY DEF OpenInv, MadeOK
<1> QED BY <1>1, DoingRecord, SMT DEF CallOK

\* The record of a thread that goes on in its call.
LEMMA GoesOn ==
  ASSUME OpenInv, NEW t \in Callers, NEW to \in Steps, Open!Goto(t, to)
  PROVE  \E c \in CallRecord :
           /\ call' = [call EXCEPT ![t] = c]
           /\ c.at = to /\ c.name = call[t].name /\ c.ino = call[t].ino /\ c.newfd = call[t].newfd
<1>1. PICK c : c = [call[t] EXCEPT !.at = to]
  OBVIOUS
<1>2. /\ c \in CallRecord /\ call' = [call EXCEPT ![t] = c]
      /\ c.at = to /\ c.name = call[t].name /\ c.ino = call[t].ino /\ c.newfd = call[t].newfd
  BY <1>1, SMT DEF OpenInv, OpenTypes, CallRecord, Open!Goto
<1> QED BY <1>2

\* get_direntry()
LEMMA LookupStep ==
  ASSUME OpenInv, NEW t \in Callers, NEW n \in Names, NEW found \in {"found", "victim"},
         NEW missing \in {"create", "user"}, call[t].at # "acquire",
         Open!get_direntry(t, n, found, missing)
  PROVE  OpenInv'
<1>1. UNCHANGED <<name, dir, rc, deleted, early, file, fds, held>>
  BY DEF Open!get_direntry, Open!inodes, Open!files
<1>2. (\A i : Made(i)' <=> Made(i)) /\ dir \subseteq Open!Inodes
  BY <1>1 DEF Made, OpenInv, OpenTypes
<1>3. PICK at \in Steps, m \in Names \union {None}, i \in Open!Inodes \union {None} :
        /\ call' = [call EXCEPT ![t] = Open!Doing(at, m, i, None)]
        /\ \/ at = "user"
           \/ at = "create" /\ m \in Names
           \/ at \in {"found", "victim"} /\ m \in Names /\ i \in dir
  <2>1. CASE \E i \in Open!Entries(n) : call' = [call EXCEPT ![t] = Open!Doing(found, n, i, None)]
    BY <1>2, <2>1 DEF Open!Entries, Steps
  <2>2. CASE Open!Return(t)
    BY <2>2 DEF Open!Return, Open!Idle, Steps
  <2>3. CASE missing # "user" /\ call' = [call EXCEPT ![t] = Open!Doing(missing, n, None, None)]
    BY <2>3 DEF Steps
  <2> QED BY <2>1, <2>2, <2>3 DEF Open!get_direntry
<1>4. PICK c \in CallRecord : c = Open!Doing(at, m, i, None) /\ c.at = at /\ CallOK(c)
  <2>1. Open!Doing(at, m, i, None) \in CallRecord /\ Open!Doing(at, m, i, None).at = at
    BY DoingRecord, SMT
  <2>2. CallOK(Open!Doing(at, m, i, None))
    BY <1>3, DoingOK
  <2> QED BY <2>1, <2>2
<1>5. CallOK(c)' /\ c.at # "acquire"
  BY <1>2, <1>3, <1>4 DEF CallOK
<1> QED BY <1>1, <1>3, <1>4, <1>5, CallStep

\* get_direntry_ino()
LEMMA EntryStep ==
  ASSUME OpenInv, NEW t \in Callers, NEW entry, NEW to,
         (entry = "found" /\ to = "file") \/ (entry = "victim" /\ to = "remove"), Open!get_direntry_ino(t, entry, to)
  PROVE  OpenInv'
<1>1. UNCHANGED <<name, dir, rc, deleted, early, file, fds, held>> /\ call[t].at = entry
  BY DEF Open!get_direntry_ino, Open!inodes, Open!files, Open!At
<1>2. PICK at \in {to, "undefined"} : Open!Goto(t, at)
  BY DEF Open!get_direntry_ino
<1>3. at \in Steps /\ at # "acquire" /\ at \in {"file", "remove", "undefined"} /\ (at = "remove" => entry = "victim")
  BY <1>2 DEF Steps
<1>4. PICK c \in CallRecord : /\ call' = [call EXCEPT ![t] = c]
                              /\ c.at = at /\ c.name = call[t].name /\ c.ino = call[t].ino
  <2>1. \E c \in CallRecord :
          /\ call' = [call EXCEPT ![t] = c]
          /\ c.at = at /\ c.name = call[t].name /\ c.ino = call[t].ino /\ c.newfd = call[t].newfd
    BY <1>2, <1>3, GoesOn
  <2> QED BY <2>1
<1>5. CallOK(call[t])
  BY DEF OpenInv, MadeOK
<1>6. CallOK(c)'
  BY <1>1, <1>3, <1>4, <1>5 DEF CallOK, Made
<1> QED BY <1>1, <1>3, <1>4, <1>6, CallStep

\* tmpfs_create(), as far as the unlock in register_direntry()
LEMMA tmpfs_createStep ==
  ASSUME OpenInv, NEW t \in Callers, Open!tmpfs_create(t)
  PROVE  OpenInv'
<1>0. OpenTypes /\ MadeOK /\ RefsOK(fds, held) /\ CountOK /\ deleted \subseteq early
  BY DEF OpenInv
<1>1. /\ call[t].at = "create" /\ call[t].name \in Names /\ call[t] \in CallRecord
      /\ UNCHANGED <<deleted, early, file, fds, held>>
  BY <1>0 DEF MadeOK, CallOK, OpenTypes, Open!tmpfs_create, Open!At, Open!files
<1>2. PICK i \in Open!Inodes :
        /\ name[i] = None /\ name' = [name EXCEPT ![i] = call[t].name] /\ rc' = [rc EXCEPT ![i] = 1]
        /\ \/ dir' = dir \union {i} /\ call' = [call EXCEPT ![t] = Open!Doing("acquire", call[t].name, i, None)]
           \/ Open!Goto(t, "open") /\ dir' = dir
  BY DEF Open!tmpfs_create, Open!Lowest, Open!create_inode
<1>3. /\ \A j : Made(j)' <=> Made(j) \/ j = i
      /\ ~Made(i) /\ i \notin dir /\ \A f \in Open!Files : file[f] # i
  <2>1. \A j \in Open!Inodes \ {i} : name'[j] = name[j]
    BY <1>0, <1>2 DEF OpenTypes
  <2>2. name'[i] = call[t].name /\ call[t].name # None
    BY <1>0, <1>1, <1>2, OwnerAssumption DEF OpenTypes
  <2>3. ~Made(i) /\ i # None
    BY <1>2, Kinds DEF Made
  <2> QED BY <1>0, <1>2, <2>1, <2>2, <2>3 DEF Made, MadeOK
<1>4. PICK c \in CallRecord :
        /\ call' = [call EXCEPT ![t] = c] /\ c.name = call[t].name
        /\ \/ c.at = "acquire" /\ c.ino = i /\ dir' = dir \union {i}
           \/ c.at = "open" /\ dir' = dir
  <2>1. CASE /\ dir' = dir \union {i}
             /\ call' = [call EXCEPT ![t] = Open!Doing("acquire", call[t].name, i, None)]
    <3>1. PICK c : c = Open!Doing("acquire", call[t].name, i, None)
      OBVIOUS
    <3>2. c \in CallRecord /\ c.name = call[t].name /\ c.at = "acquire" /\ c.ino = i
      BY <1>1, <3>1, DoingRecord, SMT DEF Steps
    <3> QED BY <2>1, <3>1, <3>2
  <2>2. CASE Open!Goto(t, "open") /\ dir' = dir
    <3>1. "open" \in Steps
      BY DEF Steps
    <3> QED BY <2>2, <3>1, GoesOn
  <2> QED BY <1>2, <2>1, <2>2
<1>5. call' \in [Callers -> CallRecord] /\ \A u \in Callers : CallOK(call[u])'
  <2>1. CallOK(c)'
    BY <1>1, <1>3, <1>4 DEF CallOK
  <2> QED BY <1>0, <1>3, <1>4, <2>1, CallGoesOn
<1>6. OpenTypes'
  <2>1. dir' \in SUBSET Open!Inodes
    BY <1>0, <1>4 DEF OpenTypes
  <2>2. rc' \in [Open!Inodes -> Int]
    BY <1>0, <1>2, SMT DEF OpenTypes
  <2>3. name' \in [Open!Inodes -> Names \union {None}]
    BY <1>0, <1>1, <1>2 DEF OpenTypes
  <2> QED BY <1>0, <1>1, <1>5, <2>1, <2>2, <2>3 DEF OpenTypes
<1>7. MadeOK' /\ RefsOK(fds, held)'
  BY <1>0, <1>1, <1>3, <1>4, <1>5 DEF MadeOK, RefsOK
<1>8. CountOK'
  <2>1. \A j : Opened(j)' = Opened(j)
    BY <1>1 DEF Opened
  <2>2. \A j \in dir : (Acquiring(j)' <=> Acquiring(j)) /\ j # i
    BY <1>0, <1>1, <1>3, <1>4 DEF Acquiring, OpenTypes
  <2>3. i \in dir' => Acquiring(i)'
    BY <1>0, <1>3, <1>4 DEF Acquiring, OpenTypes
  <2>4. Opened(i) = {} /\ Cardinality(Opened(i)) = 0
    BY <1>3, FS_EmptySet DEF Opened
  <2>5. Counted(i)' = 1 /\ rc'[i] = 1
    <3>1. rc'[i] = 1
      BY <1>0, <1>2 DEF OpenTypes
    <3>2. Counted(i)' = 0 + 1
      BY <2>1, <2>3, <2>4 DEF Counted
    <3> QED BY <3>1, <3>2, SMT
  <2>6. \A j \in Open!Inodes \ {i} : Counted(j)' = Counted(j) /\ rc'[j] = rc[j]
    <3>1. \A j \in Open!Inodes \ {i} : j \in dir' <=> j \in dir
      BY <1>4
    <3>2. \A j \in Open!Inodes \ {i} : rc'[j] = rc[j]
      BY <1>0, <1>2 DEF OpenTypes
    <3> QED BY <2>1, <2>2, <3>1, <3>2 DEF Counted
  <2> QED BY <1>0, <1>1, <1>3, <2>5, <2>6, SMT DEF CountOK
<1> QED BY <1>0, <1>1, <1>6, <1>7, <1>8 DEF OpenInv

\* The end of register_direntry()
LEMMA register_direntryStep ==
  ASSUME OpenInv, NEW t \in Callers, Open!register_direntry(t)
  PROVE  OpenInv'
<1>0. OpenTypes /\ MadeOK /\ RefsOK(fds, held) /\ CountOK /\ deleted \subseteq early
  BY DEF OpenInv
<1>1. /\ call[t].at = "acquire" /\ Made(call[t].ino) /\ call[t].name \in Names
      /\ UNCHANGED <<name, dir, deleted, early, file, fds, held>>
  BY <1>0 DEF MadeOK, CallOK, OpenTypes, Open!register_direntry, Open!At, Open!files
<1>2. \A i : (Made(i)' <=> Made(i)) /\ Opened(i)' = Opened(i)
  BY <1>1 DEF Made, Opened
<1>3. CASE call[t].ino \in dir
  <2>1. PICK i \in Open!Inodes : i = call[t].ino /\ rc' = [rc EXCEPT ![i] = @ + 1]
    BY <1>1, <1>3 DEF Made, Open!register_direntry
  <2>2. PICK c \in CallRecord : call' = [call EXCEPT ![t] = c] /\ c.at = "open" /\ c.name = call[t].name
    <3>1. call' = [call EXCEPT ![t] = Open!Doing("open", call[t].name, None, None)]
      BY <1>3 DEF Open!register_direntry
    <3>2. /\ Open!Doing("open", call[t].name, None, None) \in CallRecord
          /\ Open!Doing("open", call[t].name, None, None).at = "open"
          /\ Open!Doing("open", call[t].name, None, None).name = call[t].name
      BY <1>1, DoingRecord, SMT DEF Steps
    <3> QED BY <3>1, <3>2
  <2>3. CallOK(c)'
    BY <1>0, <1>1, <2>2 DEF MadeOK, CallOK
  <2>4. call' \in [Callers -> CallRecord] /\ \A u \in Callers : CallOK(call[u])'
    BY <1>0, <1>2, <2>2, <2>3, CallGoesOn
  <2>5. rc' \in [Open!Inodes -> Int] /\ rc'[i] = rc[i] + 1 /\ \A j \in Open!Inodes \ {i} : rc'[j] = rc[j]
    BY <1>0, <2>1, SMT DEF OpenTypes
  <2>6. OpenTypes' /\ MadeOK' /\ RefsOK(fds, held)'
    BY <1>0, <1>1, <1>2, <2>4, <2>5 DEF OpenTypes, MadeOK, RefsOK
  <2>7. Counted(i)' <= Counted(i) + 1 /\ \A j \in Open!Inodes \ {i} : Counted(j)' = Counted(j)
    <3>1. \A j \in Open!Inodes \ {i} : Acquiring(j)' <=> Acquiring(j)
      BY <1>0, <2>1, <2>2, AcquiringStays
    <3>2. Acquiring(i)
      BY <1>1, <2>1 DEF Acquiring
    <3>3. Counted(i)' <= Counted(i) + 1
      BY <1>1, <1>2, <3>2, OpenedFinite, SMT DEF Counted
    <3> QED BY <1>1, <1>2, <3>1, <3>3 DEF Counted
  <2>8. CountOK'
    <3>1. \A j \in Open!Inodes : rc[j] \in Int /\ Counted(j) \in Int /\ Counted(j)' \in Int
      BY <1>0, <1>2, OpenedFinite, SMT DEF OpenTypes, Counted
    <3> QED BY <1>0, <1>1, <1>2, <2>5, <2>7, <3>1, SMT DEF CountOK
  <2> QED BY <1>0, <1>1, <2>6, <2>8 DEF OpenInv
<1>4. CASE call[t].ino \notin dir
  <2>1. Open!Goto(t, "undefined") /\ UNCHANGED rc
    BY <1>4 DEF Open!register_direntry
  <2>2. PICK c \in CallRecord : call' = [call EXCEPT ![t] = c] /\ c.at = "undefined"
    <3>1. "undefined" \in Steps
      BY DEF Steps
    <3> QED BY <2>1, <3>1, GoesOn
  <2>3. CallOK(c)'
    BY <2>2 DEF CallOK
  <2> QED BY <1>1, <1>4, <2>1, <2>2, <2>3, CallStep
<1> QED BY <1>3, <1>4

\* file::create()
LEMMA createStep ==
  ASSUME OpenInv, NEW t \in Callers, Open!create(t)
  PROVE  OpenInv'
<1>0. OpenTypes /\ MadeOK /\ RefsOK(fds, held) /\ CountOK /\ deleted \subseteq early
  BY DEF OpenInv
<1>1. /\ call[t].at = "file" /\ Made(call[t].ino)
      /\ UNCHANGED <<name, dir, deleted, early, fds>>
  BY <1>0 DEF MadeOK, CallOK, Open!create, Open!At
<1>2. PICK i \in Open!Inodes, f \in Open!Files :
        /\ i = call[t].ino /\ rc' = [rc EXCEPT ![i] = @ + 1] /\ file[f] = None
        /\ file' = [file EXCEPT ![f] = i] /\ held' = [held EXCEPT ![t] = f]
        /\ call' = [call EXCEPT ![t] = Open!Doing("add_fd", None, None, None)]
  BY <1>1 DEF Made, Open!create, Open!Lowest
<1>3. \A j : Made(j)' <=> Made(j)
  BY <1>1 DEF Made
<1>4. /\ call' \in [Callers -> CallRecord] /\ \A u \in Callers : CallOK(call[u])'
      /\ \A j : Acquiring(j)' <=> Acquiring(j)
  <2>1. PICK c \in CallRecord : c = Open!Doing("add_fd", None, None, None) /\ c.at = "add_fd" /\ CallOK(c)
    <3>1. "add_fd" \in Steps
      BY DEF Steps
    <3>2. Open!Doing("add_fd", None, None, None) \in CallRecord /\ Open!Doing("add_fd", None, None, None).at = "add_fd"
      BY <3>1, DoingRecord, SMT
    <3>3. CallOK(Open!Doing("add_fd", None, None, None))
      BY <3>1, DoingOK, SMT
    <3> QED BY <3>2, <3>3
  <2> QED BY <1>1, <1>2, <2>1, CallMove
<1>5. OpenTypes'
  <2>1. rc' \in [Open!Inodes -> Int]
    BY <1>0, <1>2, SMT DEF OpenTypes
  <2>2. file' \in [Open!Files -> Open!Inodes \union {None}] /\ held' \in [Callers -> Refs]
    BY <1>0, <1>2 DEF OpenTypes, Refs
  <2> QED BY <1>0, <1>1, <1>4, <2>1, <2>2 DEF OpenTypes
<1>6. file'[f] = i /\ \A g \in Open!Files \ {f} : file'[g] = file[g]
  BY <1>0, <1>2 DEF OpenTypes
<1>7. held'[t] = f /\ \A u \in Callers \ {t} : held'[u] = held[u]
  BY <1>0, <1>2 DEF OpenTypes
<1>8. MadeOK'
  BY <1>0, <1>1, <1>2, <1>3, <1>4, <1>6 DEF MadeOK
<1>9. RefsOK(fds, held)'
  <2>1. \A g \in Open!Files : file[g] # None => file'[g] # None
    BY <1>2, <1>6
  <2>2. file'[f] # None
    BY <1>2, <1>6, Kinds
  <2> QED BY <1>0, <1>1, <1>7, <2>1, <2>2 DEF RefsOK
<1>10. CountOK'
  <2>1. Opened(i)' = Opened(i) \union {f} /\ f \notin Opened(i)
    BY <1>2, <1>6, Kinds DEF Opened
  <2>2. \A j \in Open!Inodes \ {i} : Opened(j)' = Opened(j)
    BY <1>2, <1>6, Kinds DEF Opened
  <2>3. Cardinality(Opened(i)') = Cardinality(Opened(i)) + 1
    BY <2>1, OpenedFinite, FS_AddElement
  <2>4. Counted(i)' = Counted(i) + 1 /\ rc'[i] = rc[i] + 1 /\ Counted(i) \in Int /\ rc[i] \in Int
    <3>1. rc'[i] = rc[i] + 1 /\ rc[i] \in Int
      BY <1>0, <1>2, SMT DEF OpenTypes
    <3>2. Counted(i)' = Counted(i) + 1 /\ Counted(i) \in Int
      BY <1>1, <1>4, <2>3, OpenedFinite, SMT DEF Counted
    <3> QED BY <3>1, <3>2
  <2>5. \A j \in Open!Inodes \ {i} : Counted(j)' = Counted(j) /\ rc'[j] = rc[j]
    <3>1. \A j \in Open!Inodes \ {i} : rc'[j] = rc[j]
      BY <1>0, <1>2 DEF OpenTypes
    <3> QED BY <1>1, <1>4, <2>2, <3>1 DEF Counted
  <2> QED BY <1>0, <1>1, <1>3, <2>4, <2>5, SMT DEF CountOK
<1> QED BY <1>0, <1>1, <1>5, <1>8, <1>9, <1>10 DEF OpenInv

\* A thread returns to user mode.
LEMMA IdleOK ==
  ASSUME OpenInv
  PROVE  Open!Idle \in CallRecord /\ Open!Idle.at = "user" /\ CallOK(Open!Idle)
<1>1. "user" \in Steps
  BY DEF Steps
<1>2. Open!Idle \in CallRecord /\ Open!Idle.at = "user"
  BY <1>1, DoingRecord, SMT DEF Open!Idle
<1>3. CallOK(Open!Idle)
  BY <1>1, DoingOK, SMT DEF Open!Idle
<1> QED BY <1>2, <1>3

\* remove_direntry()
LEMMA remove_direntryStep ==
  ASSUME OpenInv, NEW t \in Callers, Open!remove_direntry(t)
  PROVE  OpenInv'
<1>0. OpenTypes /\ MadeOK /\ RefsOK(fds, held) /\ CountOK /\ deleted \subseteq early
  BY DEF OpenInv
<1>1. /\ call[t].at = "remove" /\ call' = [call EXCEPT ![t] = Open!Idle]
      /\ UNCHANGED <<name, file, fds, held>>
  BY DEF Open!remove_direntry, Open!At, Open!Return, Open!files, Open!inodes
<1>2. \A j : (Made(j)' <=> Made(j)) /\ Opened(j)' = Opened(j)
  BY <1>1 DEF Made, Opened
<1>3. CASE UNCHANGED Open!inodes
  <2>1. CallOK(Open!Idle)'
    BY <1>2, IdleOK DEF CallOK
  <2> QED BY <1>1, <1>3, <2>1, IdleOK, CallStep DEF Open!inodes
<1>4. CASE \E i \in Open!Entries(call[t].name) :
             /\ dir' = dir \ {i}
             /\ Open!release([j \in Open!Inodes |-> IF j = i THEN 1 ELSE 0])
             /\ early' = IF \E u \in Callers : Open!At(u, "acquire") /\ call[u].ino = i
                         THEN early \union {i} ELSE early
  <2>1. PICK i \in dir :
          /\ dir' = dir \ {i}
          /\ Open!release([j \in Open!Inodes |-> IF j = i THEN 1 ELSE 0])
          /\ early' = IF Acquiring(i) THEN early \union {i} ELSE early
    BY <1>4 DEF Open!Entries, Acquiring, Open!At
  <2>2. i \in Open!Inodes /\ dir \in SUBSET Open!Inodes /\ early \in SUBSET Open!Inodes
    BY <1>0 DEF OpenTypes
  <2>3. /\ rc' \in [Open!Inodes -> Int] /\ rc'[i] = rc[i] - 1 /\ rc[i] \in Int
        /\ \A j \in Open!Inodes \ {i} : rc'[j] = rc[j]
    BY <1>0, <2>1, <2>2, SMT DEF OpenTypes, Open!release
  <2>4. \A j \in deleted' : j \in deleted \/ (j = i /\ rc'[i] = 0)
    <3>1. \A j \in deleted' : \/ j \in deleted
                              \/ j \in Open!Inodes /\ (IF j = i THEN 1 ELSE 0) > 0 /\ rc'[j] = 0
      BY <2>1 DEF Open!release
    <3>2. \A j : (IF j = i THEN 1 ELSE 0) > 0 => j = i
      BY SMT
    <3> QED BY <3>1, <3>2
  <2>5. /\ call' \in [Callers -> CallRecord] /\ \A u \in Callers : CallOK(call[u])'
        /\ \A j : Acquiring(j)' <=> Acquiring(j)
    BY <1>1, IdleOK, CallMove
  <2>6. dir' \in SUBSET Open!Inodes /\ early' \in SUBSET Open!Inodes /\ deleted' \in SUBSET Open!Inodes
    BY <1>0, <2>1, <2>2, <2>4 DEF OpenTypes
  <2>7. OpenTypes' /\ MadeOK' /\ RefsOK(fds, held)'
    BY <1>0, <1>1, <1>2, <2>1, <2>3, <2>5, <2>6 DEF OpenTypes, MadeOK, RefsOK
  <2>8. i \notin early' => rc'[i] >= Counted(i)' /\ rc'[i] >= 1
    <3>1. i \notin early' => i \notin early /\ ~Acquiring(i)
      BY <2>1
    <3>2. i \notin early' => rc[i] >= Counted(i)
      BY <1>0, <2>1, <2>2, <3>1 DEF CountOK, MadeOK
    <3>3. i \notin early' => Counted(i) = Cardinality(Opened(i)) + 2
      BY <2>1, <3>1 DEF Counted
    <3>4. Counted(i)' = Cardinality(Opened(i)) + 1
      BY <1>2, <2>1 DEF Counted
    <3>5. Cardinality(Opened(i)) \in Nat
      BY OpenedFinite
    <3> QED BY <2>3, <3>2, <3>3, <3>4, <3>5, SMT
  <2>9. \A j \in Open!Inodes \ {i} : Counted(j)' = Counted(j) /\ (j \in early' <=> j \in early)
    BY <1>2, <2>1, <2>5 DEF Counted
  <2>10. CountOK'
    BY <1>0, <1>2, <2>3, <2>8, <2>9 DEF CountOK
  <2>11. (deleted \subseteq early)'
    <3>1. i \notin early' => rc'[i] # 0
      BY <2>8, SMT
    <3>2. early \subseteq early'
      BY <2>1
    <3> QED BY <1>0, <2>4, <3>1, <3>2
  <2> QED BY <2>7, <2>10, <2>11 DEF OpenInv
<1> QED BY <1>3, <1>4 DEF Open!remove_direntry

\* A step that only gives and takes refs to open files.
LEMMA RefsStep ==
  ASSUME OpenInv, UNCHANGED <<name, dir, rc, deleted, early, file>>,
         fds' \in [Procs -> [Open!Fds -> Refs]], held' \in [Callers -> Refs], RefsOK(fds', held'),
         call' \in [Callers -> CallRecord], \A u \in Callers : CallOK(call[u])',
         \A i : Acquiring(i)' <=> Acquiring(i)
  PROVE  OpenInv'
<1>0. OpenTypes /\ MadeOK /\ CountOK /\ deleted \subseteq early
  BY DEF OpenInv
<1>1. \A i : (Made(i)' <=> Made(i)) /\ Opened(i)' = Opened(i)
  BY DEF Made, Opened
<1>2. OpenTypes' /\ MadeOK' /\ RefsOK(fds, held)'
  BY <1>0, <1>1 DEF OpenTypes, MadeOK, RefsOK
<1>3. \A i : Counted(i)' = Counted(i)
  BY <1>1 DEF Counted
<1>4. CountOK' /\ (deleted \subseteq early)'
  BY <1>0, <1>1, <1>3 DEF CountOK
<1> QED BY <1>2, <1>4 DEF OpenInv

\* A table of descriptors of which one entry changes.
LEMMA TableStep ==
  ASSUME OpenInv, NEW p \in Procs, NEW d \in Open!Fds, NEW r \in Refs,
         r \in Open!Files => file[r] # None, NEW refs \in [Callers -> Refs], RefsOK(fds, refs)
  PROVE  /\ [fds EXCEPT ![p][d] = r] \in [Procs -> [Open!Fds -> Refs]]
         /\ RefsOK([fds EXCEPT ![p][d] = r], refs)
<1>1. fds \in [Procs -> [Open!Fds -> Refs]]
  BY DEF OpenInv, OpenTypes
<1>2. PICK table : table = [fds EXCEPT ![p][d] = r]
  OBVIOUS
<1>3. table \in [Procs -> [Open!Fds -> Refs]]
  BY <1>1, <1>2, SMT
<1>4. \A q \in Procs, e \in Open!Fds : table[q][e] = r \/ table[q][e] = fds[q][e]
  BY <1>1, <1>2, SMT
<1>5. RefsOK(table, refs)
  BY <1>4 DEF RefsOK
<1> QED BY <1>2, <1>3, <1>5

\* The ref that a thread holds changes.
LEMMA HeldStep ==
  ASSUME OpenInv, NEW t \in Callers, NEW r \in Refs, r \in Open!Files => file[r] # None
  PROVE  [held EXCEPT ![t] = r] \in [Callers -> Refs] /\ RefsOK(fds, [held EXCEPT ![t] = r])
<1>1. held \in [Callers -> Refs] /\ RefsOK(fds, held)
  BY DEF OpenInv, OpenTypes
<1> QED BY <1>1 DEF RefsOK

\* What a ref may be.
LEMMA RefFacts ==
  ASSUME OpenInv
  PROVE  /\ None \in Refs /\ None \notin Open!Files /\ Open!Null \in Refs /\ Open!Null \notin Open!Files
         /\ \A t \in Callers : /\ held[t] \in Refs /\ (held[t] \in Open!Files => file[held[t]] # None)
                               /\ Owner[t] \in Procs
         /\ \A p \in Procs, d \in Open!Fds :
              fds[p][d] \in Refs /\ (fds[p][d] \in Open!Files => file[fds[p][d]] # None)
         /\ fds \in [Procs -> [Open!Fds -> Refs]] /\ held \in [Callers -> Refs] /\ RefsOK(fds, held)
         /\ call \in [Callers -> CallRecord] /\ \A t \in Callers : CallOK(call[t])
<1>1. OpenTypes /\ RefsOK(fds, held) /\ MadeOK
  BY DEF OpenInv
<1>2. None \in Refs /\ None \notin Open!Files /\ Open!Null \in Refs /\ Open!Null \notin Open!Files
  BY Kinds DEF Refs
<1>3. fds \in [Procs -> [Open!Fds -> Refs]] /\ held \in [Callers -> Refs] /\ Owner \in [Callers -> Procs]
  BY <1>1, OwnerAssumption DEF OpenTypes
<1>4. \A t \in Callers : held[t] \in Refs /\ (held[t] \in Open!Files => file[held[t]] # None) /\ Owner[t] \in Procs
  BY <1>1, <1>3 DEF RefsOK
<1>5. \A p \in Procs, d \in Open!Fds :
        fds[p][d] \in Refs /\ (fds[p][d] \in Open!Files => file[fds[p][d]] # None)
  BY <1>1, <1>3 DEF RefsOK
<1>6. call \in [Callers -> CallRecord] /\ \A t \in Callers : CallOK(call[t])
  BY <1>1 DEF OpenTypes, MadeOK
<1> QED BY <1>1, <1>2, <1>3, <1>4, <1>5, <1>6

\* add_fd()
LEMMA add_fdStep ==
  ASSUME OpenInv, NEW t \in Callers, Open!add_fd(t)
  PROVE  OpenInv'
<1>1. /\ call[t].at = "add_fd" /\ call' = [call EXCEPT ![t] = Open!Idle]
      /\ UNCHANGED <<name, dir, rc, deleted, early, file>> /\ held' = [held EXCEPT ![t] = None]
  BY DEF Open!add_fd, Open!At, Open!Return, Open!inodes
<1>2. PICK d \in Open!Fds : fds' = [fds EXCEPT ![Owner[t]][d] = held[t]]
  BY DEF Open!add_fd, Open!Lowest
<1>3. held' \in [Callers -> Refs] /\ RefsOK(fds, held')
  BY <1>1, RefFacts, HeldStep
<1>4. fds' \in [Procs -> [Open!Fds -> Refs]] /\ RefsOK(fds', held')
  BY <1>2, <1>3, RefFacts, TableStep
<1>5. /\ call' \in [Callers -> CallRecord] /\ \A u \in Callers : CallOK(call[u])'
      /\ \A i : Acquiring(i)' <=> Acquiring(i)
  BY <1>1, IdleOK, CallMove
<1> QED BY <1>1, <1>3, <1>4, <1>5, RefsStep

\* get_fd() in read, dup and dup2
LEMMA get_fdStep ==
  ASSUME OpenInv, NEW t \in Callers, NEW d \in Open!Fds, NEW at \in {"read", "add_fd", "dup2"},
         NEW e \in Open!Fds \union {None}, at = "dup2" => e \in Open!Fds,
         Open!get_fd(t, d, Open!Doing(at, None, None, e))
  PROVE  OpenInv'
<1>1. /\ call[t].at = "user" /\ call' = [call EXCEPT ![t] = Open!Doing(at, None, None, e)]
      /\ UNCHANGED <<name, dir, rc, deleted, early, file, fds>>
      /\ held' = [held EXCEPT ![t] = IF fds[Owner[t]][d] = None THEN Open!Null ELSE fds[Owner[t]][d]]
  BY DEF Open!get_fd, Open!Calls, Open!At, Open!inodes, Open!Table
<1>2. PICK r \in Refs : held' = [held EXCEPT ![t] = r] /\ (r \in Open!Files => file[r] # None)
  BY <1>1, RefFacts
<1>3. held' \in [Callers -> Refs] /\ RefsOK(fds, held')
  BY <1>2, HeldStep
<1>4. at \in Steps
  BY DEF Steps
<1>5. Open!Doing(at, None, None, e) \in CallRecord /\ Open!Doing(at, None, None, e).at = at
  BY <1>4, DoingRecord, SMT
<1>6. CallOK(Open!Doing(at, None, None, e))
  BY <1>4, DoingOK, SMT
<1>7. /\ call' \in [Callers -> CallRecord] /\ \A u \in Callers : CallOK(call[u])'
      /\ \A i : Acquiring(i)' <=> Acquiring(i)
  BY <1>1, <1>5, <1>6, CallMove
<1>8. fds' \in [Procs -> [Open!Fds -> Refs]] /\ RefsOK(fds', held')
  BY <1>1, <1>3, RefFacts
<1> QED BY <1>1, <1>3, <1>7, <1>8, RefsStep

\* The end of read(), or of a dup2() without a file
LEMMA DropRefStep ==
  ASSUME OpenInv, NEW t \in Callers, Open!Drop(t)
  PROVE  OpenInv'
<1>1. /\ call[t].at \in {"read", "dup2"} /\ call' = [call EXCEPT ![t] = Open!Idle]
      /\ Open!DropFiles(fds, [held EXCEPT ![t] = None]) /\ UNCHANGED <<name, dir, early>>
  BY DEF Open!Drop, Open!At, Open!Return
<1>2. [held EXCEPT ![t] = None] \in [Callers -> Refs] /\ RefsOK(fds, [held EXCEPT ![t] = None])
  BY RefFacts, HeldStep
<1>3. /\ call' \in [Callers -> CallRecord] /\ \A u \in Callers : CallOK(call[u])'
      /\ \A i : Acquiring(i)' <=> Acquiring(i)
  BY <1>1, IdleOK, CallMove
<1> QED BY <1>1, <1>2, <1>3, RefFacts, DropStep

\* The two sections of dup2()
LEMMA Dup2Step ==
  ASSUME OpenInv, NEW t \in Callers, Open!Dup2Close(t) \/ Open!Dup2Set(t)
  PROVE  OpenInv'
<1>1. CASE Open!Dup2Close(t)
  <2>1. /\ call[t].at = "dup2" /\ Open!Goto(t, "set") /\ UNCHANGED <<name, dir, early>>
        /\ Open!DropFiles([fds EXCEPT ![Owner[t]][call[t].newfd] = None], held)
    BY <1>1 DEF Open!Dup2Close, Open!At
  <2>2. CallOK(call[t]) /\ call[t].newfd \in Open!Fds
    BY <2>1, RefFacts DEF CallOK
  <2>3. PICK c \in CallRecord : call' = [call EXCEPT ![t] = c] /\ c.at = "set" /\ c.newfd = call[t].newfd
    <3>1. "set" \in Steps
      BY DEF Steps
    <3>2. \E c \in CallRecord :
            /\ call' = [call EXCEPT ![t] = c]
            /\ c.at = "set" /\ c.name = call[t].name /\ c.ino = call[t].ino /\ c.newfd = call[t].newfd
      BY <2>1, <3>1, GoesOn
    <3> QED BY <3>2
  <2>4. CallOK(c)
    BY <2>2, <2>3 DEF CallOK
  <2>5. /\ call' \in [Callers -> CallRecord] /\ \A u \in Callers : CallOK(call[u])'
        /\ \A i : Acquiring(i)' <=> Acquiring(i)
    BY <2>1, <2>3, <2>4, CallMove
  <2>6. /\ [fds EXCEPT ![Owner[t]][call[t].newfd] = None] \in [Procs -> [Open!Fds -> Refs]]
        /\ RefsOK([fds EXCEPT ![Owner[t]][call[t].newfd] = None], held)
    BY <2>2, RefFacts, TableStep
  <2> QED BY <2>1, <2>5, <2>6, RefFacts, DropStep
<1>2. CASE Open!Dup2Set(t)
  <2>1. /\ call[t].at = "set" /\ call' = [call EXCEPT ![t] = Open!Idle] /\ UNCHANGED <<name, dir, early>>
        /\ Open!DropFiles([fds EXCEPT ![Owner[t]][call[t].newfd] = held[t]], [held EXCEPT ![t] = None])
    BY <1>2 DEF Open!Dup2Set, Open!At, Open!Return
  <2>2. call[t].newfd \in Open!Fds
    BY <2>1, RefFacts DEF CallOK
  <2>3. [held EXCEPT ![t] = None] \in [Callers -> Refs] /\ RefsOK(fds, [held EXCEPT ![t] = None])
    BY RefFacts, HeldStep
  <2>4. /\ [fds EXCEPT ![Owner[t]][call[t].newfd] = held[t]] \in [Procs -> [Open!Fds -> Refs]]
        /\ RefsOK([fds EXCEPT ![Owner[t]][call[t].newfd] = held[t]], [held EXCEPT ![t] = None])
    BY <2>2, <2>3, RefFacts, TableStep
  <2>5. /\ call' \in [Callers -> CallRecord] /\ \A u \in Callers : CallOK(call[u])'
        /\ \A i : Acquiring(i)' <=> Acquiring(i)
    BY <2>1, IdleOK, CallMove
  <2> QED BY <2>1, <2>3, <2>4, <2>5, DropStep
<1> QED BY <1>1, <1>2

\* close(), fork() and the end of a process
LEMMA TablesStep ==
  ASSUME OpenInv,
         \/ \E t \in Callers, d \in Open!Fds : Open!close(t, d)
         \/ \E t \in Callers, q \in Procs : Open!fork(t, q)
         \/ \E p \in Procs : Open!exit(p)
  PROVE  OpenInv'
<1>1. ASSUME UNCHANGED <<name, call>>
      PROVE  /\ call' \in [Callers -> CallRecord] /\ \A u \in Callers : CallOK(call[u])'
             /\ \A i : Acquiring(i)' <=> Acquiring(i)
  BY <1>1, RefFacts DEF CallOK, Made, Acquiring
<1>2. ASSUME NEW t \in Callers, NEW d \in Open!Fds, Open!close(t, d) PROVE OpenInv'
  <2>1. /\ Open!DropFiles([fds EXCEPT ![Owner[t]][d] = None], held)
        /\ UNCHANGED <<name, dir, early, call>>
    BY <1>2 DEF Open!close
  <2>2. /\ [fds EXCEPT ![Owner[t]][d] = None] \in [Procs -> [Open!Fds -> Refs]]
        /\ RefsOK([fds EXCEPT ![Owner[t]][d] = None], held)
    BY RefFacts, TableStep
  <2> QED BY <1>1, <2>1, <2>2, RefFacts, DropStep
<1>3. ASSUME NEW t \in Callers, NEW q \in Procs, Open!fork(t, q) PROVE OpenInv'
  <2>1. /\ fds' = [fds EXCEPT ![q] = fds[Owner[t]]]
        /\ UNCHANGED <<name, dir, rc, deleted, early, file, held, call>>
    BY <1>3 DEF Open!fork, Open!Table, Open!inodes
  <2>2. fds' \in [Procs -> [Open!Fds -> Refs]]
    BY <2>1, RefFacts
  <2>3. RefsOK(fds', held')
    BY <2>1, RefFacts DEF RefsOK
  <2> QED BY <1>1, <2>1, <2>2, <2>3, RefFacts, RefsStep
<1>4. ASSUME NEW p \in Procs, Open!exit(p) PROVE OpenInv'
  <2>1. PICK table : table = [fds EXCEPT ![p] = [d \in Open!Fds |-> None]]
    OBVIOUS
  <2>2. Open!DropFiles(table, held) /\ UNCHANGED <<name, dir, early, call>>
    BY <1>4, <2>1 DEF Open!exit
  <2>3. table \in [Procs -> [Open!Fds -> Refs]]
    BY <2>1, RefFacts
  <2>4. RefsOK(table, held)
    BY <2>1, RefFacts DEF RefsOK
  <2> QED BY <1>1, <2>2, <2>3, <2>4, RefFacts, DropStep
<1> QED BY <1>2, <1>3, <1>4

\* Every step keeps the invariant.
LEMMA OpenNext == OpenInv /\ [Open!Next]_(Open!vars) => OpenInv'
<1> SUFFICES ASSUME OpenInv, [Open!Next]_(Open!vars) PROVE OpenInv'
  OBVIOUS
<1>1. CASE UNCHANGED Open!vars
  <2>1. UNCHANGED <<name, dir, rc, deleted, early, file, fds, held, call>>
    BY <1>1 DEF Open!vars, Open!inodes, Open!files
  <2>2. /\ call' \in [Callers -> CallRecord] /\ \A u \in Callers : CallOK(call[u])'
        /\ \A i : Acquiring(i)' <=> Acquiring(i)
    BY <2>1, RefFacts DEF CallOK, Made, Acquiring
  <2>3. /\ fds' \in [Procs -> [Open!Fds -> Refs]] /\ held' \in [Callers -> Refs]
        /\ RefsOK(fds', held')
    BY <2>1, RefFacts DEF RefsOK
  <2> QED BY <2>1, <2>2, <2>3, RefsStep
<1>2. ASSUME NEW t \in Callers, Open!Path(t) PROVE OpenInv'
  <2>1. CASE Open!namei(t)
    <3>1. CASE Open!At(t, "open") /\ Open!get_direntry(t, call[t].name, "found", "user")
      <4>1. call[t].at = "open" /\ call[t].name \in Names
        BY <3>1, RefFacts DEF Open!At, CallOK
      <4> QED BY <3>1, <4>1, LookupStep
    <3>2. CASE Open!get_direntry_ino(t, "found", "file")
      BY <3>2, EntryStep
    <3> QED BY <2>1, <3>1, <3>2 DEF Open!namei
  <2>2. CASE Open!get_direntry_ino(t, "victim", "remove")
    BY <2>2, EntryStep
  <2> QED BY <1>2, <2>1, <2>2, tmpfs_createStep, register_direntryStep, createStep, remove_direntryStep
          DEF Open!Path
<1>3. ASSUME NEW t \in Callers, NEW n \in Names, Open!unlink(t, n) \/ \E creat \in BOOLEAN : Open!open(t, n, creat)
      PROVE  OpenInv'
  <2>1. call[t].at # "acquire"
    BY <1>3 DEF Open!unlink, Open!open, Open!Calls, Open!At
  <2>2. CASE Open!unlink(t, n)
    BY <2>1, <2>2, LookupStep DEF Open!unlink
  <2>3. CASE \E creat \in BOOLEAN : Open!open(t, n, creat)
    <3>1. PICK missing \in {"create", "user"} : Open!get_direntry(t, n, "found", missing)
      BY <2>3 DEF Open!open
    <3> QED BY <2>1, <3>1, LookupStep
  <2> QED BY <1>3, <2>2, <2>3
<1>4. ASSUME NEW t \in Callers, NEW d \in Open!Fds,
             Open!read(t, d) \/ Open!dup(t, d) \/ \E e \in Open!Fds : Open!dup2(t, d, e)
      PROVE  OpenInv'
  <2>1. CASE Open!read(t, d)
    BY <2>1, get_fdStep DEF Open!read
  <2>2. CASE Open!dup(t, d)
    BY <2>2, get_fdStep DEF Open!dup
  <2>3. CASE \E e \in Open!Fds : Open!dup2(t, d, e)
    BY <2>3, get_fdStep DEF Open!dup2
  <2> QED BY <1>4, <2>1, <2>2, <2>3
<1> QED BY <1>1, <1>2, <1>3, <1>4, add_fdStep, DropRefStep, Dup2Step, TablesStep DEF Open!Next

\* The file system, for any number of processes, threads, names, inodes, files and
\* descriptors: though open() and unlink() take no reference to the inode that
\* they have looked up, no inode in use is deleted, unless its name was removed
\* before register_direntry() had counted it.
THEOREM NothingInUseIsDeleted == Open!Spec => []InodeIsThere
<1>1. Open!Init => OpenInv
  <2> SUFFICES ASSUME Open!Init PROVE OpenInv
    OBVIOUS
  <2>1. "user" \in Steps
    BY DEF Steps
  <2>2. Open!Idle \in CallRecord /\ Open!Idle.at = "user"
    BY <2>1, DoingRecord, SMT DEF Open!Idle
  <2>3. OpenTypes
    <3>1. rc \in [Open!Inodes -> Int]
      BY SMT DEF Open!Init
    <3> QED BY <2>2, <3>1 DEF Open!Init, OpenTypes, Refs
  <2>4. \A i \in Open!Inodes : ~Made(i)
    BY DEF Open!Init, Made
  <2>5. MadeOK /\ RefsOK(fds, held)
    BY <2>2, Kinds DEF Open!Init, MadeOK, RefsOK, CallOK
  <2> QED BY <2>3, <2>4, <2>5 DEF OpenInv, CountOK, Open!Init
<1>2. OpenInv => InodeIsThere
  BY DEF OpenInv, RefsOK, InodeIsThere, Open!InodeIsThere
<1> QED BY <1>1, <1>2, OpenNext, PTL DEF Open!Spec
=============================================================================
