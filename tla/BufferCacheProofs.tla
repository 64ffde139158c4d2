------------------------- MODULE BufferCacheProofs -------------------------
(***************************************************************************)
(* The block cache for any finite set of users and any number of buffers:  *)
(* m_count is exact, a page in use stays, and no write is lost.            *)
(***************************************************************************)
EXTENDS BufferCache, FiniteSetTheorems, TLAPS

\* A step is for Zenon unless it names another prover.
USE Zenon

UserPcs ==
  {"idle", "get", "count", "data", "fill", "copy", "register", "release", "send",
   "s_lock", "sync", "flush", "clear", "r_lock", "reclaim"}
FlusherPcs == {"recv", "flush", "clear", "release", "send"}

\* A thread at one of these has a block to work on.
BusyPcs ==
  {"get", "count", "data", "fill", "copy", "register", "release", "send", "flush", "clear"}

TypeOK ==
  /\ cache_lock \in Threads \union {None}
  /\ m_lock \in [Bufs -> Threads \union {None}]
  /\ m_count \in [Bufs -> Int] /\ m_dirty \in [Bufs -> BOOLEAN]
  /\ m_page \in [Bufs -> {NoPage, "new", "old"}] /\ disk \in [Bufs -> {"new", "old"}]
  /\ dirty_buffers \in Seq(Bufs)
  /\ pc \in [Threads -> UserPcs \union FlusherPcs]
  /\ blks \in [Threads -> Seq(Bufs)]
  /\ writing \in [Threads -> BOOLEAN] /\ left \in [Threads -> SUBSET Bufs]
  /\ raced \subseteq Bufs

\* Where a thread can be, and the blocks it has then.
Placed(t) ==
  /\ pc[t] \in IF t = Flusher THEN FlusherPcs ELSE UserPcs
  /\ pc[t] \in {"idle", "recv", "s_lock", "sync"} => blks[t] = <<>>
  /\ pc[t] \in BusyPcs => blks[t] # <<>>
  /\ t = Flusher \/ pc[t] \in {"flush", "clear"} => blks[t] = <<>> \/ Tail(blks[t]) = <<>>

Places == \A t \in Threads : Placed(t)

\* A thread that gets a page for a buffer, in data().
Filling(t) == pc[t] = "fill" \/ (pc[t] \in {"r_lock", "reclaim"} /\ InData(t))

\* Who gets or writes out the page of a buffer holds the buffer's lock, and the
\* page it gets is not there yet.
Locks ==
  \A t \in Threads :
    /\ Filling(t) \/ pc[t] = "clear" => m_lock[cur(t)] = t
    /\ Filling(t) => m_page[cur(t)] = NoPage

\* A user has written to the page of b and not yet marked it.
Registering(b) == \E t \in Users : pc[t] = "register" /\ cur(t) = b

\* What is not on the device is on the page, and marked, or about to be.
Written ==
  \A b \in Bufs \ raced :
    /\ disk[b] = "old" => m_dirty[b] \/ Registering(b)
    /\ Flushed(b) => disk[b] = "new" \/ Registering(b)

\* The inductive invariant.
IInv == TypeOK /\ Places /\ CountIsExact /\ Locks /\ HeldPageStays /\ WritesSurvive /\ Written
------------------------------------------------------------------------------
(* Types and places *)

\* The block a thread works on.
LEMMA CurIsBuf ==
  ASSUME TypeOK, NEW t \in Threads, blks[t] # <<>>
  PROVE  cur(t) \in Bufs /\ Tail(blks[t]) \in Seq(Bufs)
BY SMT DEF TypeOK, cur

\* One block is a sequence with an empty tail.
LEMMA OneBlock ==
  ASSUME NEW b \in Bufs
  PROVE  <<b>> \in Seq(Bufs) /\ <<b>> # <<>> /\ Tail(<<b>>) = <<>> /\ Head(<<b>>) = b
BY SMT

\* The blocks of a call of block_rw.
LEMMA SomeBlocks ==
  ASSUME NEW first \in Bufs, NEW n \in 1..(NBufs - first)
  PROVE  /\ [i \in 1..n |-> first + i - 1] \in Seq(Bufs)
         /\ [i \in 1..n |-> first + i - 1] # <<>>
<1>1. n \in Nat /\ \A i \in 1..n : first + i - 1 \in Bufs
  BY NBufsAssumption, SMT DEF Bufs
<1>2. [i \in 1..n |-> first + i - 1] \in Seq(Bufs) /\ Len([i \in 1..n |-> first + i - 1]) = n
  BY <1>1, SMT
<1> QED
  BY <1>2, SMT

\* A thread at one of BusyPcs has a block, and only users are at these places.
LEMMA Busy ==
  ASSUME TypeOK, Places, NEW t \in Threads
  PROVE  /\ pc[t] \in BusyPcs => blks[t] # <<>> /\ cur(t) \in Bufs /\ Tail(blks[t]) \in Seq(Bufs)
         /\ pc[t] \notin FlusherPcs => t \in Users
BY CurIsBuf DEF Places, Placed, Threads, BusyPcs, FlusherPcs

\* Every step keeps the types.
LEMMA TypeNext ==
  ASSUME TypeOK, Places, [Next]_vars
  PROVE  TypeOK'
<1> USE NBufsAssumption DEF TypeOK, loop, locks, Run
<1>1. ASSUME NEW t \in Users, block_rw(t) PROVE TypeOK'
  <2>1. t \in Threads
    BY DEF Threads
  <2>2. PICK new \in Seq(Bufs), write \in BOOLEAN :
          /\ blks' = [blks EXCEPT ![t] = new]
          /\ writing' = [writing EXCEPT ![t] = write]
    BY <1>1, SomeBlocks DEF block_rw
  <2>3. blks' \in [Threads -> Seq(Bufs)] /\ writing' \in [Threads -> BOOLEAN]
    BY <2>1, <2>2
  <2>4. pc' \in [Threads -> UserPcs \union FlusherPcs]
    BY <1>1, <2>1 DEF block_rw, UserPcs
  <2> QED
    BY <1>1, <2>3, <2>4 DEF block_rw
<1>2. ASSUME NEW t \in Users, sync_all(t) \/ reclaim_memory(t) PROVE TypeOK'
  <2>1. t \in Threads
    BY DEF Threads
  <2> QED
    BY <1>2, <2>1 DEF sync_all, reclaim_memory, UserPcs
<1>3. ASSUME recv PROVE TypeOK'
  <2>1. Flusher \in Threads /\ Head(dirty_buffers) \in Bufs /\ Tail(dirty_buffers) \in Seq(Bufs)
    BY <1>3, SMT DEF recv, Threads
  <2>2. blks' \in [Threads -> Seq(Bufs)]
    BY <1>3, <2>1, OneBlock DEF recv
  <2> QED
    BY <1>3, <2>1, <2>2 DEF recv, FlusherPcs
<1>4. ASSUME NEW t \in Threads, NEW from, NEW to \in UserPcs, LockCache(t, from, to) PROVE TypeOK'
  BY <1>4 DEF LockCache
<1>5. ASSUME NEW t \in Threads, Count(t) PROVE TypeOK'
  BY <1>5, Busy, SMT DEF Count, UserPcs, BusyPcs
<1>6. ASSUME NEW t \in Threads, data(t) PROVE TypeOK'
  <2>1. cur(t) \in Bufs
    BY <1>6, Busy DEF data, BusyPcs
  <2>2. pc' \in [Threads -> UserPcs \union FlusherPcs]
    BY <1>6 DEF data, UserPcs
  <2>3. m_lock' \in [Bufs -> Threads \union {None}]
    BY <1>6, <2>1 DEF data
  <2>4. left' \in [Threads -> SUBSET Bufs]
    BY <1>6 DEF data
  <2> QED
    BY <1>6, <2>2, <2>3, <2>4 DEF data
<1>7. ASSUME NEW t \in Threads, Fill(t) PROVE TypeOK'
  BY <1>7, Busy DEF Fill, UserPcs, BusyPcs
<1>8. ASSUME NEW t \in Threads, Copy(t) PROVE TypeOK'
  <2>1. cur(t) \in Bufs
    BY <1>8, Busy DEF Copy, BusyPcs
  <2>2. pc' \in [Threads -> UserPcs \union FlusherPcs]
    <3>1. PICK to \in {"register", "release"} : pc' = [pc EXCEPT ![t] = to]
      BY <1>8 DEF Copy
    <3> QED
      BY <3>1 DEF UserPcs
  <2>3. m_page' \in [Bufs -> {NoPage, "new", "old"}] /\ disk' \in [Bufs -> {"new", "old"}]
    BY <1>8, <2>1 DEF Copy
  <2> QED
    BY <1>8, <2>2, <2>3 DEF Copy
<1>9. ASSUME NEW t \in Threads, register_write(t) PROVE TypeOK'
  BY <1>9, Busy DEF register_write, UserPcs, BusyPcs
<1>10. ASSUME NEW t \in Threads, release(t) PROVE TypeOK'
  <2>1. After(t) \in UserPcs \union FlusherPcs
    BY DEF After, UserPcs, FlusherPcs
  <2> QED
    <3>1. cur(t) \in Bufs /\ Tail(blks[t]) \in Seq(Bufs)
      BY <1>10, Busy DEF release, BusyPcs
    <3>2. pc' \in [Threads -> UserPcs \union FlusherPcs]
      BY <1>10, <2>1 DEF release, UserPcs
    <3>3. blks' \in [Threads -> Seq(Bufs)]
      BY <1>10, <3>1 DEF release, Advance
    <3>4. m_count' \in [Bufs -> Int]
      BY <1>10, <3>1, SMT DEF release
    <3> QED
      BY <1>10, <3>2, <3>3, <3>4 DEF release
<1>11. ASSUME NEW t \in Threads, Send(t) PROVE TypeOK'
  <2>1. After(t) \in UserPcs \union FlusherPcs
    BY DEF After, UserPcs, FlusherPcs
  <2> QED
    BY <1>11, <2>1, Busy, SMT DEF Send, Advance, BusyPcs
<1>12. ASSUME NEW t \in Threads, Write(t) PROVE TypeOK'
  BY <1>12, Busy DEF Write, UserPcs, BusyPcs
<1>13. ASSUME NEW t \in Threads, Clear(t) PROVE TypeOK'
  BY <1>13, Busy DEF Clear, Advance, UserPcs, BusyPcs
<1>14. ASSUME NEW t \in Threads, NEW b \in Bufs, Sync(t, b) PROVE TypeOK'
  BY <1>14, OneBlock DEF Sync, UserPcs
<1>15. ASSUME NEW t \in Threads, SyncEnd(t) \/ ReclaimEnd(t) PROVE TypeOK'
  BY <1>15 DEF SyncEnd, ReclaimEnd, UserPcs
<1>16. ASSUME NEW t \in Threads, NEW b \in Bufs, Reclaim(t, b) PROVE TypeOK'
  BY <1>16 DEF Reclaim, UserPcs
<1>17. CASE UNCHANGED vars
  BY <1>17 DEF vars
<1>18. "count" \in UserPcs /\ "sync" \in UserPcs /\ "reclaim" \in UserPcs
  BY DEF UserPcs
<1> QED
  BY <1>1, <1>2, <1>3, <1>4, <1>5, <1>6, <1>7, <1>8, <1>9, <1>10, <1>11, <1>12, <1>13, <1>14,
     <1>15, <1>16, <1>17, <1>18 DEF Next, Step

\* A step of one thread that leaves it in a good place.
LEMMA PlacesStep ==
  ASSUME Places, NEW t \in Threads, Placed(t)',
         \A u \in Threads : u # t => pc'[u] = pc[u] /\ blks'[u] = blks[u]
  PROVE  Places'
BY DEF Places, Placed

\* Where release() and send() leave a thread.
LEMMA AfterPut ==
  ASSUME TypeOK, Places, NEW t \in Threads, pc[t] \in {"release", "send"},
         pc' = [pc EXCEPT ![t] = After(t)], Advance(t)
  PROVE  Places'
<1>1. blks[t] # <<>> /\ Tail(blks[t]) \in Seq(Bufs)
  BY Busy DEF BusyPcs
<1>2. pc'[t] = After(t) /\ blks'[t] = Tail(blks[t])
  BY DEF TypeOK, Advance
<1>3. t = Flusher => Tail(blks[t]) = <<>>
  BY <1>1 DEF Places, Placed
<1>4. \A u \in Threads : u # t => pc'[u] = pc[u] /\ blks'[u] = blks[u]
  BY DEF TypeOK, Advance
<1>5. CASE t = Flusher
  <2>1. pc'[t] = "recv" /\ blks'[t] = <<>>
    BY <1>2, <1>3, <1>5 DEF After
  <2> QED
    BY <1>4, <1>5, <2>1, PlacesStep, SMT DEF Placed, FlusherPcs, BusyPcs
<1>6. CASE t # Flusher
  <2>1. pc'[t] = (IF blks'[t] = <<>> THEN "idle" ELSE "get")
    BY <1>2, <1>6 DEF After
  <2> QED
    BY <1>4, <1>6, <2>1, PlacesStep, SMT DEF Placed, UserPcs, BusyPcs
<1> QED
  BY <1>5, <1>6

\* Every step keeps the threads in their places.
LEMMA PlacesNext ==
  ASSUME TypeOK, Places, [Next]_vars
  PROVE  Places'
<1> USE DEF loop, locks, Run
<1>1. ASSUME NEW t \in Users, block_rw(t) PROVE Places'
  <2>1. t \in Threads /\ t # Flusher
    BY NoneAssumption DEF Threads
  <2>2. PICK new \in Seq(Bufs) : new # <<>> /\ blks' = [blks EXCEPT ![t] = new]
    BY <1>1, SomeBlocks DEF block_rw
  <2>3. pc' = [pc EXCEPT ![t] = "get"]
    BY <1>1 DEF block_rw
  <2>4. Placed(t)'
    BY <2>1, <2>2, <2>3 DEF TypeOK, Placed, UserPcs, BusyPcs
  <2> QED
    BY <2>1, <2>2, <2>3, <2>4, PlacesStep DEF TypeOK
<1>2. ASSUME NEW t \in Users, sync_all(t) \/ reclaim_memory(t) PROVE Places'
  <2>1. t \in Threads /\ t # Flusher
    BY NoneAssumption DEF Threads
  <2>2. pc[t] = "idle" /\ pc'[t] \in {"s_lock", "r_lock"} /\ blks' = blks
    BY <1>2, <2>1 DEF sync_all, reclaim_memory, TypeOK
  <2>3. Placed(t)'
    BY <2>1, <2>2 DEF Places, Placed, UserPcs, BusyPcs
  <2> QED
    BY <1>2, <2>1, <2>2, <2>3, PlacesStep DEF TypeOK, sync_all, reclaim_memory
<1>3. ASSUME recv PROVE Places'
  <2>1. Flusher \in Threads /\ Head(dirty_buffers) \in Bufs
    BY <1>3, SMT DEF recv, Threads, TypeOK
  <2>2. pc'[Flusher] = "flush" /\ blks'[Flusher] = <<Head(dirty_buffers)>>
    BY <1>3, <2>1 DEF recv, TypeOK
  <2>3. Placed(Flusher)'
    BY <2>1, <2>2, OneBlock DEF Placed, FlusherPcs, BusyPcs
  <2> QED
    BY <1>3, <2>1, <2>3, PlacesStep DEF recv, TypeOK
<1>4. ASSUME NEW t \in Threads, NEW from, NEW to, LockCache(t, from, to),
             <<from, to>> \in {<<"get", "count">>, <<"s_lock", "sync">>, <<"r_lock", "reclaim">>}
      PROVE  Places'
  <2>1. Placed(t)'
    BY <1>4 DEF LockCache, Places, Placed, UserPcs, FlusherPcs, BusyPcs, TypeOK
  <2> QED
    BY <1>4, <2>1, PlacesStep DEF LockCache, TypeOK
<1>5. ASSUME NEW t \in Threads, Count(t) PROVE Places'
  <2>1. Placed(t)'
    BY <1>5 DEF Count, Places, Placed, UserPcs, FlusherPcs, BusyPcs, TypeOK
  <2> QED
    BY <1>5, <2>1, PlacesStep DEF Count, TypeOK
<1>6. ASSUME NEW t \in Threads, data(t) PROVE Places'
  <2>1. Placed(t)'
    BY <1>6 DEF data, Places, Placed, UserPcs, FlusherPcs, BusyPcs, TypeOK
  <2> QED
    BY <1>6, <2>1, PlacesStep DEF data, TypeOK
<1>7. ASSUME NEW t \in Threads, Fill(t) PROVE Places'
  <2>1. Placed(t)'
    BY <1>7 DEF Fill, Places, Placed, UserPcs, FlusherPcs, BusyPcs, TypeOK
  <2> QED
    BY <1>7, <2>1, PlacesStep DEF Fill, TypeOK
<1>8. ASSUME NEW t \in Threads, Copy(t) PROVE Places'
  <2>1. pc[t] = "copy" /\ pc'[t] \in {"register", "release"} /\ blks' = blks
    BY <1>8 DEF Copy, TypeOK
  <2>2. Placed(t)'
    BY <2>1 DEF Places, Placed, UserPcs, FlusherPcs, BusyPcs
  <2> QED
    BY <1>8, <2>2, PlacesStep DEF Copy, TypeOK
<1>9. ASSUME NEW t \in Threads, register_write(t) PROVE Places'
  <2>1. Placed(t)'
    BY <1>9 DEF register_write, Places, Placed, UserPcs, FlusherPcs, BusyPcs, TypeOK
  <2> QED
    BY <1>9, <2>1, PlacesStep DEF register_write, TypeOK
<1>10. ASSUME NEW t \in Threads, Write(t) PROVE Places'
  <2>1. Placed(t)'
    BY <1>10 DEF Write, Places, Placed, UserPcs, FlusherPcs, BusyPcs, TypeOK
  <2> QED
    BY <1>10, <2>1, PlacesStep DEF Write, TypeOK
<1>11. ASSUME NEW t \in Threads, SyncEnd(t) PROVE Places'
  <2>1. Placed(t)'
    BY <1>11 DEF SyncEnd, Places, Placed, UserPcs, FlusherPcs, BusyPcs, TypeOK
  <2> QED
    BY <1>11, <2>1, PlacesStep DEF SyncEnd, TypeOK
<1>12. ASSUME NEW t \in Threads, ReclaimEnd(t) PROVE Places'
  <2>1. Placed(t)'
    BY <1>12 DEF ReclaimEnd, Places, Placed, UserPcs, FlusherPcs, BusyPcs, TypeOK, InData
  <2> QED
    BY <1>12, <2>1, PlacesStep DEF ReclaimEnd, TypeOK
<1>13. ASSUME NEW t \in Threads, release(t) PROVE Places'
  <2>1. CASE m_dirty[cur(t)]
    <3>1. pc[t] = "release" /\ pc' = [pc EXCEPT ![t] = "send"] /\ blks' = blks
      BY <1>13, <2>1 DEF release
    <3>2. Placed(t)'
      BY <3>1 DEF Places, Placed, UserPcs, FlusherPcs, BusyPcs, TypeOK
    <3> QED
      BY <3>1, <3>2, PlacesStep DEF TypeOK
  <2>2. CASE ~m_dirty[cur(t)]
    <3>1. pc[t] = "release" /\ pc' = [pc EXCEPT ![t] = After(t)] /\ Advance(t)
      BY <1>13, <2>2 DEF release
    <3> QED
      BY <3>1, AfterPut
  <2> QED
    BY <2>1, <2>2
<1>14. ASSUME NEW t \in Threads, Send(t) PROVE Places'
  BY <1>14, AfterPut DEF Send
<1>15. ASSUME NEW t \in Threads, Clear(t) PROVE Places'
  <2>1. /\ pc[t] = "clear" /\ pc'[t] = (IF t = Flusher THEN "release" ELSE "sync")
        /\ blks'[t] = IF t = Flusher THEN blks[t] ELSE Tail(blks[t])
    BY <1>15 DEF Clear, Advance, TypeOK
  <2>2. blks[t] # <<>> /\ Tail(blks[t]) = <<>>
    BY <2>1 DEF Places, Placed, BusyPcs
  <2>3. Placed(t)'
    BY <2>1, <2>2 DEF Placed, UserPcs, FlusherPcs, BusyPcs
  <2> QED
    BY <1>15, <2>3, PlacesStep DEF Clear, Advance, TypeOK
<1>16. ASSUME NEW t \in Threads, NEW b \in Bufs, Sync(t, b) PROVE Places'
  <2>1. t \in Users /\ t # Flusher
    BY <1>16, Busy, NoneAssumption DEF Sync, FlusherPcs
  <2>2. /\ blks[t] = <<>>
        /\ \/ pc'[t] = "flush" /\ blks'[t] = <<b>>
           \/ pc'[t] = "sync" /\ blks'[t] = blks[t]
    BY <1>16 DEF Sync, Places, Placed, TypeOK
  <2>3. Placed(t)'
    BY <2>1, <2>2, OneBlock DEF Placed, UserPcs, BusyPcs
  <2> QED
    BY <1>16, <2>3, PlacesStep DEF Sync, TypeOK
<1>17. ASSUME NEW t \in Threads, NEW b \in Bufs, Reclaim(t, b) PROVE Places'
  <2>1. Placed(t)'
    BY <1>17 DEF Reclaim, Places, Placed, TypeOK
  <2> QED
    BY <1>17, <2>1, PlacesStep DEF Reclaim, TypeOK
<1>18. CASE UNCHANGED vars
  BY <1>18 DEF vars, Places, Placed
<1> QED
  BY <1>1, <1>2, <1>3, <1>4, <1>5, <1>6, <1>7, <1>8, <1>9, <1>10, <1>11, <1>12, <1>13, <1>14, <1>15, <1>16, <1>17, <1>18 DEF Next, Step
------------------------------------------------------------------------------
(* m_count *)

\* The threads that have buffer b, and the times b is in the channel s.
Havers(b) == {t \in Threads : Has(t, b)}
Waits(s, b) == {i \in DOMAIN s : s[i] = b}

\* 1 where two buffers are the same.
Same(a, b) == IF a = b THEN 1 ELSE 0

\* Both are finite.
LEMMA CountsFinite ==
  ASSUME NEW b, NEW s \in Seq(Bufs)
  PROVE  /\ IsFiniteSet(Havers(b)) /\ Cardinality(Havers(b)) \in Nat
         /\ IsFiniteSet(Waits(s, b)) /\ Cardinality(Waits(s, b)) \in Nat
<1>1. IsFiniteSet(Threads)
  BY UsersAssumption, FS_AddElement DEF Threads
<1>2. Havers(b) \in SUBSET Threads
  BY DEF Havers
<1>3. IsFiniteSet(1..Len(s))
  BY FS_Interval, SMT
<1>4. Waits(s, b) \in SUBSET (1..Len(s))
  BY SMT DEF Waits
<1> QED
  BY <1>1, <1>2, <1>3, <1>4, FS_Subset, FS_CardinalityType

\* A buffer has finitely many users, so their number is a natural number.
LEMMA HaversFinite ==
  ASSUME NEW b
  PROVE  IsFiniteSet(Havers(b)) /\ Cardinality(Havers(b)) \in Nat
<1>1. <<>> \in Seq(Bufs)
  BY SMT
<1> QED
  BY <1>1, CountsFinite

\* dirty_buffers.send(a)
LEMMA WaitsAppend ==
  ASSUME NEW s \in Seq(Bufs), NEW a \in Bufs, NEW b
  PROVE  Cardinality(Waits(Append(s, a), b)) = Cardinality(Waits(s, b)) + Same(a, b)
<1>1. /\ DOMAIN Append(s, a) = 1..(Len(s) + 1) /\ DOMAIN s = 1..Len(s) /\ Len(s) \in Nat
      /\ Append(s, a)[Len(s) + 1] = a
      /\ \A i \in 1..Len(s) : Append(s, a)[i] = s[i]
  BY SMT
<1>2. CASE a = b
  <2>1. Waits(Append(s, a), b) = Waits(s, b) \union {Len(s) + 1}
    BY <1>1, <1>2, SMT DEF Waits
  <2>2. Len(s) + 1 \notin Waits(s, b)
    BY <1>1, SMT DEF Waits
  <2> QED
    BY <1>2, <2>1, <2>2, CountsFinite, FS_AddElement DEF Same
<1>3. CASE a # b
  <2>1. Waits(Append(s, a), b) = Waits(s, b)
    BY <1>1, <1>3, SMT DEF Waits
  <2> QED
    BY <1>3, <2>1, CountsFinite, SMT DEF Same
<1> QED
  BY <1>2, <1>3

\* dirty_buffers.recv()
LEMMA WaitsTail ==
  ASSUME NEW s \in Seq(Bufs), s # <<>>, NEW b
  PROVE  Cardinality(Waits(Tail(s), b)) = Cardinality(Waits(s, b)) - Same(Head(s), b)
<1> DEFINE A == Waits(Tail(s), b)
           B == Waits(s, b) \ {1}
           f == [i \in A |-> i + 1]
<1>1. /\ Tail(s) \in Seq(Bufs) /\ Len(s) \in Nat \ {0} /\ Head(s) = s[1]
      /\ DOMAIN s = 1..Len(s) /\ DOMAIN Tail(s) = 1..(Len(s) - 1)
      /\ \A i \in 1..(Len(s) - 1) : Tail(s)[i] = s[i + 1]
  BY SMT
<1>2. A = {i \in 1..(Len(s) - 1) : s[i + 1] = b} /\ B = {i \in 2..Len(s) : s[i] = b}
  BY <1>1, SMT DEF Waits
<1>3. f \in Bijection(A, B)
  <2>1. \A i \in A : i \in Int /\ i + 1 \in B
    BY <1>1, <1>2, SMT
  <2>2. \A j \in B : j \in Int /\ j - 1 \in A
    BY <1>1, <1>2, SMT
  <2> HIDE DEF A, B
  <2>3. f \in [A -> B]
    BY <2>1
  <2>4. \A i, j \in A : f[i] = f[j] => i = j
    BY <2>1, SMT
  <2>5. \A j \in B : \E i \in A : f[i] = j
    <3> TAKE j \in B
    <3>1. f[j - 1] = j
      BY <2>2, SMT
    <3> QED
      BY <2>2, <3>1
  <2> QED
    BY <2>3, <2>4, <2>5 DEF Bijection, Injection, Surjection, IsInjective
<1>4. Cardinality(A) = Cardinality(B)
  <2>1. ExistsBijection(A, B)
    BY <1>3 DEF ExistsBijection
  <2>2. IsFiniteSet(A)
    BY <1>1, CountsFinite
  <2> QED
    BY <2>1, <2>2, FS_Bijection
<1>5. 1 \in Waits(s, b) <=> Head(s) = b
  BY <1>1, SMT DEF Waits
<1>6. IsFiniteSet(Waits(s, b)) /\ Cardinality(Waits(s, b)) \in Nat
  BY CountsFinite
<1>7. CASE Head(s) = b
  <2>1. Cardinality(B) = Cardinality(Waits(s, b)) - 1
    BY <1>5, <1>6, <1>7, FS_RemoveElement
  <2> QED
    BY <1>4, <1>7, <2>1 DEF Same
<1>8. CASE Head(s) # b
  <2>1. B = Waits(s, b)
    BY <1>5, <1>8
  <2>2. Cardinality(Waits(Tail(s), b)) = Cardinality(Waits(s, b))
    BY <1>4, <2>1
  <2>3. Same(Head(s), b) = 0
    BY <1>8 DEF Same
  <2> QED
    BY <1>6, <2>2, <2>3, SMT
<1> QED
  BY <1>7, <1>8

\* A step of one thread.
Alone(t) == \A u \in Threads : u # t => pc'[u] = pc[u] /\ blks'[u] = blks[u]

\* Who takes no step has the same buffers.
LEMMA OthersHave ==
  ASSUME NEW t \in Threads, Alone(t), NEW u \in Threads, u # t, NEW b
  PROVE  Has(u, b)' <=> Has(u, b)
BY DEF Alone, Has, cur, InData

\* get(), recv(): a thread without a buffer has one.
LEMMA HaversAdd ==
  ASSUME NEW t \in Threads, Alone(t), NEW c \in Bufs, NEW b \in Bufs,
         ~Has(t, b), Has(t, b)' <=> b = c
  PROVE  Cardinality(Havers(b))' = Cardinality(Havers(b)) + Same(c, b)
<1>1. CASE b = c
  <2>1. Havers(b)' = Havers(b) \union {t} /\ t \notin Havers(b)
    BY <1>1, OthersHave DEF Havers
  <2> QED
    BY <1>1, <2>1, HaversFinite, FS_AddElement DEF Same
<1>2. CASE b # c
  <2>1. Havers(b)' = Havers(b)
    BY <1>2, OthersHave DEF Havers
  <2> QED
    BY <1>2, <2>1, HaversFinite, SMT DEF Same
<1> QED
  BY <1>1, <1>2

\* release(), send(): a thread puts its buffer back.
LEMMA HaversRemove ==
  ASSUME NEW t \in Threads, Alone(t), NEW c \in Bufs, NEW b \in Bufs,
         Has(t, b) <=> b = c, ~Has(t, b)'
  PROVE  Cardinality(Havers(b))' = Cardinality(Havers(b)) - Same(c, b)
<1>1. CASE b = c
  <2>1. Havers(b)' = Havers(b) \ {t} /\ t \in Havers(b)
    BY <1>1, OthersHave DEF Havers
  <2> QED
    BY <1>1, <2>1, HaversFinite, FS_RemoveElement DEF Same
<1>2. CASE b # c
  <2>1. Havers(b)' = Havers(b)
    BY <1>2, OthersHave DEF Havers
  <2> QED
    BY <1>2, <2>1, HaversFinite, SMT DEF Same
<1> QED
  BY <1>1, <1>2

\* A step that counts nobody and changes nobody's buffer.
LEMMA CountSame ==
  ASSUME CountIsExact, NEW t \in Threads, Alone(t), \A b \in Bufs : Has(t, b)' <=> Has(t, b),
         m_count' = m_count, dirty_buffers' = dirty_buffers
  PROVE  CountIsExact'
<1>1. ASSUME NEW b \in Bufs PROVE {u \in Threads : Has(u, b)}' = {u \in Threads : Has(u, b)}
  BY OthersHave
<1> QED
  BY <1>1 DEF CountIsExact

\* The count, with the names above.
LEMMA CountIs ==
  CountIsExact <=>
    \A b \in Bufs : m_count[b] = Cardinality(Havers(b)) + Cardinality(Waits(dirty_buffers, b))
BY DEF CountIsExact, Havers, Waits

\* Every step keeps the count.
LEMMA CountNext ==
  ASSUME TypeOK, Places, CountIsExact, TypeOK', Places', [Next]_vars
  PROVE  CountIsExact'
<1> USE DEF loop, locks, Run
<1>1. ASSUME NEW t \in Users, block_rw(t) \/ sync_all(t) \/ reclaim_memory(t) PROVE CountIsExact'
  <2>1. t \in Threads /\ t # Flusher
    BY NoneAssumption DEF Threads
  <2>2. /\ pc[t] = "idle" /\ pc'[t] \in {"get", "s_lock", "r_lock"}
        /\ pc'[t] # "get" => blks'[t] = blks[t]
        /\ m_count' = m_count /\ dirty_buffers' = dirty_buffers
    BY <1>1, <2>1 DEF block_rw, sync_all, reclaim_memory, TypeOK
  <2>3. Alone(t)
    BY <1>1 DEF block_rw, sync_all, reclaim_memory, TypeOK, Alone
  <2>4. \A b \in Bufs : Has(t, b)' <=> Has(t, b)
    BY <2>1, <2>2 DEF Has, InData, Places, Placed
  <2> QED
    BY <2>1, <2>2, <2>3, <2>4, CountSame
<1>2. ASSUME recv PROVE CountIsExact'
  <2> DEFINE c == Head(dirty_buffers)
  <2>1. Flusher \in Threads /\ c \in Bufs
    BY <1>2, SMT DEF recv, Threads, TypeOK
  <2>2. /\ pc[Flusher] = "recv" /\ pc'[Flusher] = "flush" /\ blks'[Flusher] = <<c>>
        /\ m_count' = m_count /\ dirty_buffers # <<>> /\ dirty_buffers' = Tail(dirty_buffers)
    BY <1>2, <2>1 DEF recv, TypeOK
  <2>3. Alone(Flusher)
    BY <1>2 DEF recv, TypeOK, Alone
  <2>4. ASSUME NEW b \in Bufs PROVE ~Has(Flusher, b) /\ (Has(Flusher, b)' <=> b = c)
    BY <2>1, <2>2, OneBlock DEF Has, InData, cur
  <2>5. ASSUME NEW b \in Bufs
        PROVE  m_count'[b] = Cardinality(Havers(b))' + Cardinality(Waits(dirty_buffers, b))'
    <3>1. Cardinality(Havers(b))' = Cardinality(Havers(b)) + Same(c, b)
      BY <2>1, <2>3, <2>4, HaversAdd
    <3>2. Cardinality(Waits(dirty_buffers', b)) = Cardinality(Waits(dirty_buffers, b)) - Same(c, b)
      BY <2>2, WaitsTail DEF TypeOK
    <3>3. Waits(dirty_buffers, b)' = Waits(dirty_buffers', b)
      BY DEF Waits
    <3>4. Cardinality(Havers(b)) \in Nat /\ Cardinality(Waits(dirty_buffers, b)) \in Nat
      BY CountsFinite DEF TypeOK
    <3> QED
      BY <2>2, <3>1, <3>2, <3>3, <3>4, CountIs, SMT DEF Same
  <2> QED
    BY <2>5 DEF CountIsExact, Havers, Waits
<1>3. ASSUME NEW t \in Threads, NEW from, NEW to, LockCache(t, from, to),
             <<from, to>> \in {<<"get", "count">>, <<"s_lock", "sync">>, <<"r_lock", "reclaim">>}
      PROVE  CountIsExact'
  <2>1. Alone(t) /\ m_count' = m_count /\ dirty_buffers' = dirty_buffers /\ blks' = blks
    BY <1>3 DEF LockCache, TypeOK, Alone
  <2>2. \A b \in Bufs : Has(t, b)' <=> Has(t, b)
    BY <1>3 DEF LockCache, TypeOK, Has, InData, cur
  <2> QED
    BY <2>1, <2>2, CountSame
<1>4. ASSUME NEW t \in Threads, data(t) PROVE CountIsExact'
  <2>1. Alone(t) /\ m_count' = m_count /\ dirty_buffers' = dirty_buffers
    BY <1>4 DEF data, TypeOK, Alone
  <2>2. \A b \in Bufs : Has(t, b)' <=> Has(t, b)
    BY <1>4 DEF data, TypeOK, Has, InData, cur, Places, Placed, BusyPcs
  <2> QED
    BY <2>1, <2>2, CountSame
<1>5. ASSUME NEW t \in Threads, Fill(t) PROVE CountIsExact'
  <2>1. Alone(t) /\ m_count' = m_count /\ dirty_buffers' = dirty_buffers
    BY <1>5 DEF Fill, TypeOK, Alone
  <2>2. \A b \in Bufs : Has(t, b)' <=> Has(t, b)
    BY <1>5 DEF Fill, TypeOK, Has, InData, cur, Places, Placed, BusyPcs
  <2> QED
    BY <2>1, <2>2, CountSame
<1>6. ASSUME NEW t \in Threads, Copy(t) PROVE CountIsExact'
  <2>1. Alone(t) /\ m_count' = m_count /\ dirty_buffers' = dirty_buffers
    BY <1>6, SMT DEF Copy, TypeOK, Alone
  <2>2. \A b \in Bufs : Has(t, b)' <=> Has(t, b)
    BY <1>6, SMT DEF Copy, TypeOK, Has, InData, cur, Places, Placed, BusyPcs
  <2> QED
    BY <2>1, <2>2, CountSame
<1>7. ASSUME NEW t \in Threads, register_write(t) PROVE CountIsExact'
  <2>1. Alone(t) /\ m_count' = m_count /\ dirty_buffers' = dirty_buffers
    BY <1>7 DEF register_write, TypeOK, Alone
  <2>2. \A b \in Bufs : Has(t, b)' <=> Has(t, b)
    BY <1>7 DEF register_write, TypeOK, Has, InData, cur, Places, Placed, BusyPcs
  <2> QED
    BY <2>1, <2>2, CountSame
<1>8. ASSUME NEW t \in Threads, Write(t) PROVE CountIsExact'
  <2>1. Alone(t) /\ m_count' = m_count /\ dirty_buffers' = dirty_buffers
    BY <1>8 DEF Write, TypeOK, Alone
  <2>2. \A b \in Bufs : Has(t, b)' <=> Has(t, b)
    BY <1>8 DEF Write, TypeOK, Has, InData, cur, Places, Placed, BusyPcs
  <2> QED
    BY <2>1, <2>2, CountSame
<1>9. ASSUME NEW t \in Threads, SyncEnd(t) PROVE CountIsExact'
  <2>1. Alone(t) /\ m_count' = m_count /\ dirty_buffers' = dirty_buffers
    BY <1>9 DEF SyncEnd, TypeOK, Alone
  <2>2. \A b \in Bufs : Has(t, b)' <=> Has(t, b)
    BY <1>9 DEF SyncEnd, TypeOK, Has, InData, cur, Places, Placed, BusyPcs
  <2> QED
    BY <2>1, <2>2, CountSame
<1>10. ASSUME NEW t \in Threads, ReclaimEnd(t) PROVE CountIsExact'
  <2>1. Alone(t) /\ m_count' = m_count /\ dirty_buffers' = dirty_buffers
    BY <1>10 DEF ReclaimEnd, TypeOK, Alone
  <2>2. \A b \in Bufs : Has(t, b)' <=> Has(t, b)
    BY <1>10 DEF ReclaimEnd, TypeOK, Has, InData, cur, Places, Placed, BusyPcs
  <2> QED
    BY <2>1, <2>2, CountSame
<1>11. ASSUME NEW t \in Threads, NEW a \in Bufs, Reclaim(t, a) PROVE CountIsExact'
  <2>1. Alone(t) /\ m_count' = m_count /\ dirty_buffers' = dirty_buffers
    BY <1>11 DEF Reclaim, TypeOK, Alone
  <2>2. \A b \in Bufs : Has(t, b)' <=> Has(t, b)
    BY <1>11 DEF Reclaim, TypeOK, Has, InData, cur, Places, Placed, BusyPcs
  <2> QED
    BY <2>1, <2>2, CountSame
<1>12. ASSUME NEW t \in Threads, Clear(t) PROVE CountIsExact'
  <2>1. Alone(t) /\ m_count' = m_count /\ dirty_buffers' = dirty_buffers
    BY <1>12 DEF Clear, Advance, TypeOK, Alone
  <2>2. /\ pc[t] = "clear" /\ pc'[t] = (IF t = Flusher THEN "release" ELSE "sync")
        /\ t = Flusher => blks'[t] = blks[t]
    BY <1>12 DEF Clear, TypeOK
  <2>3. \A b \in Bufs : Has(t, b)' <=> Has(t, b)
    BY <2>2 DEF Has, InData, cur
  <2> QED
    BY <2>1, <2>3, CountSame
<1>13. ASSUME NEW t \in Threads, NEW a \in Bufs, Sync(t, a) PROVE CountIsExact'
  <2>1. Alone(t) /\ m_count' = m_count /\ dirty_buffers' = dirty_buffers
    BY <1>13 DEF Sync, TypeOK, Alone
  <2>2. t # Flusher /\ pc[t] = "sync" /\ pc'[t] \in {"sync", "flush"}
    BY <1>13 DEF Sync, TypeOK, Places, Placed, FlusherPcs
  <2>3. \A b \in Bufs : Has(t, b)' <=> Has(t, b)
    BY <2>2 DEF Has, InData, cur
  <2> QED
    BY <2>1, <2>3, CountSame
<1>14. ASSUME NEW t \in Threads, Count(t) PROVE CountIsExact'
  <2>1. cur(t) \in Bufs /\ blks[t] # <<>>
    BY <1>14, Busy DEF Count, BusyPcs
  <2>2. /\ pc[t] = "count" /\ pc'[t] = "data" /\ blks' = blks
        /\ m_count' = [m_count EXCEPT ![cur(t)] = @ + 1] /\ dirty_buffers' = dirty_buffers
    BY <1>14 DEF Count, TypeOK
  <2>3. Alone(t)
    BY <1>14 DEF Count, TypeOK, Alone
  <2>4. ASSUME NEW b \in Bufs PROVE ~Has(t, b) /\ (Has(t, b)' <=> b = cur(t))
    BY <2>1, <2>2 DEF Has, InData, cur
  <2>5. ASSUME NEW b \in Bufs
        PROVE  m_count'[b] = Cardinality(Havers(b))' + Cardinality(Waits(dirty_buffers, b))'
    <3>1. Cardinality(Havers(b))' = Cardinality(Havers(b)) + Same(cur(t), b)
      BY <2>1, <2>3, <2>4, HaversAdd
    <3>2. Waits(dirty_buffers, b)' = Waits(dirty_buffers, b)
      BY <2>2 DEF Waits
    <3>3. Cardinality(Havers(b)) \in Nat /\ Cardinality(Waits(dirty_buffers, b)) \in Nat
      BY CountsFinite DEF TypeOK
    <3>4. m_count'[b] = m_count[b] + Same(cur(t), b)
      BY <2>1, <2>2, SMT DEF Same, TypeOK
    <3> QED
      BY <3>1, <3>2, <3>3, <3>4, CountIs, SMT DEF Same
  <2> QED
    BY <2>5 DEF CountIsExact, Havers, Waits
<1>15. ASSUME NEW t \in Threads, release(t), m_dirty[cur(t)] PROVE CountIsExact'
  <2>1. Alone(t) /\ m_count' = m_count /\ dirty_buffers' = dirty_buffers
    BY <1>15 DEF release, TypeOK, Alone
  <2>2. pc[t] = "release" /\ pc'[t] = "send" /\ blks' = blks
    BY <1>15 DEF release, TypeOK
  <2>3. \A b \in Bufs : Has(t, b)' <=> Has(t, b)
    BY <2>2 DEF Has, InData, cur
  <2> QED
    BY <2>1, <2>3, CountSame
<1>16. ASSUME NEW t \in Threads, NEW b \in Bufs, pc[t] \in {"release", "send"},
              Advance(t), pc' = [pc EXCEPT ![t] = After(t)]
       PROVE  Cardinality(Havers(b))' = Cardinality(Havers(b)) - Same(cur(t), b)
  <2>1. cur(t) \in Bufs /\ blks[t] # <<>>
    BY <1>16, Busy DEF BusyPcs
  <2>2. Alone(t)
    BY <1>16 DEF Alone, Advance, TypeOK
  <2>3. pc'[t] \in {"recv", "get", "idle"}
    BY <1>16 DEF TypeOK, After
  <2>4. (Has(t, b) <=> b = cur(t)) /\ ~Has(t, b)'
    BY <1>16, <2>1, <2>3 DEF Has
  <2> QED
    BY <2>1, <2>2, <2>4, HaversRemove
<1>17. ASSUME NEW t \in Threads, release(t), ~m_dirty[cur(t)] PROVE CountIsExact'
  <2>1. cur(t) \in Bufs
    BY <1>17, Busy DEF release, BusyPcs
  <2>2. /\ pc[t] = "release" /\ pc' = [pc EXCEPT ![t] = After(t)] /\ Advance(t)
        /\ m_count' = [m_count EXCEPT ![cur(t)] = @ - 1] /\ dirty_buffers' = dirty_buffers
    BY <1>17 DEF release
  <2>3. ASSUME NEW b \in Bufs
        PROVE  m_count'[b] = Cardinality(Havers(b))' + Cardinality(Waits(dirty_buffers, b))'
    <3>1. Cardinality(Havers(b))' = Cardinality(Havers(b)) - Same(cur(t), b)
      BY <1>16, <2>2
    <3>2. Waits(dirty_buffers, b)' = Waits(dirty_buffers, b)
      BY <2>2 DEF Waits
    <3>3. Cardinality(Havers(b)) \in Nat /\ Cardinality(Waits(dirty_buffers, b)) \in Nat
      BY CountsFinite DEF TypeOK
    <3>4. m_count'[b] = m_count[b] - Same(cur(t), b)
      BY <2>1, <2>2, SMT DEF Same, TypeOK
    <3> QED
      BY <3>1, <3>2, <3>3, <3>4, CountIs, SMT DEF Same
  <2> QED
    BY <2>3 DEF CountIsExact, Havers, Waits
<1>18. ASSUME NEW t \in Threads, Send(t) PROVE CountIsExact'
  <2>1. cur(t) \in Bufs
    BY <1>18, Busy DEF Send, BusyPcs
  <2>2. /\ pc[t] = "send" /\ pc' = [pc EXCEPT ![t] = After(t)] /\ Advance(t)
        /\ m_count' = m_count /\ dirty_buffers' = Append(dirty_buffers, cur(t))
    BY <1>18 DEF Send
  <2>3. ASSUME NEW b \in Bufs
        PROVE  m_count'[b] = Cardinality(Havers(b))' + Cardinality(Waits(dirty_buffers, b))'
    <3>1. Cardinality(Havers(b))' = Cardinality(Havers(b)) - Same(cur(t), b)
      BY <1>16, <2>2
    <3>2. Cardinality(Waits(dirty_buffers', b))
            = Cardinality(Waits(dirty_buffers, b)) + Same(cur(t), b)
      BY <2>1, <2>2, WaitsAppend DEF TypeOK
    <3>3. Waits(dirty_buffers, b)' = Waits(dirty_buffers', b)
      BY DEF Waits
    <3>4. Cardinality(Havers(b)) \in Nat /\ Cardinality(Waits(dirty_buffers, b)) \in Nat
      BY CountsFinite DEF TypeOK
    <3> QED
      BY <2>2, <3>1, <3>2, <3>3, <3>4, CountIs, SMT DEF Same
  <2> QED
    BY <2>3 DEF CountIsExact, Havers, Waits
<1>19. CASE UNCHANGED vars
  BY <1>19 DEF vars, CountIsExact, Has, InData, cur
<1> QED
  BY <1>1, <1>2, <1>3, <1>4, <1>5, <1>6, <1>7, <1>8, <1>9, <1>10, <1>11, <1>12, <1>13, <1>14, <1>15,
     <1>17, <1>18, <1>19 DEF Next, Step
------------------------------------------------------------------------------
(* m_lock, and the pages in use *)

\* What Locks says of one thread.
Locked(t) ==
  /\ Filling(t) \/ pc[t] = "clear" => m_lock[cur(t)] = t
  /\ Filling(t) => m_page[cur(t)] = NoPage

\* A step of t takes no lock from another thread, and puts no page where one is
\* being got.
Spares(t) ==
  \A u \in Threads, b \in Bufs :
    u # t /\ m_lock[b] = u => m_lock'[b] = u /\ (m_page[b] = NoPage => m_page'[b] = NoPage)

\* Who holds the lock of a buffer keeps it and what it says while another thread steps.
LEMMA LocksStep ==
  ASSUME TypeOK, Places, Locks, NEW t \in Threads, Alone(t), Spares(t), Locked(t)'
  PROVE  Locks'
<1>1. ASSUME NEW u \in Threads, u # t PROVE Locked(u)'
  <2>1. pc'[u] = pc[u] /\ blks'[u] = blks[u]
    BY <1>1 DEF Alone
  <2>2. (Filling(u)' <=> Filling(u)) /\ cur(u)' = cur(u)
    BY <2>1 DEF Filling, InData, cur
  <2>3. Filling(u) \/ pc[u] = "clear" => cur(u) \in Bufs
    BY CurIsBuf, Busy DEF Filling, InData, BusyPcs
  <2>4. Locked(u)
    BY DEF Locks, Locked
  <2> QED
    BY <1>1, <2>1, <2>2, <2>3, <2>4 DEF Locked, Spares
<1> QED
  BY <1>1 DEF Locks, Locked

\* Every step keeps the locks.
LEMMA LocksNext ==
  ASSUME TypeOK, Places, Locks, HeldPageStays, [Next]_vars
  PROVE  Locks'
<1> USE DEF loop, locks, Run
<1>1. ASSUME NEW t \in Users, block_rw(t) \/ sync_all(t) \/ reclaim_memory(t) PROVE Locks'
  <2>1. t \in Threads
    BY DEF Threads
  <2>2. /\ pc[t] = "idle" /\ pc'[t] \in {"get", "s_lock", "r_lock"}
        /\ pc'[t] # "get" => blks'[t] = blks[t]
        /\ m_lock' = m_lock /\ m_page' = m_page
    BY <1>1, <2>1 DEF block_rw, sync_all, reclaim_memory, TypeOK
  <2>3. Alone(t)
    BY <1>1 DEF block_rw, sync_all, reclaim_memory, TypeOK, Alone
  <2>4. Locked(t)'
    BY <2>1, <2>2 DEF Locked, Filling, InData, Places, Placed
  <2> QED
    BY <2>1, <2>2, <2>3, <2>4, LocksStep DEF Spares
<1>2. ASSUME recv PROVE Locks'
  <2>1. Flusher \in Threads
    BY DEF Threads
  <2>2. Alone(Flusher) /\ Spares(Flusher) /\ pc'[Flusher] = "flush"
    BY <1>2, <2>1 DEF recv, TypeOK, Alone, Spares
  <2> QED
    BY <2>1, <2>2, LocksStep DEF Locked, Filling
<1>3. ASSUME NEW t \in Threads, NEW from, NEW to, LockCache(t, from, to),
             <<from, to>> \in {<<"get", "count">>, <<"s_lock", "sync">>, <<"r_lock", "reclaim">>}
      PROVE  Locks'
  <2>1. Alone(t) /\ Spares(t)
    BY <1>3 DEF LockCache, TypeOK, Alone, Spares
  <2>2. Locked(t)'
    BY <1>3 DEF LockCache, TypeOK, Locks, Locked, Filling, InData, cur
  <2> QED
    BY <2>1, <2>2, LocksStep
<1>4. ASSUME NEW t \in Threads, Count(t) PROVE Locks'
  <2>1. Alone(t) /\ Spares(t)
    BY <1>4 DEF Count, TypeOK, Alone, Spares
  <2>2. pc'[t] \in {"data", "release", "send", "recv", "get", "idle"}
    BY <1>4 DEF Count, TypeOK
  <2> QED
    BY <2>1, <2>2, LocksStep DEF Locked, Filling
<1>5. ASSUME NEW t \in Threads, register_write(t) PROVE Locks'
  <2>1. Alone(t) /\ Spares(t)
    BY <1>5 DEF register_write, TypeOK, Alone, Spares
  <2>2. pc'[t] \in {"data", "release", "send", "recv", "get", "idle"}
    BY <1>5 DEF register_write, TypeOK
  <2> QED
    BY <2>1, <2>2, LocksStep DEF Locked, Filling
<1>6. ASSUME NEW t \in Threads, release(t) PROVE Locks'
  <2>1. Alone(t) /\ Spares(t)
    BY <1>6 DEF release, TypeOK, Alone, Spares, Advance
  <2>2. pc'[t] \in {"data", "release", "send", "recv", "get", "idle"}
    BY <1>6 DEF release, TypeOK, After
  <2> QED
    BY <2>1, <2>2, LocksStep DEF Locked, Filling
<1>7. ASSUME NEW t \in Threads, Send(t) PROVE Locks'
  <2>1. Alone(t) /\ Spares(t)
    BY <1>7 DEF Send, TypeOK, Alone, Spares, Advance
  <2>2. pc'[t] \in {"data", "release", "send", "recv", "get", "idle"}
    BY <1>7 DEF Send, TypeOK, After
  <2> QED
    BY <2>1, <2>2, LocksStep DEF Locked, Filling
<1>8. ASSUME NEW t \in Threads, data(t) PROVE Locks'
  <2>1. cur(t) \in Bufs /\ m_lock[cur(t)] = None
    BY <1>8, Busy DEF data, BusyPcs
  <2>2. Alone(t)
    BY <1>8 DEF data, TypeOK, Alone
  <2>3. Spares(t)
    BY <1>8, <2>1, NoneAssumption DEF data, TypeOK, Spares, Threads
  <2>4. Locked(t)'
    BY <1>8, <2>1 DEF data, TypeOK, Locked, Filling, InData, cur
  <2> QED
    BY <2>2, <2>3, <2>4, LocksStep
<1>9. ASSUME NEW t \in Threads, Fill(t) PROVE Locks'
  <2>1. cur(t) \in Bufs /\ m_lock[cur(t)] = t
    BY <1>9, Busy DEF Fill, BusyPcs, Locks, Filling
  <2>2. Alone(t) /\ pc'[t] = "copy"
    BY <1>9 DEF Fill, TypeOK, Alone
  <2>3. Spares(t)
    BY <1>9, <2>1 DEF Fill, TypeOK, Spares
  <2> QED
    BY <2>2, <2>3, LocksStep DEF Locked, Filling
<1>10. ASSUME NEW t \in Threads, Copy(t) PROVE Locks'
  <2>1. cur(t) \in Bufs /\ t \in Users
    BY <1>10, Busy DEF Copy, BusyPcs, FlusherPcs
  <2>2. m_page[cur(t)] # NoPage
    BY <1>10, <2>1 DEF Copy, HeldPageStays
  <2>3. Alone(t) /\ pc'[t] \in {"register", "release"}
    BY <1>10 DEF Copy, TypeOK, Alone
  <2>4. Spares(t)
    BY <1>10, <2>1, <2>2 DEF Copy, TypeOK, Spares
  <2> QED
    BY <2>3, <2>4, LocksStep DEF Locked, Filling
<1>11. ASSUME NEW t \in Threads, Write(t) PROVE Locks'
  <2>1. cur(t) \in Bufs /\ m_lock[cur(t)] = None
    BY <1>11, Busy DEF Write, BusyPcs
  <2>2. Alone(t)
    BY <1>11 DEF Write, TypeOK, Alone
  <2>3. Spares(t)
    BY <1>11, <2>1, NoneAssumption DEF Write, TypeOK, Spares, Threads
  <2>4. Locked(t)'
    BY <1>11, <2>1 DEF Write, TypeOK, Locked, Filling, cur
  <2> QED
    BY <2>2, <2>3, <2>4, LocksStep
<1>12. ASSUME NEW t \in Threads, Clear(t) PROVE Locks'
  <2>1. cur(t) \in Bufs /\ m_lock[cur(t)] = t
    BY <1>12, Busy DEF Clear, BusyPcs, Locks
  <2>2. Alone(t) /\ pc'[t] \in {"release", "sync"}
    BY <1>12 DEF Clear, Advance, TypeOK, Alone
  <2>3. Spares(t)
    BY <1>12, <2>1 DEF Clear, TypeOK, Spares
  <2> QED
    BY <2>2, <2>3, LocksStep DEF Locked, Filling
<1>13. ASSUME NEW t \in Threads, NEW a \in Bufs, Sync(t, a) PROVE Locks'
  <2>1. Alone(t) /\ Spares(t) /\ pc'[t] \in {"flush", "sync"}
    BY <1>13 DEF Sync, TypeOK, Alone, Spares
  <2> QED
    BY <2>1, LocksStep DEF Locked, Filling
<1>14. ASSUME NEW t \in Threads, SyncEnd(t) PROVE Locks'
  <2>1. Alone(t) /\ Spares(t) /\ pc'[t] = "idle"
    BY <1>14 DEF SyncEnd, TypeOK, Alone, Spares
  <2> QED
    BY <2>1, LocksStep DEF Locked, Filling
<1>15. ASSUME NEW t \in Threads, NEW a \in Bufs, Reclaim(t, a) PROVE Locks'
  <2>1. Alone(t) /\ Spares(t)
    BY <1>15 DEF Reclaim, TypeOK, Alone, Spares
  <2>2. pc[t] = "reclaim" /\ pc'[t] = "reclaim" /\ blks' = blks /\ m_lock' = m_lock
    BY <1>15 DEF Reclaim, TypeOK
  <2>3. \A b \in Bufs : m_page[b] = NoPage => m_page'[b] = NoPage
    BY <1>15 DEF Reclaim, TypeOK
  <2>4. InData(t) => cur(t) \in Bufs
    BY CurIsBuf DEF InData
  <2>5. Locked(t)'
    BY <2>2, <2>3, <2>4 DEF Locks, Locked, Filling, InData, cur
  <2> QED
    BY <2>1, <2>5, LocksStep
<1>16. ASSUME NEW t \in Threads, ReclaimEnd(t) PROVE Locks'
  <2>1. Alone(t) /\ Spares(t)
    BY <1>16 DEF ReclaimEnd, TypeOK, Alone, Spares
  <2>2. Locked(t)'
    BY <1>16 DEF ReclaimEnd, TypeOK, Locks, Locked, Filling, InData, cur
  <2> QED
    BY <2>1, <2>2, LocksStep
<1>17. CASE UNCHANGED vars
  BY <1>17 DEF vars, Locks, Filling, InData, cur
<1> QED
  BY <1>1, <1>2, <1>3, <1>4, <1>5, <1>6, <1>7, <1>8, <1>9, <1>10, <1>11, <1>12, <1>13, <1>14, <1>15,
     <1>16, <1>17 DEF Next, Step

\* A buffer somebody has is counted.
LEMMA HadIsCounted ==
  ASSUME TypeOK, CountIsExact, NEW t \in Threads, NEW b \in Bufs, Has(t, b)
  PROVE  m_count[b] # 0
<1>1. Cardinality(Havers(b)) \in Nat /\ Cardinality(Waits(dirty_buffers, b)) \in Nat
  BY CountsFinite DEF TypeOK
<1>2. Cardinality(Havers(b)) # 0
  <2>1. Havers(b) # {}
    BY DEF Havers
  <2> QED
    BY <2>1, HaversFinite, FS_EmptySet
<1> QED
  BY <1>1, <1>2, CountIs, SMT

\* A user that copies or registers has its buffer.
LEMMA InUse ==
  ASSUME TypeOK, Places, NEW t \in Users, pc[t] \in {"copy", "register"}
  PROVE  t \in Threads /\ cur(t) \in Bufs /\ Has(t, cur(t))
<1>1. t \in Threads
  BY DEF Threads
<1> QED
  BY <1>1, Busy DEF Has, BusyPcs

\* A step that takes no page away, and of t only to the copy of a page.
LEMMA HeldStep ==
  ASSUME TypeOK, Places, HeldPageStays, NEW t \in Threads, Alone(t),
         \A b \in Bufs : m_page[b] # NoPage => m_page'[b] # NoPage,
         pc'[t] \in {"copy", "register"} => m_page'[cur(t)'] # NoPage
  PROVE  HeldPageStays'
<1>1. ASSUME NEW u \in Users, u # t, pc'[u] \in {"copy", "register"} PROVE m_page'[cur(u)'] # NoPage
  <2>1. u \in Threads
    BY DEF Threads
  <2>2. pc'[u] = pc[u] /\ cur(u)' = cur(u)
    BY <1>1, <2>1 DEF Alone, cur
  <2> QED
    BY <1>1, <2>2, InUse DEF HeldPageStays
<1> QED
  BY <1>1 DEF HeldPageStays

\* Every step keeps the pages in use.
LEMMA HeldNext ==
  ASSUME TypeOK, Places, CountIsExact, HeldPageStays, [Next]_vars
  PROVE  HeldPageStays'
<1> USE DEF loop, locks, Run
<1>1. ASSUME NEW t \in Users, block_rw(t) \/ sync_all(t) \/ reclaim_memory(t) PROVE HeldPageStays'
  <2>1. t \in Threads
    BY DEF Threads
  <2>2. Alone(t) /\ m_page' = m_page /\ pc'[t] \in {"get", "s_lock", "r_lock"}
    BY <1>1, <2>1 DEF block_rw, sync_all, reclaim_memory, TypeOK, Alone
  <2> QED
    BY <2>1, <2>2, HeldStep
<1>2. ASSUME recv PROVE HeldPageStays'
  <2>1. Flusher \in Threads
    BY DEF Threads
  <2>2. Alone(Flusher) /\ m_page' = m_page /\ pc'[Flusher] = "flush"
    BY <1>2, <2>1 DEF recv, TypeOK, Alone
  <2> QED
    BY <2>1, <2>2, HeldStep
<1>3. ASSUME NEW t \in Threads, NEW from, NEW to \in {"count", "sync", "reclaim"},
             LockCache(t, from, to)
      PROVE  HeldPageStays'
  <2>1. Alone(t) /\ m_page' = m_page /\ pc'[t] = to
    BY <1>3 DEF LockCache, TypeOK, Alone
  <2> QED
    BY <2>1, HeldStep
<1>4. ASSUME NEW t \in Threads, Count(t) \/ release(t) \/ Send(t) PROVE HeldPageStays'
  <2>1. Alone(t) /\ m_page' = m_page
    BY <1>4 DEF Count, release, Send, Advance, TypeOK, Alone
  <2>2. pc'[t] \in {"data", "send", "recv", "get", "idle"}
    BY <1>4 DEF Count, release, Send, After, TypeOK
  <2> QED
    BY <2>1, <2>2, HeldStep
<1>5. ASSUME NEW t \in Threads, data(t) PROVE HeldPageStays'
  <2>1. Alone(t) /\ m_page' = m_page /\ cur(t)' = cur(t)
    BY <1>5 DEF data, TypeOK, Alone, cur
  <2>2. pc'[t] \in {"copy", "register"} => m_page[cur(t)] # NoPage
    BY <1>5 DEF data, TypeOK
  <2> QED
    BY <2>1, <2>2, HeldStep
<1>6. ASSUME NEW t \in Threads, Fill(t) PROVE HeldPageStays'
  <2>1. Alone(t) /\ cur(t)' = cur(t)
    BY <1>6 DEF Fill, TypeOK, Alone, cur
  <2>2. cur(t) \in Bufs
    BY <1>6, Busy DEF Fill, BusyPcs
  <2>3. m_page' = [m_page EXCEPT ![cur(t)] = disk[cur(t)]] /\ disk[cur(t)] # NoPage
    BY <1>6, <2>2, NoPageAssumption DEF Fill, TypeOK
  <2> QED
    BY <2>1, <2>2, <2>3, HeldStep DEF TypeOK
<1>7. ASSUME NEW t \in Threads, Copy(t) PROVE HeldPageStays'
  <2>1. Alone(t) /\ cur(t)' = cur(t) /\ pc[t] = "copy"
    BY <1>7 DEF Copy, TypeOK, Alone, cur
  <2>2. cur(t) \in Bufs /\ t \in Users
    BY <2>1, Busy DEF BusyPcs, FlusherPcs
  <2>3. m_page[cur(t)] # NoPage
    BY <2>1, <2>2 DEF HeldPageStays
  <2>4. m_page' = m_page \/ m_page' = [m_page EXCEPT ![cur(t)] = "new"]
    BY <1>7 DEF Copy
  <2> QED
    BY <2>1, <2>2, <2>3, <2>4, HeldStep, NoPageAssumption DEF TypeOK
<1>8. ASSUME NEW t \in Threads, register_write(t) PROVE HeldPageStays'
  <2>1. Alone(t) /\ m_page' = m_page /\ pc'[t] = "release"
    BY <1>8 DEF register_write, TypeOK, Alone
  <2> QED
    BY <2>1, HeldStep
<1>9. ASSUME NEW t \in Threads, Write(t) \/ Clear(t) PROVE HeldPageStays'
  <2>1. Alone(t) /\ m_page' = m_page /\ pc'[t] \in {"clear", "release", "sync"}
    BY <1>9, SMT DEF Write, Clear, Advance, TypeOK, Alone
  <2> QED
    BY <2>1, HeldStep
<1>10. ASSUME NEW t \in Threads, NEW a \in Bufs, Sync(t, a) PROVE HeldPageStays'
  <2>1. Alone(t) /\ m_page' = m_page /\ pc'[t] \in {"flush", "sync"}
    BY <1>10 DEF Sync, TypeOK, Alone
  <2> QED
    BY <2>1, HeldStep
<1>11. ASSUME NEW t \in Threads, SyncEnd(t) \/ ReclaimEnd(t) PROVE HeldPageStays'
  <2>1. Alone(t) /\ m_page' = m_page /\ pc'[t] \in {"fill", "idle"}
    BY <1>11 DEF SyncEnd, ReclaimEnd, TypeOK, Alone
  <2> QED
    BY <2>1, HeldStep
<1>12. ASSUME NEW t \in Threads, NEW a \in Bufs, Reclaim(t, a) PROVE HeldPageStays'
  <2>1. /\ pc' = [pc EXCEPT ![t] = "reclaim"] /\ blks' = blks
        /\ m_page' = IF Reclaimable(a) THEN [m_page EXCEPT ![a] = NoPage] ELSE m_page
    BY <1>12 DEF Reclaim
  <2> SUFFICES ASSUME NEW u \in Users, pc'[u] \in {"copy", "register"}
               PROVE  m_page'[cur(u)'] # NoPage
    BY DEF HeldPageStays
  <2>2. u \in Threads /\ u # t /\ pc'[u] = pc[u] /\ cur(u)' = cur(u)
    BY <2>1 DEF TypeOK, cur, Threads
  <2>3. cur(u) \in Bufs /\ m_count[cur(u)] # 0 /\ m_page[cur(u)] # NoPage
    BY <2>2, InUse, HadIsCounted DEF HeldPageStays
  <2> QED
    BY <2>1, <2>2, <2>3 DEF Reclaimable, TypeOK
<1>13. CASE UNCHANGED vars
  BY <1>13 DEF vars, HeldPageStays, cur
<1> QED
  BY <1>1, <1>2, <1>3, <1>4, <1>5, <1>6, <1>7, <1>8, <1>9, <1>10, <1>11, <1>12, <1>13 DEF Next, Step
------------------------------------------------------------------------------
(* What is written *)

\* What WritesSurvive and Written say of one buffer.
Kept(b) ==
  /\ m_page[b] # "old" /\ (m_page[b] = NoPage => disk[b] = "new")
  /\ disk[b] = "old" => m_dirty[b] \/ Registering(b)
  /\ Flushed(b) => disk[b] = "new" \/ Registering(b)

AllKept == \A b \in Bufs \ raced : Kept(b)

\* The two facts about lost writes, said of a buffer at a time.
LEMMA KeptIs == AllKept <=> WritesSurvive /\ Written
BY DEF AllKept, Kept, WritesSurvive, Written

\* Who takes no step is still between its write and its mark.
LEMMA StillRegistering ==
  ASSUME NEW t \in Threads, Alone(t), NEW b, pc[t] # "register" \/ cur(t) # b, Registering(b)
  PROVE  Registering(b)'
<1>1. PICK u \in Users : pc[u] = "register" /\ cur(u) = b
  BY DEF Registering
<1>2. u \in Threads /\ u # t
  BY <1>1 DEF Threads
<1>3. pc'[u] = "register" /\ cur(u)' = b
  BY <1>1, <1>2 DEF Alone, cur
<1> QED
  BY <1>3 DEF Registering

\* Who takes no step was already between the two halves of its flush.
LEMMA AlreadyFlushed ==
  ASSUME NEW t \in Threads, Alone(t), NEW b, pc'[t] # "clear" \/ cur(t)' # b, Flushed(b)'
  PROVE  Flushed(b)
<1>1. PICK u \in Threads : pc'[u] = "clear" /\ cur(u)' = b
  BY DEF Flushed
<1>2. u # t
  BY <1>1
<1>3. pc[u] = "clear" /\ cur(u) = b
  BY <1>1, <1>2 DEF Alone, cur
<1> QED
  BY <1>3 DEF Flushed

\* A step that touches neither a page nor the device nor a mark.
LEMMA KeptSame ==
  ASSUME AllKept, NEW t \in Threads, Alone(t), pc[t] # "register", pc'[t] # "clear",
         m_page' = m_page, disk' = disk, m_dirty' = m_dirty, raced' = raced
  PROVE  AllKept'
<1>1. ASSUME NEW b \in Bufs \ raced PROVE Kept(b)'
  <2>1. Kept(b) /\ (Registering(b) => Registering(b)') /\ (Flushed(b)' => Flushed(b))
    BY StillRegistering, AlreadyFlushed DEF AllKept
  <2> QED
    BY <2>1 DEF Kept
<1> QED
  BY <1>1 DEF AllKept

\* Every step keeps what is written.
LEMMA KeptNext ==
  ASSUME TypeOK, Places, CountIsExact, Locks, AllKept, [Next]_vars
  PROVE  AllKept'
<1> USE DEF loop, locks, Run
<1>1. ASSUME NEW t \in Users, block_rw(t) \/ sync_all(t) \/ reclaim_memory(t) PROVE AllKept'
  <2>1. t \in Threads
    BY DEF Threads
  <2>2. /\ Alone(t) /\ pc[t] = "idle" /\ pc'[t] \in {"get", "s_lock", "r_lock"}
        /\ m_page' = m_page /\ disk' = disk /\ m_dirty' = m_dirty /\ raced' = raced
    BY <1>1, <2>1 DEF block_rw, sync_all, reclaim_memory, TypeOK, Alone
  <2> QED
    BY <2>1, <2>2, KeptSame
<1>2. ASSUME recv PROVE AllKept'
  <2>1. Flusher \in Threads
    BY DEF Threads
  <2>2. /\ Alone(Flusher) /\ pc[Flusher] = "recv" /\ pc'[Flusher] = "flush"
        /\ m_page' = m_page /\ disk' = disk /\ m_dirty' = m_dirty /\ raced' = raced
    BY <1>2, <2>1 DEF recv, TypeOK, Alone
  <2> QED
    BY <2>1, <2>2, KeptSame
<1>3. ASSUME NEW t \in Threads, NEW from \in {"get", "s_lock", "r_lock"},
             NEW to \in {"count", "sync", "reclaim"}, LockCache(t, from, to)
      PROVE  AllKept'
  <2>1. /\ Alone(t) /\ pc[t] = from /\ pc'[t] = to
        /\ m_page' = m_page /\ disk' = disk /\ m_dirty' = m_dirty /\ raced' = raced
    BY <1>3 DEF LockCache, TypeOK, Alone
  <2> QED
    BY <2>1, KeptSame
<1>4. ASSUME NEW t \in Threads, Count(t) \/ data(t) \/ release(t) \/ Send(t) PROVE AllKept'
  <2>1. /\ Alone(t) /\ pc[t] \in {"count", "data", "release", "send"}
        /\ m_page' = m_page /\ disk' = disk /\ m_dirty' = m_dirty /\ raced' = raced
    BY <1>4 DEF Count, data, release, Send, Advance, TypeOK, Alone
  <2>2. pc'[t] # "clear"
    BY <1>4 DEF Count, data, release, Send, After, TypeOK
  <2> QED
    BY <2>1, <2>2, KeptSame
<1>5. ASSUME NEW t \in Threads, NEW a \in Bufs, Sync(t, a) PROVE AllKept'
  <2>1. /\ Alone(t) /\ pc[t] = "sync" /\ pc'[t] \in {"flush", "sync"}
        /\ m_page' = m_page /\ disk' = disk /\ m_dirty' = m_dirty /\ raced' = raced
    BY <1>5 DEF Sync, TypeOK, Alone
  <2> QED
    BY <2>1, KeptSame
<1>6. ASSUME NEW t \in Threads, SyncEnd(t) \/ ReclaimEnd(t) PROVE AllKept'
  <2>1. /\ Alone(t) /\ pc[t] \in {"sync", "reclaim"} /\ pc'[t] \in {"fill", "idle"}
        /\ m_page' = m_page /\ disk' = disk /\ m_dirty' = m_dirty /\ raced' = raced
    BY <1>6 DEF SyncEnd, ReclaimEnd, TypeOK, Alone
  <2> QED
    BY <2>1, KeptSame
<1>7. ASSUME NEW t \in Threads, Fill(t) PROVE AllKept'
  <2>1. /\ Alone(t) /\ pc[t] = "fill" /\ pc'[t] = "copy"
        /\ m_page' = [m_page EXCEPT ![cur(t)] = disk[cur(t)]]
        /\ disk' = disk /\ m_dirty' = m_dirty /\ raced' = raced
    BY <1>7 DEF Fill, TypeOK, Alone
  <2>2. cur(t) \in Bufs /\ m_page[cur(t)] = NoPage
    BY <2>1, Busy DEF BusyPcs, Locks, Filling
  <2>3. ASSUME NEW b \in Bufs \ raced PROVE Kept(b)'
    <3>1. Kept(b) /\ (Registering(b) => Registering(b)') /\ (Flushed(b)' => Flushed(b))
      BY <2>1, StillRegistering, AlreadyFlushed DEF AllKept
    <3>2. m_page'[b] # "old" /\ (m_page'[b] = NoPage => m_page[b] = NoPage)
      BY <2>1, <2>2, <3>1, NoPageAssumption DEF Kept, TypeOK
    <3> QED
      BY <2>1, <3>1, <3>2 DEF Kept
  <2> QED
    BY <2>1, <2>3 DEF AllKept
<1>8. ASSUME NEW t \in Threads, Copy(t) PROVE AllKept'
  <2>1. /\ Alone(t) /\ pc[t] = "copy" /\ pc'[t] \in {"register", "release"}
        /\ m_dirty' = m_dirty /\ raced' = raced /\ cur(t)' = cur(t)
    BY <1>8 DEF Copy, TypeOK, Alone, cur
  <2>2. cur(t) \in Bufs /\ t \in Users
    BY <2>1, Busy DEF BusyPcs, FlusherPcs
  <2>3. CASE m_page' = m_page /\ disk' = disk
    BY <2>1, <2>3, KeptSame
  <2>4. CASE /\ pc'[t] = "register" /\ m_page' = [m_page EXCEPT ![cur(t)] = "new"]
             /\ disk' = [disk EXCEPT ![cur(t)] = "old"]
    <3>1. ASSUME NEW b \in Bufs \ raced PROVE Kept(b)'
      <4>1. Kept(b) /\ (Registering(b) => Registering(b)') /\ (Flushed(b)' => Flushed(b))
        BY <2>1, StillRegistering, AlreadyFlushed DEF AllKept
      <4>2. CASE b = cur(t)
        <5>1. Registering(b)'
          BY <2>1, <2>2, <2>4, <4>2 DEF Registering
        <5>2. m_page'[b] = "new"
          BY <2>2, <2>4, <4>2 DEF TypeOK
        <5> QED
          BY <5>1, <5>2, NoPageAssumption DEF Kept
      <4>3. CASE b # cur(t)
        <5>1. m_page'[b] = m_page[b] /\ disk'[b] = disk[b] /\ m_dirty'[b] = m_dirty[b]
          BY <2>1, <2>4, <4>3 DEF TypeOK
        <5> QED
          BY <4>1, <5>1 DEF Kept
      <4> QED
        BY <4>2, <4>3
    <3> QED
      BY <2>1, <3>1 DEF AllKept
  <2> QED
    BY <1>8, <2>3, <2>4 DEF Copy, TypeOK
<1>9. ASSUME NEW t \in Threads, register_write(t) PROVE AllKept'
  <2>1. /\ Alone(t) /\ pc[t] = "register" /\ pc'[t] = "release"
        /\ m_page' = m_page /\ disk' = disk /\ m_dirty' = [m_dirty EXCEPT ![cur(t)] = TRUE]
    BY <1>9 DEF register_write, TypeOK, Alone
  <2>2. raced' = IF Flushed(cur(t)) THEN raced \union {cur(t)} ELSE raced
    BY <1>9 DEF register_write
  <2>3. cur(t) \in Bufs
    BY <2>1, Busy DEF BusyPcs
  <2>4. ASSUME NEW b \in Bufs \ raced' PROVE Kept(b)'
    <3>1. b \in Bufs \ raced /\ Kept(b) /\ (Flushed(b)' => Flushed(b))
      BY <2>1, <2>2, AlreadyFlushed DEF AllKept
    <3>2. CASE b = cur(t)
      <4>1. ~Flushed(b)' /\ m_dirty'[b]
        BY <2>1, <2>2, <2>3, <3>1, <3>2 DEF TypeOK
      <4> QED
        BY <2>1, <3>1, <4>1 DEF Kept
    <3>3. CASE b # cur(t)
      <4>1. m_dirty'[b] = m_dirty[b] /\ (Registering(b) => Registering(b)')
        BY <2>1, <3>3, StillRegistering DEF TypeOK
      <4> QED
        BY <2>1, <3>1, <4>1 DEF Kept
    <3> QED
      BY <3>2, <3>3
  <2> QED
    BY <2>4 DEF AllKept
<1>10. ASSUME NEW t \in Threads, Write(t) PROVE AllKept'
  <2>1. /\ Alone(t) /\ pc[t] = "flush" /\ pc'[t] = "clear" /\ cur(t)' = cur(t)
        /\ disk' = (IF m_page[cur(t)] = NoPage THEN disk ELSE [disk EXCEPT ![cur(t)] = m_page[cur(t)]])
        /\ m_page' = m_page /\ m_dirty' = m_dirty /\ raced' = raced
    BY <1>10 DEF Write, TypeOK, Alone, cur
  <2>2. cur(t) \in Bufs
    BY <2>1, Busy DEF BusyPcs
  <2>3. ASSUME NEW b \in Bufs \ raced PROVE Kept(b)'
    <3>1. Kept(b) /\ (Registering(b) => Registering(b)')
      BY <2>1, StillRegistering DEF AllKept
    <3>2. CASE b = cur(t)
      <4>1. disk'[b] = "new"
        BY <2>1, <2>2, <3>1, <3>2 DEF Kept, TypeOK
      <4> QED
        BY <2>1, <3>1, <4>1 DEF Kept
    <3>3. CASE b # cur(t)
      <4>1. disk'[b] = disk[b] /\ (Flushed(b)' => Flushed(b))
        BY <2>1, <3>3, AlreadyFlushed DEF TypeOK
      <4> QED
        BY <2>1, <3>1, <4>1 DEF Kept
    <3> QED
      BY <3>2, <3>3
  <2> QED
    BY <2>1, <2>3 DEF AllKept
<1>11. ASSUME NEW t \in Threads, Clear(t) PROVE AllKept'
  <2>1. /\ Alone(t) /\ pc[t] = "clear" /\ pc'[t] \in {"release", "sync"}
        /\ m_dirty' = [m_dirty EXCEPT ![cur(t)] = FALSE]
        /\ disk' = disk /\ m_page' = m_page /\ raced' = raced
    BY <1>11 DEF Clear, Advance, TypeOK, Alone
  <2>2. Flushed(cur(t))
    BY <2>1 DEF Flushed
  <2>3. ASSUME NEW b \in Bufs \ raced PROVE Kept(b)'
    <3>1. Kept(b) /\ (Registering(b) => Registering(b)') /\ (Flushed(b)' => Flushed(b))
      BY <2>1, StillRegistering, AlreadyFlushed DEF AllKept
    <3>2. disk[b] = "old" => Registering(b) \/ (b # cur(t) /\ m_dirty[b])
      BY <2>2, <3>1 DEF Kept
    <3>3. b # cur(t) => m_dirty'[b] = m_dirty[b]
      BY <2>1 DEF TypeOK
    <3> QED
      BY <2>1, <3>1, <3>2, <3>3 DEF Kept
  <2> QED
    BY <2>1, <2>3 DEF AllKept
<1>12. ASSUME NEW t \in Threads, NEW a \in Bufs, Reclaim(t, a) PROVE AllKept'
  <2>1. /\ Alone(t) /\ pc[t] = "reclaim" /\ pc'[t] = "reclaim"
        /\ m_page' = (IF Reclaimable(a) THEN [m_page EXCEPT ![a] = NoPage] ELSE m_page)
        /\ disk' = disk /\ m_dirty' = m_dirty /\ raced' = raced
    BY <1>12 DEF Reclaim, TypeOK, Alone
  <2>2. ASSUME Reclaimable(a), a \notin raced PROVE disk[a] = "new"
    <3>1. ~Registering(a)
      <4> SUFFICES ASSUME NEW u \in Users, pc[u] = "register", cur(u) = a PROVE FALSE
        BY DEF Registering
      <4> QED
        BY <2>2, InUse, HadIsCounted DEF Reclaimable
    <3> QED
      BY <2>2, <3>1 DEF Reclaimable, AllKept, Kept, TypeOK
  <2>3. ASSUME NEW b \in Bufs \ raced PROVE Kept(b)'
    <3>1. Kept(b) /\ (Registering(b) => Registering(b)') /\ (Flushed(b)' => Flushed(b))
      BY <2>1, StillRegistering, AlreadyFlushed DEF AllKept
    <3>2. m_page'[b] # "old" /\ (m_page'[b] = NoPage => disk[b] = "new")
      BY <2>1, <2>2, <3>1, NoPageAssumption DEF Kept, TypeOK
    <3> QED
      BY <2>1, <3>1, <3>2 DEF Kept
  <2> QED
    BY <2>1, <2>3 DEF AllKept
<1>13. CASE UNCHANGED vars
  BY <1>13 DEF vars, AllKept, Kept, Registering, Flushed, cur
<1> QED
  BY <1>1, <1>2, <1>3, <1>4, <1>5, <1>6, <1>7, <1>8, <1>9, <1>10, <1>11, <1>12, <1>13 DEF Next, Step
------------------------------------------------------------------------------
\* The cache starts empty.
LEMMA InitIInv == Init => IInv
<1> SUFFICES ASSUME Init PROVE IInv
  OBVIOUS
<1> USE DEF Init
<1>1. TypeOK
  BY NBufsAssumption, SMT DEF TypeOK, UserPcs, FlusherPcs
<1>2. Places
  BY DEF Places, Placed, UserPcs, FlusherPcs, BusyPcs
<1>3. \A b \in Bufs : Havers(b) = {} /\ Waits(dirty_buffers, b) = {}
  BY SMT DEF Havers, Has, Waits
<1>4. CountIsExact
  <2>1. Cardinality({}) = 0 /\ \A b \in Bufs : m_count[b] = 0
    BY FS_EmptySet
  <2>2. \A b \in Bufs : Cardinality(Havers(b)) = 0 /\ Cardinality(Waits(dirty_buffers, b)) = 0
    BY <1>3, <2>1
  <2>3. \A b \in Bufs : m_count[b] = Cardinality(Havers(b)) + Cardinality(Waits(dirty_buffers, b))
    <3> HIDE DEF Init
    <3> QED
      BY <2>1, <2>2, SMT
  <2> QED
    BY <2>3, CountIs
<1>5. Locks /\ HeldPageStays
  BY DEF Locks, Filling, HeldPageStays, Threads
<1>6. WritesSurvive /\ Written
  BY NoPageAssumption DEF WritesSurvive, Written, Flushed
<1> QED
  BY <1>1, <1>2, <1>4, <1>5, <1>6 DEF IInv

\* Every step keeps the invariant.
LEMMA NextIInv == IInv /\ [Next]_vars => IInv'
<1> SUFFICES ASSUME IInv, [Next]_vars PROVE IInv'
  OBVIOUS
<1>1. TypeOK /\ Places /\ CountIsExact /\ Locks /\ HeldPageStays /\ AllKept
  BY KeptIs DEF IInv
<1>2. TypeOK' /\ Places'
  BY <1>1, TypeNext, PlacesNext
<1>3. CountIsExact' /\ Locks' /\ HeldPageStays' /\ AllKept'
  BY <1>1, <1>2, CountNext, LocksNext, HeldNext, KeptNext
<1>4. WritesSurvive' /\ Written'
  BY <1>3 DEF AllKept, Kept, WritesSurvive, Written
<1> QED
  BY <1>2, <1>3, <1>4 DEF IInv

\* The invariant holds in every reachable state of the cache.
THEOREM Invariance == Spec => []IInv
BY InitIInv, NextIInv, PTL DEF Spec

\* buffer::get, release, block_flush_task: for any number of users and buffers,
\* m_count is the number of threads that have the buffer plus the times it waits
\* for the flush task.
THEOREM CountIsExactAlways == Spec => []CountIsExact
<1>1. IInv => CountIsExact
  BY DEF IInv
<1> QED
  BY <1>1, Invariance, PTL

\* buffer::reclaim: for any number of users and buffers, the page whose address
\* data() returned stays until its buffer is put back.
THEOREM HeldPageStaysAlways == Spec => []HeldPageStays
<1>1. IInv => HeldPageStays
  BY DEF IInv
<1> QED
  BY <1>1, Invariance, PTL

\* buffer::flush, reclaim: for any number of users and buffers, no write is lost
\* but one registered between a flush's write_block() and its m_dirty = false.
THEOREM WritesSurviveAlways == Spec => []WritesSurvive
<1>1. IInv => WritesSurvive
  BY DEF IInv
<1> QED
  BY <1>1, Invariance, PTL
=============================================================================
