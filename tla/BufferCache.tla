---------------------------- MODULE BufferCache ----------------------------
(***************************************************************************)
(* The block cache (kernel/block.cpp): buffers of one device, found or     *)
(* made by get(), filled by data(), copied to and from without a lock, put *)
(* back by release(), written out by the flush task or by sync_all(), and  *)
(* robbed of their pages by reclaim_memory().                              *)
(*                                                                         *)
(* What a page or the device holds is told apart only by whether it is the *)
(* latest write of the block ("new") or an earlier one ("old").            *)
(* buffer_cache_lock and the buffers' m_lock are the two levels of locks;  *)
(* a section under m_lock that waits for nothing is one step.              *)
(***************************************************************************)
EXTENDS Integers, Sequences, FiniteSets

CONSTANTS
  Users,       \* threads that read, write, reclaim and sync
  Flusher,     \* the "[block flush]" thread
  NBufs,       \* the pages of the device
  MaxOps,      \* the calls all users make
  LowMemory,   \* may phys::alloc() find fewer than 32 free frames?
  NoPage, None

ASSUME NBufsAssumption == NBufs \in Nat \ {0} /\ MaxOps \in Nat
ASSUME NoneAssumption == None \notin Users /\ Flusher \notin Users \union {None}
ASSUME UsersAssumption == IsFiniteSet(Users)
ASSUME NoPageAssumption == NoPage \notin {"new", "old"}

Threads == Users \union {Flusher}
Bufs == 0..(NBufs - 1)

VARIABLES
  cache_lock,      \* the holder of buffer_cache_lock
  m_lock,          \* m_lock[b]: its holder
  m_count, m_dirty,
  m_page,          \* m_page[b]: what the page holds, or NoPage
  disk,            \* disk[b]: what the device holds
  dirty_buffers,   \* the channel to the flush task
  pc,
  blks,            \* blks[t]: the blocks t has yet to put back, in order
  writing,         \* writing[t]: block_rw's argument
  left,            \* left[t]: the buffers a loop over buffer_cache has yet to see
  calls,           \* the calls made
  raced            \* history: the buffers written to between write_block() and
                   \* m_dirty = false of a flush

locks == <<cache_lock, m_lock>>
loop == <<blks, writing, left, calls>>
vars == <<locks, m_count, m_dirty, m_page, disk, dirty_buffers, pc, loop, raced>>

\* A buffer that was never asked for is one with no page and no users: what
\* tells the two apart, its place in buffer_cache, is read by nothing else.
Init ==
  /\ cache_lock = None /\ m_lock = [b \in Bufs |-> None]
  /\ m_count = [b \in Bufs |-> 0] /\ m_dirty = [b \in Bufs |-> FALSE]
  /\ m_page = [b \in Bufs |-> NoPage] /\ disk = [b \in Bufs |-> "new"]
  /\ dirty_buffers = <<>>
  /\ pc = [t \in Threads |-> IF t = Flusher THEN "recv" ELSE "idle"]
  /\ blks = [t \in Threads |-> <<>>]
  /\ writing = [t \in Threads |-> FALSE] /\ left = [t \in Threads |-> {}]
  /\ calls = 0
  /\ raced = {}

cur(t) == Head(blks[t])
Run(t, from, to) == pc[t] = from /\ pc' = [pc EXCEPT ![t] = to]
Call == calls < MaxOps /\ calls' = calls + 1

LockCache(t, from, to) ==
  /\ Run(t, from, to)
  /\ cache_lock = None /\ cache_lock' = t
  /\ UNCHANGED <<m_lock, m_count, m_dirty, m_page, disk, dirty_buffers, loop, raced>>

------------------------------------------------------------------------------
\* block_rw

block_rw(t) ==
  /\ Run(t, "idle", "get") /\ Call
  /\ \E first \in Bufs : \E n \in 1..(NBufs - first), write \in BOOLEAN :
       /\ blks' = [blks EXCEPT ![t] = [i \in 1..n |-> first + i - 1]]
       /\ writing' = [writing EXCEPT ![t] = write]
  /\ UNCHANGED <<locks, m_count, m_dirty, m_page, disk, dirty_buffers, left, raced>>

\* buffer::get, with buffer_cache_lock held: the buffer is found or made, and
\* counted under its own lock.
Count(t) ==
  /\ Run(t, "count", "data")
  /\ m_lock[cur(t)] = None
  /\ m_count' = [m_count EXCEPT ![cur(t)] = @ + 1]
  /\ cache_lock' = None
  /\ UNCHANGED <<m_lock, m_dirty, m_page, disk, dirty_buffers, loop, raced>>

\* buffer::data: a buffer without a page keeps its lock while it gets one, and
\* phys::alloc reclaims the block cache first when memory is low.
data(t) ==
  /\ pc[t] = "data" /\ m_lock[cur(t)] = None
  /\ \/ /\ m_page[cur(t)] # NoPage
        /\ Run(t, "data", "copy")
        /\ UNCHANGED <<m_lock, left>>
     \/ /\ m_page[cur(t)] = NoPage
        /\ m_lock' = [m_lock EXCEPT ![cur(t)] = t]
        /\ \/ Run(t, "data", "fill") /\ UNCHANGED left
           \/ /\ LowMemory /\ Run(t, "data", "r_lock")
              /\ left' = [left EXCEPT ![t] = Bufs]
  /\ UNCHANGED <<cache_lock, m_count, m_dirty, m_page, disk, dirty_buffers, blks, writing, calls,
                 raced>>

\* read_block() into the new page.
Fill(t) ==
  /\ Run(t, "fill", "copy")
  /\ m_page' = [m_page EXCEPT ![cur(t)] = disk[cur(t)]]
  /\ m_lock' = [m_lock EXCEPT ![cur(t)] = None]
  /\ UNCHANGED <<cache_lock, m_count, m_dirty, disk, dirty_buffers, loop, raced>>

\* memcpy(), to the page or from it, under no lock.
Copy(t) ==
  LET b == cur(t) IN
  /\ \/ /\ writing[t]
        /\ Run(t, "copy", "register")
        /\ m_page' = [m_page EXCEPT ![b] = "new"]
        /\ disk' = [disk EXCEPT ![b] = "old"]
     \/ /\ ~writing[t]
        /\ Run(t, "copy", "release")
        /\ UNCHANGED <<m_page, disk>>
  /\ UNCHANGED <<locks, m_count, m_dirty, dirty_buffers, loop, raced>>

\* A flush of b that is between its last write_block() and m_dirty = false.
Flushed(b) == \E t \in Threads : pc[t] = "clear" /\ cur(t) = b

\* Mutant of register_write: the buffer is not marked.
register_writeClean(t) ==
  /\ Run(t, "register", "release")
  /\ UNCHANGED <<locks, m_count, m_dirty, m_page, disk, dirty_buffers, loop, raced>>

register_write(t) ==
  /\ Run(t, "register", "release")
  /\ m_dirty' = [m_dirty EXCEPT ![cur(t)] = TRUE]
  /\ raced' = IF Flushed(cur(t)) THEN raced \union {cur(t)} ELSE raced
  /\ UNCHANGED <<locks, m_count, m_page, disk, dirty_buffers, loop>>

\* What follows a bput(): the next block, the next buffer to flush.
After(t) == IF t = Flusher THEN "recv" ELSE IF Tail(blks[t]) # <<>> THEN "get" ELSE "idle"
Advance(t) == blks' = [blks EXCEPT ![t] = Tail(@)]

\* Mutant of release: a dirty buffer is sent off and no longer counted.
releaseAll(t) ==
  LET b == cur(t) IN
  /\ pc[t] = "release" /\ m_lock[b] = None
  /\ m_count' = [m_count EXCEPT ![b] = @ - 1]
  /\ IF m_dirty[b] THEN Run(t, "release", "send") /\ UNCHANGED blks
                   ELSE Run(t, "release", After(t)) /\ Advance(t)
  /\ UNCHANGED <<locks, m_dirty, m_page, disk, dirty_buffers, writing, left, calls, raced>>

\* buffer::release: a dirty buffer goes to the flush task and stays counted.
release(t) ==
  LET b == cur(t) IN
  /\ pc[t] = "release" /\ m_lock[b] = None
  /\ \/ /\ m_dirty[b]
        /\ Run(t, "release", "send")
        /\ UNCHANGED <<m_count, blks>>
     \/ /\ ~m_dirty[b]
        /\ Run(t, "release", After(t))
        /\ m_count' = [m_count EXCEPT ![b] = @ - 1]
        /\ Advance(t)
  /\ UNCHANGED <<locks, m_dirty, m_page, disk, dirty_buffers, writing, left, calls, raced>>

\* dirty_buffers.send(), outside the lock.
Send(t) ==
  /\ Run(t, "send", After(t))
  /\ dirty_buffers' = Append(dirty_buffers, cur(t))
  /\ Advance(t)
  /\ UNCHANGED <<locks, m_count, m_dirty, m_page, disk, writing, left, calls, raced>>

------------------------------------------------------------------------------
\* buffer::flush, from the flush task and from sync_all

\* block_flush_task
recv ==
  /\ Run(Flusher, "recv", "flush")
  /\ dirty_buffers # <<>>
  /\ blks' = [blks EXCEPT ![Flusher] = <<Head(dirty_buffers)>>]
  /\ dirty_buffers' = Tail(dirty_buffers)
  /\ UNCHANGED <<locks, m_count, m_dirty, m_page, disk, writing, left, calls, raced>>

\* write_block() of the page, if there is one.
Write(t) ==
  LET b == cur(t) IN
  /\ Run(t, "flush", "clear")
  /\ m_lock[b] = None /\ m_lock' = [m_lock EXCEPT ![b] = t]
  /\ disk' = IF m_page[b] = NoPage THEN disk ELSE [disk EXCEPT ![b] = m_page[b]]
  /\ UNCHANGED <<cache_lock, m_count, m_dirty, m_page, dirty_buffers, loop, raced>>

\* Mutant of Clear: the flag is left on.
ClearNot(t) ==
  /\ Run(t, "clear", IF t = Flusher THEN "release" ELSE "sync")
  /\ m_lock' = [m_lock EXCEPT ![cur(t)] = None]
  /\ IF t = Flusher THEN UNCHANGED blks ELSE Advance(t)
  /\ UNCHANGED <<cache_lock, m_count, m_dirty, m_page, disk, dirty_buffers, writing, left, calls,
                 raced>>

\* m_dirty = false, whatever was written since.
Clear(t) ==
  /\ Run(t, "clear", IF t = Flusher THEN "release" ELSE "sync")
  /\ m_lock' = [m_lock EXCEPT ![cur(t)] = None]
  /\ m_dirty' = [m_dirty EXCEPT ![cur(t)] = FALSE]
  /\ IF t = Flusher THEN UNCHANGED blks ELSE Advance(t)
  /\ UNCHANGED <<cache_lock, m_count, m_page, disk, dirty_buffers, writing, left, calls, raced>>

\* sync_all and reclaim_memory go over every buffer with buffer_cache_lock held.
sync_all(t) ==
  /\ Run(t, "idle", "s_lock") /\ Call
  /\ left' = [left EXCEPT ![t] = Bufs]
  /\ UNCHANGED <<locks, m_count, m_dirty, m_page, disk, dirty_buffers, blks, writing,
                 raced>>

\* if (off.value->dirty()), read without m_lock.
Sync(t, b) ==
  /\ b \in left[t]
  /\ left' = [left EXCEPT ![t] = @ \ {b}]
  /\ Run(t, "sync", IF m_dirty[b] THEN "flush" ELSE "sync")
  /\ IF m_dirty[b] THEN blks' = [blks EXCEPT ![t] = <<b>>] ELSE UNCHANGED blks
  /\ UNCHANGED <<locks, m_count, m_dirty, m_page, disk, dirty_buffers, writing, calls,
                 raced>>

SyncEnd(t) ==
  /\ Run(t, "sync", "idle") /\ left[t] = {}
  /\ cache_lock' = None
  /\ UNCHANGED <<m_lock, m_count, m_dirty, m_page, disk, dirty_buffers, loop, raced>>

------------------------------------------------------------------------------
\* block::reclaim_memory: from the kernel shell, from an allocation elsewhere in
\* the kernel, or from the allocation in data().

reclaim_memory(t) ==
  /\ Run(t, "idle", "r_lock") /\ Call
  /\ left' = [left EXCEPT ![t] = Bufs]
  /\ UNCHANGED <<locks, m_count, m_dirty, m_page, disk, dirty_buffers, blks, writing,
                 raced>>

\* Mutant of Reclaimable: a buffer somebody has.
ReclaimableInUse(b) == m_page[b] # NoPage /\ ~m_dirty[b]

Reclaimable(b) == m_count[b] = 0 /\ m_page[b] # NoPage /\ ~m_dirty[b]

\* buffer::reclaim, under m_lock.
Reclaim(t, b) ==
  /\ Run(t, "reclaim", "reclaim")
  /\ b \in left[t] /\ m_lock[b] = None
  /\ left' = [left EXCEPT ![t] = @ \ {b}]
  /\ m_page' = IF Reclaimable(b) THEN [m_page EXCEPT ![b] = NoPage] ELSE m_page
  /\ UNCHANGED <<locks, m_count, m_dirty, disk, dirty_buffers, blks, writing, calls,
                 raced>>

\* Is the call from inside data()?
InData(t) == blks[t] # <<>>

ReclaimEnd(t) ==
  /\ Run(t, "reclaim", IF InData(t) THEN "fill" ELSE "idle")
  /\ left[t] = {}
  /\ cache_lock' = None
  /\ UNCHANGED <<m_lock, m_count, m_dirty, m_page, disk, dirty_buffers, loop, raced>>

------------------------------------------------------------------------------
Step(t) ==
  \/ LockCache(t, "get", "count") \/ Count(t) \/ data(t) \/ Fill(t)
  \/ Copy(t) \/ register_write(t) \/ release(t) \/ Send(t)
  \/ Write(t) \/ Clear(t)
  \/ LockCache(t, "s_lock", "sync") \/ SyncEnd(t) \/ LockCache(t, "r_lock", "reclaim")
  \/ ReclaimEnd(t) \/ \E b \in Bufs : Sync(t, b) \/ Reclaim(t, b)

Next ==
  \/ \E t \in Users : block_rw(t) \/ sync_all(t) \/ reclaim_memory(t)
  \/ recv
  \/ \E t \in Threads : Step(t)

Spec == Init /\ [][Next]_vars

\* Every thread inside a call gets a CPU. Nobody has to make a call; the
\* users make MaxOps of them, so that a spinlock others keep taking is free for
\* good in the end.
Fairness == WF_vars(recv) /\ \A t \in Threads : WF_vars(Step(t))
LiveSpec == Spec /\ Fairness
------------------------------------------------------------------------------
Has(t, b) ==
  /\ blks[t] # <<>> /\ cur(t) = b
  /\ \/ pc[t] \in {"data", "fill", "copy", "register", "release", "send"}
     \/ t = Flusher /\ pc[t] \in {"flush", "clear"}
     \/ pc[t] \in {"r_lock", "reclaim"} /\ InData(t)

\* buffer::m_count: it is the number of threads that have the buffer, plus the
\* times it waits for the flush task; a put never uncounts a user that is
\* still there, and none is counted for ever.
CountIsExact ==
  \A b \in Bufs :
    m_count[b] = Cardinality({t \in Threads : Has(t, b)})
                 + Cardinality({i \in DOMAIN dirty_buffers : dirty_buffers[i] = b})

\* buffer::reclaim: the page whose address data() returned stays until the
\* buffer is put back, through any reclaim of the cache meanwhile.
HeldPageStays ==
  \A t \in Users : pc[t] \in {"copy", "register"} => m_page[cur(t)] # NoPage

\* The cache loses no write: the page it holds is the latest write, and a page
\* it gave back is on the device; unless a write was registered while a flush
\* of its buffer was between write_block() and m_dirty = false.
WritesSurvive ==
  \A b \in Bufs \ raced : m_page[b] # "old" /\ (m_page[b] = NoPage => disk[b] = "new")

\* A thread that ran into low memory inside data() waits for the lock it holds.
Hung == \E t \in Users : InData(t) /\ pc[t] \in {"r_lock", "reclaim"}

\* block_flush_task: what is written to a buffer is on the device in the end,
\* and every call returns; unless a page was allocated for a buffer with fewer
\* than 32 frames left.
DirtyIsWritten ==
  /\ \A b \in Bufs : m_dirty[b] ~> ~m_dirty[b] \/ Hung
  /\ \A t \in Users : pc[t] = "get" ~> pc[t] = "idle" \/ Hung
=============================================================================
