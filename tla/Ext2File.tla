------------------------------ MODULE Ext2File ------------------------------
(***************************************************************************)
(* The block tree of one ext2 file (fs/ext2/inode.cpp): the direct, singly,*)
(* doubly and triply indirect pointers, the path cache of the inode, growth*)
(* by truncate() and the lookup block_from_index().  A table of pointers is*)
(* a function on 0..Ptrs-1; a block of the disk holds one.  Only calls that*)
(* hold path_cache_lock change the cache, so a call is one step.           *)
(***************************************************************************)
EXTENDS Integers, FiniteSetsExt, SequencesExt

CONSTANTS
  NDir,       \* direct pointers of an inode: 12 in the code
  Ptrs,       \* pointers in a block, a power of two: 1024 in the code
  NDisk,      \* blocks of the disk; block 0 is the superblock's, 1 another file's
  Garbage,    \* what the words of a malloc()ed block may hold
  MaxSize     \* bound: blocks of the file; the disk has room for them

IND == NDir
DIND == NDir + 1
TIND == NDir + 2
Offsets == 0..(Ptrs - 1)
Levels == 0..3
Table(w) == [o \in Offsets |-> w]

VARIABLES
  size,             \* ino.size, in blocks
  block_pointers,   \* info.block_pointers, 0 for none
  disk,             \* the words of each block
  used,             \* the block bitmap
  cached_path,      \* p->cached_path
  blk_bufs,         \* p->blk_bufs, <<>> for NULL
  got               \* the last answer of block_from_index

vars == <<size, block_pointers, disk, used, cached_path, blk_bufs, got>>

Init ==
  /\ size = 0 /\ got = 0
  /\ block_pointers = [o \in 0..TIND |-> 0]
  /\ disk = [b \in 0..NDisk |-> Table(0)]
  /\ used = {0, 1}
  /\ cached_path = [i \in Levels |-> 0]
  /\ blk_bufs = [i \in Levels |-> <<>>]

block_to_path(i_block) ==
  LET ind == i_block - NDir
      dind == ind - Ptrs
      tind == dind - Ptrs * Ptrs
  IN  CASE i_block < NDir -> <<i_block>>
        [] ind \in 0..(Ptrs - 1) -> <<IND, ind>>
        [] dind \in 0..(Ptrs * Ptrs - 1) -> <<DIND, dind \div Ptrs, dind % Ptrs>>
        [] OTHER -> <<TIND, tind \div (Ptrs * Ptrs), (tind \div Ptrs) % Ptrs, tind % Ptrs>>

\* The part of the state that a call reads and writes, as one record.
File == [ptr |-> block_pointers, disk |-> disk, used |-> used,
         path |-> cached_path, buf |-> blk_bufs]

\* balloc: the first clear bit of the bitmap, and the block is cleared.
NewBlock(f) == Min(1..NDisk \ f.used)
balloc(f) == [f EXCEPT !.used = @ \union {NewBlock(f)}, !.disk[NewBlock(f)] = Table(0)]

\* The first loop of access_block_path: buffers are allocated, with whatever the
\* memory holds, and the offsets are recorded.
Prepare(f, path, w) ==
  [f EXCEPT !.path = [i \in Levels |-> IF i < Len(path) THEN path[i + 1] ELSE @[i]],
            !.buf = [i \in Levels |->
                       IF i < Len(path) /\ @[i] = <<>> THEN Table(w) ELSE @[i]]]

\* One level of access_block_path: table `block`, whose copy is blk_bufs[i], is read
\* when cached_path[i] does not name it; its entry, if empty, gets a new block (of
\* two that are allocated, at the third level).
Level(f, path, i, block) ==
  LET off == path[i + 2]
      read == IF f.path[i] # path[i + 1]
              THEN [f EXCEPT !.buf[i] = f.disk[block], !.path[i] = path[i + 1]] ELSE f
      spare == IF i = 2 THEN balloc(read) ELSE read
      filled == [balloc(spare) EXCEPT !.buf[i][off] = NewBlock(spare)]
  IN  IF read.buf[i][off] # 0 THEN read
      ELSE [filled EXCEPT !.disk[block] = filled.buf[i]]

\* access_block_path with the callback of append_block.
append_block(f, dest, w) ==
  LET path == block_to_path(dest)
      n == Len(path)
      top == IF f.ptr[path[1]] # 0 THEN f
             ELSE [balloc(f) EXCEPT !.ptr[path[1]] = NewBlock(f)]
      one == Level(Prepare(top, path, w), path, 0, top.ptr[path[1]])
      two == Level(one, path, 1, one.buf[0][path[2]])
      three == Level(two, path, 2, two.buf[1][path[3]])
  IN  CASE n = 1 -> [balloc(f) EXCEPT !.ptr[path[1]] = NewBlock(f)]
        [] n = 2 -> one
        [] n = 3 -> two
        [] OTHER -> three

\* A write past the end makes the file `more` blocks longer.
truncate(more, w) ==
  LET new == FoldLeft(LAMBDA f, dest : append_block(f, dest, w), File,
                      [k \in 1..more |-> size + k - 1])
  IN  /\ size + more <= MaxSize
      /\ size' = size + more
      /\ block_pointers' = new.ptr /\ disk' = new.disk /\ used' = new.used
      /\ cached_path' = new.path /\ blk_bufs' = new.buf
      /\ UNCHANGED got

\* The loop of block_from_index: the table of each level is the cached one if its
\* offset is the recorded one, and is read through the table above it otherwise.
Cached(f, path, i) ==
  LET table == IF i = 0 THEN f.ptr ELSE f.buf[i - 1]
      hit == f.buf[i] # <<>> /\ f.path[i] = path[i + 1]
  IN  IF hit THEN f
      ELSE [f EXCEPT !.buf[i] = f.disk[table[path[i + 1]]], !.path[i] = path[i + 1]]

block_from_index(i_block) ==
  LET path == block_to_path(i_block)
      n == Len(path)
      new == FoldLeft(LAMBDA f, i : Cached(f, path, i), File, [k \in 1..(n - 1) |-> k - 1])
  IN  /\ i_block < size
      /\ blk_bufs' = new.buf /\ cached_path' = new.path
      /\ got' = IF n = 1 THEN block_pointers[path[1]] ELSE new.buf[n - 2][path[n]]
      /\ UNCHANGED <<size, block_pointers, disk, used>>

Next ==
  \/ \E more \in 1..2, w \in Garbage : truncate(more, w)
  \/ \E i_block \in 0..(MaxSize - 1) : block_from_index(i_block)

Spec == Init /\ [][Next]_vars
------------------------------------------------------------------------------
\* Where the tree on the disk puts a block of the file.
Mapped(i_block) ==
  LET path == block_to_path(i_block)
  IN  FoldLeft(LAMBDA b, off : IF b = 0 THEN 0 ELSE disk[b][off],
               block_pointers[path[1]], Tail(path))

(* append_block is "used to add a single block to the end of a file": after growth *)
(* every block of the file has a block of the disk, of its own.                    *)
GrowthAddsBlocks ==
  \A i \in 0..(size - 1) :
    /\ Mapped(i) \notin {0, 1}
    /\ \A j \in 0..(i - 1) : Mapped(j) # Mapped(i)
=============================================================================
