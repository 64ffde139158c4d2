----------------------------- MODULE ByteQueue -----------------------------
(***************************************************************************)
(* What a fifo_buf promises: a bounded queue of bytes. Each byte put in    *)
(* comes out once, to one reader, in the order in which it was put.        *)
(***************************************************************************)
EXTENDS Integers, Sequences

CONSTANTS Threads, Bytes, Capacity

VARIABLES
  contents,   \* the bytes in the queue, oldest first
  got         \* got[t]: what t's current or last read has collected

Init == contents = <<>> /\ got = [t \in Threads |-> <<>>]

Put ==
  /\ Len(contents) < Capacity
  /\ \E b \in Bytes : contents' = Append(contents, b)
  /\ UNCHANGED got

Take(t) ==
  /\ contents # <<>>
  /\ got' = [got EXCEPT ![t] = Append(@, Head(contents))]
  /\ contents' = Tail(contents)

StartRead(t) ==
  /\ got' = [got EXCEPT ![t] = <<>>]
  /\ UNCHANGED contents

Next == Put \/ \E t \in Threads : Take(t) \/ StartRead(t)

Spec == Init /\ [][Next]_<<contents, got>>
=============================================================================
