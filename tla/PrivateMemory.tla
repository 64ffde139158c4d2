--------------------------- MODULE PrivateMemory ---------------------------
(***************************************************************************)
(* What processes expect of their memory: each has its own, a fork gives   *)
(* the child a copy of it, and only what is mapped shared is shared.       *)
(***************************************************************************)
CONSTANTS Procs, Addrs,
  Values,      \* what is stored
  Zero,        \* what is there before the first store
  Unmapped,    \* no area at this address
  Shared,      \* the address is the object's, for reading and writing
  Backed       \* it reads as the object until the first write

VARIABLES live, mem, obj
vars == <<live, mem, obj>>

Init ==
  /\ \E p \in Procs : live = {p}
  /\ mem = [p \in Procs |-> [v \in Addrs |-> Unmapped]]
  /\ obj = [v \in Addrs |-> Zero]

Set(p, v, x) == mem' = [mem EXCEPT ![p][v] = x]

Map(p, v) ==
  /\ p \in live /\ mem[p][v] = Unmapped
  /\ \E x \in {Zero, Shared, Backed} : Set(p, v, x)
  /\ UNCHANGED <<live, obj>>

Unmap(p, v) ==
  /\ p \in live /\ Set(p, v, Unmapped)
  /\ UNCHANGED <<live, obj>>

\* A store is seen by nobody else, or by everybody who shares the object.
Store(p, v, x) ==
  /\ p \in live
  /\ \/ mem[p][v] = Shared /\ obj' = [obj EXCEPT ![v] = x] /\ UNCHANGED mem
     \/ mem[p][v] \in Values \union {Zero} /\ Set(p, v, x) /\ UNCHANGED obj
  /\ UNCHANGED live

\* A private mapping of an object gets its own copy before it is written to.
Detach(p, v) ==
  /\ p \in live /\ mem[p][v] = Backed
  /\ Set(p, v, obj[v])
  /\ UNCHANGED <<live, obj>>

Fork(p, q) ==
  /\ p \in live /\ q \notin live
  /\ live' = live \union {q}
  /\ mem' = [mem EXCEPT ![q] = mem[p]]
  /\ UNCHANGED obj

Exit(p) ==
  /\ live' = live \ {p}
  /\ mem' = [mem EXCEPT ![p] = [v \in Addrs |-> Unmapped]]
  /\ UNCHANGED obj

Next ==
  \/ \E p \in Procs : Exit(p) \/ \E q \in Procs : Fork(p, q)
  \/ \E p \in Procs, v \in Addrs :
       Map(p, v) \/ Unmap(p, v) \/ Detach(p, v) \/ \E x \in Values : Store(p, v, x)

Spec == Init /\ [][Next]_vars
=============================================================================
