----------------------------- MODULE QueueProofs -----------------------------
(***************************************************************************)
(* FifoBuf implements ByteQueue for every size of the ring and any number  *)
(* of threads. TypeOK is inductive and is all the refinement needs: the    *)
(* two counts add up to Size - 1 wherever the pointers are. A CKIPC socket *)
(* with any number of threads at its two ends delivers each message once,  *)
(* in order, before it says that there are no more. And the list of a wait *)
(* queue is a list for any entries and wakers, store by store.             *)
(***************************************************************************)
EXTENDS MCQueues, ListLemmas, TLAPS

\* A step is for Zenon unless it names another prover.
USE Zenon

------------------------------------------------------------------------------
(* ListHead *)

\* The stores to come to field f of a, and the value that field will have after
\* the last of them.
Hits(i, f, a) == todo[i].field = f /\ todo[i].node = a
Ends(f, a, v) ==
  \/ (IF f = "next" THEN next[a] ELSE prev[a]) = v /\ \A i \in DOMAIN todo : ~ Hits(i, f, a)
  \/ \E i \in DOMAIN todo : /\ Hits(i, f, a) /\ todo[i].value = v
                            /\ \A j \in DOMAIN todo : Hits(j, f, a) => j <= i

\* The pointers, once the stores are done, are those of the ring of s.
Rth(s, i) == IF i \in DOMAIN s THEN s[i] ELSE TaskList
Ring(s) ==
  /\ Ends("next", TaskList, Rth(s, 1)) /\ Ends("prev", TaskList, Rth(s, Len(s)))
  /\ \A i \in DOMAIN s : Ends("next", s[i], Rth(s, i + 1)) /\ Ends("prev", s[i], Rth(s, i - 1))
  /\ \A n \in Nodes \ Range(s) : Ends("next", n, n) /\ Ends("prev", n, n)

Pointers == List!Heads \union {List!Poison}
Stores == [field : {"next", "prev"}, node : List!Heads, value : Pointers]
ListTypes ==
  /\ next \in [List!Heads -> Pointers] /\ prev \in [List!Heads -> Pointers]
  /\ qlock \in Nodes \union Wakers \union {None} /\ todo \in Seq(Stores)
  /\ owner \in [Nodes -> {"idle", "linking", "linked", "careful", "delete", "unlinking"}]
  /\ list \in Seq(Nodes) /\ IsInjective(list)

\* Entry n has been taken off the list and the last stores of del_init() to it
\* are still to come: its prev is made to point to itself by the very last of
\* them, and its next by the one before.
Unlinks(n, p, x) ==
  <<List!Store("prev", x, p), List!Store("next", p, x), List!Store("next", n, List!Poison),
    List!Store("prev", n, List!Poison), List!Store("next", n, n), List!Store("prev", n, n)>>
Leaving(n) ==
  /\ prev[n] # n /\ (Len(todo) > 1 => next[n] # n) /\ (owner[n] = "careful" => Len(todo) = 1)
  /\ Len(todo) <= 6
  /\ \E p, x \in List!Heads \ {n} :
       \A i \in DOMAIN todo : todo[i] = Unlinks(n, p, x)[i + 6 - Len(todo)]

\* The inductive invariant: the lock and who is inside an operation, the members
\* of the list, the stores to come, and the entries that a waker is taking off.
ListLockOK ==
  /\ qlock = None => todo = <<>>
  /\ \A n \in Nodes : owner[n] \in {"linking", "unlinking"} => qlock = n
MembersOK ==
  \A n \in Range(list) : /\ owner[n] \in {"linking", "linked", "delete"}
                         /\ owner[n] # "linking" => next[n] # n
TodoOK ==
  \A i \in DOMAIN todo :
    /\ todo[i].field = "next" /\ todo[i].node \in Range(list) => todo[i].value # todo[i].node
    /\ todo[i].node \in Nodes => owner[todo[i].node] # "idle"
LeaversOK ==
  \A n \in Nodes \ Range(list) :
    owner[n] \in {"linked", "careful"} /\ (\E i \in DOMAIN todo : todo[i].node = n) => Leaving(n)
ListInv == ListTypes /\ Ring(list) /\ ListLockOK /\ MembersOK /\ TodoOK /\ LeaversOK

\* The instance of ListHead has the operators of Lists under names of its own.
LEMMA SameLists == \A s : List!Range(s) = Range(s) /\ \A e : List!Del(s, e) = Del(s, e)
BY DEF List!Range, Range, List!Del, Del

\* With nothing left to do the pointers are what they will be.
LEMMA NothingToDo ==
  ASSUME todo = <<>>
  PROVE  \A a, v : (Ends("next", a, v) <=> next[a] = v) /\ (Ends("prev", a, v) <=> prev[a] = v)
BY SMT DEF Ends

\* What the pointers will be changes only with them and with what is to do.
LEMMA PointersStay ==
  ASSUME UNCHANGED <<next, prev, todo, list>>
  PROVE  Ring(list) => Ring(list)'
<1>1. \A f, a, v : Ends(f, a, v)' <=> Ends(f, a, v)
  <2>1. \A i, f, a : Hits(i, f, a)' <=> Hits(i, f, a)
    BY DEF Hits
  <2> QED BY <2>1 DEF Ends
<1>2. Range(list)' = Range(list) /\ \A i : Rth(list, i)' = Rth(list, i)
  BY DEF Rth, Range
<1>3. list' = list /\ Len(list)' = Len(list)
  OBVIOUS
<1> QED BY <1>1, <1>2, <1>3 DEF Ring

\* The members of a list and their neighbours.
LEMMA RingOrder ==
  ASSUME NEW s \in Seq(Nodes), IsInjective(s), NEW k \in DOMAIN s
  PROVE  /\ Rth(s, k + 1) # s[k] /\ Rth(s, k - 1) # s[k]
         /\ Rth(s, k + 1) \in Range(s) \union {TaskList} /\ Rth(s, k - 1) \in Range(s) \union {TaskList}
         /\ Rth(s, k - 1) \in Nodes => Rth(s, k - 1) # Rth(s, k + 1)
<1>1. DOMAIN s = 1..Len(s) /\ Len(s) \in Nat /\ \A i \in DOMAIN s : s[i] \in Nodes /\ s[i] \in Range(s)
  BY SMT DEF Range
<1>2. \A i, j \in DOMAIN s : s[i] = s[j] => i = j
  BY DEF IsInjective
<1> QED BY <1>1, <1>2, NodesAssumption, SMT DEF Rth

\* The invariant gives the property: no operation is in progress while the
\* lock is free.
LEMMA ListHolds == ListInv => ListIsExact
<1> SUFFICES ASSUME ListInv PROVE ListIsExact
  OBVIOUS
<1>1. List!NoStrayStore
  <2> SUFFICES ASSUME NEW n \in Nodes, owner[n] = "idle"
               PROVE  n \notin Range(list) /\ \A i \in DOMAIN todo : todo[i].node # n
    BY SameLists DEF List!NoStrayStore
  <2> QED BY DEF ListInv, MembersOK, TodoOK
<1>2. ASSUME qlock = None PROVE List!ListIsExact
  <2>1. PICK s \in Seq(Nodes) : s = list
    BY DEF ListInv, ListTypes
  <2>2. todo = <<>> /\ Ring(s)
    BY <1>2, <2>1 DEF ListInv, ListLockOK
  <2>3. /\ next[TaskList] = Rth(s, 1) /\ prev[TaskList] = Rth(s, Len(s))
        /\ \A i \in DOMAIN s : next[s[i]] = Rth(s, i + 1) /\ prev[s[i]] = Rth(s, i - 1)
        /\ \A n \in Nodes \ Range(s) : next[n] = n /\ prev[n] = n
    BY <2>2, NothingToDo, SMT DEF Ring
  <2> DEFINE circle == <<TaskList>> \o s \o <<TaskList>>
  <2>4. /\ Len(s) \in Nat /\ DOMAIN s = 1..Len(s) /\ Len(circle) = Len(s) + 2
        /\ \A i \in 1..(Len(s) + 2) : circle[i] = Rth(s, i - 1)
    BY SMT DEF Rth
  <2> HIDE DEF circle
  <2>5. ASSUME NEW i \in 1..(Len(circle) - 1)
        PROVE  next[circle[i]] = circle[i + 1] /\ prev[circle[i + 1]] = circle[i]
    <3>1. circle[i] = Rth(s, i - 1) /\ circle[i + 1] = Rth(s, i)
      BY <2>4, SMT
    <3>2. CASE i = 1
      BY <2>3, <2>4, <3>1, <3>2, SMT DEF Rth
    <3>3. CASE i # 1
      <4>1. i - 1 \in DOMAIN s /\ Rth(s, i - 1) = s[i - 1] /\ (i - 1) + 1 = i
        BY <2>4, <3>3, SMT DEF Rth
      <4>2. next[s[i - 1]] = Rth(s, i)
        BY <2>3, <4>1
      <4>3. CASE i \in DOMAIN s
        BY <2>3, <3>1, <4>1, <4>2, <4>3 DEF Rth
      <4>4. CASE i \notin DOMAIN s
        <5>1. i = Len(s) + 1 /\ i - 1 = Len(s)
          BY <2>4, <3>3, <4>4, SMT
        <5> QED BY <2>3, <3>1, <4>1, <4>2, <4>4, <5>1 DEF Rth
      <4> QED BY <4>3, <4>4
    <3> QED BY <3>2, <3>3
  <2>6. \A n \in Nodes \ List!Range(list) : next[n] = n /\ prev[n] = n
    BY <2>1, <2>3, SameLists
  <2> QED BY <2>1, <2>5, <2>6 DEF List!ListIsExact, circle
<1>3. qlock # None => List!ListIsExact
  BY DEF List!ListIsExact
<1> QED BY <1>1, <1>2, <1>3 DEF ListIsExact

\* A store takes nothing from what the pointers will be.
LEMMA StoreEnds ==
  ASSUME ListTypes, List!DoStore, NEW a \in List!Heads, NEW f \in {"next", "prev"}, NEW v, Ends(f, a, v)
  PROVE  Ends(f, a, v)'
<1>1. /\ todo # <<>> /\ todo \in Seq(Stores) /\ todo' = Tail(todo)
      /\ Len(todo) \in Nat \ {0} /\ Len(todo') = Len(todo) - 1
      /\ DOMAIN todo = 1..Len(todo) /\ DOMAIN todo' = 1..(Len(todo) - 1)
      /\ \A i \in 1..(Len(todo) - 1) : todo'[i] = todo[i + 1]
      /\ Head(todo) = todo[1] /\ todo[1] \in Stores
  BY SMT DEF ListTypes, List!DoStore
<1>2. \A i \in 1..(Len(todo) - 1) : Hits(i, f, a)' <=> Hits(i + 1, f, a)
  BY <1>1 DEF Hits
<1>3. CASE Hits(1, f, a)
  <2>1. (IF f = "next" THEN next'[a] ELSE prev'[a]) = todo[1].value
    BY <1>1, <1>3 DEF Hits, ListTypes, List!DoStore
  <2>2. CASE \A j \in DOMAIN todo : Hits(j, f, a) => j <= 1
    <3>1. todo[1].value = v
      BY <1>1, <1>3, <2>2, SMT DEF Ends
    <3>2. \A i \in DOMAIN todo' : ~ Hits(i, f, a)'
      BY <1>1, <1>2, <2>2, SMT
    <3> QED BY <2>1, <3>1, <3>2 DEF Ends
  <2>3. CASE ~ \A j \in DOMAIN todo : Hits(j, f, a) => j <= 1
    <3>1. PICK i \in DOMAIN todo : /\ Hits(i, f, a) /\ todo[i].value = v
                                   /\ \A j \in DOMAIN todo : Hits(j, f, a) => j <= i
      BY <1>1, <1>3, SMT DEF Ends
    <3>2. i - 1 \in DOMAIN todo' /\ todo'[i - 1] = todo[i] /\ i # 1
      <4>1. i # 1 /\ i \in 1..Len(todo)
        BY <1>1, <2>3, <3>1
      <4>2. i - 1 \in 1..(Len(todo) - 1) /\ (i - 1) + 1 = i
        BY <1>1, <4>1, SMT
      <4> QED BY <1>1, <4>1, <4>2
    <3>3. Hits(i - 1, f, a)' /\ \A j \in DOMAIN todo' : Hits(j, f, a)' => j <= i - 1
      BY <1>1, <1>2, <3>1, <3>2, SMT
    <3> QED BY <3>1, <3>2, <3>3 DEF Ends
  <2> QED BY <2>2, <2>3
<1>4. CASE ~ Hits(1, f, a)
  <2>1. (IF f = "next" THEN next'[a] ELSE prev'[a]) = (IF f = "next" THEN next[a] ELSE prev[a])
    <3>1. CASE todo[1].field = "next"
      <4>1. next' = [next EXCEPT ![todo[1].node] = todo[1].value] /\ prev' = prev
        BY <1>1, <3>1 DEF List!DoStore
      <4> QED BY <1>1, <1>4, <3>1, <4>1 DEF Hits, ListTypes
    <3>2. CASE todo[1].field # "next"
      <4>1. prev' = [prev EXCEPT ![todo[1].node] = todo[1].value] /\ next' = next
        BY <1>1, <3>2 DEF List!DoStore
      <4>2. todo[1].field = "prev"
        BY <1>1, <3>2 DEF Stores
      <4> QED BY <1>1, <1>4, <3>2, <4>1, <4>2 DEF Hits, ListTypes
    <3> QED BY <3>1, <3>2
  <2>2. CASE \A i \in DOMAIN todo : ~ Hits(i, f, a)
    <3>1. \A i \in DOMAIN todo' : ~ Hits(i, f, a)'
      BY <1>1, <1>2, <2>2, SMT
    <3> QED BY <2>1, <2>2, <3>1 DEF Ends
  <2>3. CASE ~ \A i \in DOMAIN todo : ~ Hits(i, f, a)
    <3>1. PICK i \in DOMAIN todo : /\ Hits(i, f, a) /\ todo[i].value = v
                                   /\ \A j \in DOMAIN todo : Hits(j, f, a) => j <= i
      BY <2>3 DEF Ends
    <3>2. i - 1 \in DOMAIN todo' /\ todo'[i - 1] = todo[i] /\ i # 1
      BY <1>1, <1>4, <3>1, SMT
    <3>3. Hits(i - 1, f, a)' /\ \A j \in DOMAIN todo' : Hits(j, f, a)' => j <= i - 1
      BY <1>1, <1>2, <3>1, <3>2, SMT
    <3> QED BY <3>1, <3>2, <3>3 DEF Ends
  <2> QED BY <2>2, <2>3
<1> QED BY <1>3, <1>4

\* What the stores of __add() and of del_init() will make of the pointers.
LEMMA AddEnds ==
  ASSUME todo = <<>>, NEW n, NEW p, NEW x, n # p, n # x,
         todo' = List!AddStores(n, p, x), UNCHANGED <<next, prev>>
  PROVE  /\ Ends("next", p, n)' /\ Ends("next", n, x)' /\ Ends("prev", x, n)' /\ Ends("prev", n, p)'
         /\ \A a : a # p /\ a # n => Ends("next", a, next[a])'
         /\ \A a : a # x /\ a # n => Ends("prev", a, prev[a])'
         /\ DOMAIN todo' = 1..4
         /\ \A i \in 1..4 : /\ todo'[i].node \in {n, p, x}
                            /\ todo'[i].field = "next" => todo'[i].value # todo'[i].node
<1>1. /\ DOMAIN todo' = 1..4
      /\ todo'[1] = List!Store("prev", x, n) /\ todo'[2] = List!Store("next", n, x)
      /\ todo'[3] = List!Store("prev", n, p) /\ todo'[4] = List!Store("next", p, n)
  BY SMT DEF List!AddStores
<1>2. /\ todo'[1].field = "prev" /\ todo'[1].node = x /\ todo'[1].value = n
      /\ todo'[2].field = "next" /\ todo'[2].node = n /\ todo'[2].value = x
      /\ todo'[3].field = "prev" /\ todo'[3].node = n /\ todo'[3].value = p
      /\ todo'[4].field = "next" /\ todo'[4].node = p /\ todo'[4].value = n
  BY <1>1, SMT DEF List!Store
<1>3. \A i \in 1..4 : i = 1 \/ i = 2 \/ i = 3 \/ i = 4
  BY SMT
<1> QED BY <1>1, <1>2, <1>3, SMT DEF Ends, Hits

\* Whether the entry was on the list or not.
LEMMA DelEnds ==
  ASSUME todo = <<>>, NEW n, NEW p, NEW x, p = n <=> x = n,
         todo' = Unlinks(n, p, x), UNCHANGED <<next, prev>>
  PROVE  /\ Ends("next", n, n)' /\ Ends("prev", n, n)'
         /\ p # n => Ends("next", p, x)' /\ Ends("prev", x, p)'
         /\ \A a : a # p /\ a # n => Ends("next", a, next[a])'
         /\ \A a : a # x /\ a # n => Ends("prev", a, prev[a])'
         /\ DOMAIN todo' = 1..6
         /\ \A i \in 1..6 : /\ todo'[i].node \in {n, p, x}
                            /\ todo'[i].field = "next" /\ todo'[i].node # n =>
                                 todo'[i].node = p /\ todo'[i].value = x
<1>1. /\ DOMAIN todo' = 1..6
      /\ todo'[1] = List!Store("prev", x, p) /\ todo'[2] = List!Store("next", p, x)
      /\ todo'[3] = List!Store("next", n, List!Poison) /\ todo'[4] = List!Store("prev", n, List!Poison)
      /\ todo'[5] = List!Store("next", n, n) /\ todo'[6] = List!Store("prev", n, n)
  BY SMT DEF Unlinks
<1>2. /\ todo'[1].field = "prev" /\ todo'[1].node = x /\ todo'[1].value = p
      /\ todo'[2].field = "next" /\ todo'[2].node = p /\ todo'[2].value = x
      /\ todo'[3].field = "next" /\ todo'[3].node = n
      /\ todo'[4].field = "prev" /\ todo'[4].node = n
      /\ todo'[5].field = "next" /\ todo'[5].node = n /\ todo'[5].value = n
      /\ todo'[6].field = "prev" /\ todo'[6].node = n /\ todo'[6].value = n
  BY <1>1, SMT DEF List!Store
<1>3. \A i \in 1..6 : i = 1 \/ i = 2 \/ i = 3 \/ i = 4 \/ i = 5 \/ i = 6
  BY SMT
<1> QED BY <1>1, <1>2, <1>3, SMT DEF Ends, Hits

\* The ring without an entry is the ring of the list without it.
LEMMA RingDel ==
  ASSUME ListTypes, todo = <<>>, NEW s \in Seq(Nodes), s = list, Ring(s), NEW n \in Nodes,
         NEW p, NEW x, p = prev[n], x = next[n],
         todo' = Unlinks(n, p, x), UNCHANGED <<next, prev>>
  PROVE  /\ Ring(Del(s, n))' /\ (p = n <=> x = n) /\ (p = n <=> n \notin Range(s))
         /\ {p, x} \subseteq (Range(s) \ {n}) \union {n, TaskList}
         /\ p \in Range(s) \ {n} => p # x
<1>0. /\ IsInjective(s) /\ DOMAIN s = 1..Len(s) /\ Len(s) \in Nat /\ TaskList # n
      /\ \A i \in DOMAIN s : s[i] \in Nodes /\ s[i] # TaskList
  BY NodesAssumption, SMT DEF ListTypes
<1>1. /\ next[TaskList] = Rth(s, 1) /\ prev[TaskList] = Rth(s, Len(s))
      /\ \A i \in DOMAIN s : next[s[i]] = Rth(s, i + 1) /\ prev[s[i]] = Rth(s, i - 1)
      /\ \A m \in Nodes \ Range(s) : next[m] = m /\ prev[m] = m
  BY NothingToDo, SMT DEF Ring
<1>2. CASE n \notin Range(s)
  <2>1. p = n /\ x = n
    BY <1>1, <1>2
  <2>2. Del(s, n) = s
    BY <1>2 DEF Del, Range
  <2>3. /\ Ends("next", n, n)' /\ Ends("prev", n, n)'
        /\ \A a : a # n => Ends("next", a, next[a])' /\ Ends("prev", a, prev[a])'
    BY <2>1, DelEnds, SMT
  <2>4. \A i \in DOMAIN s : s[i] # n
    BY <1>2 DEF Range
  <2>5. Ring(s)'
    BY <1>0, <1>1, <2>3, <2>4, SMT DEF Ring
  <2> QED BY <1>2, <2>1, <2>2, <2>5
<1>3. CASE n \in Range(s)
  <2>1. PICK k \in DOMAIN s : s[k] = n
    BY <1>3 DEF Range
  <2>2. x = Rth(s, k + 1) /\ p = Rth(s, k - 1)
    BY <1>1, <2>1
  <2>3. /\ x # n /\ p # n /\ x \in Range(s) \union {TaskList} /\ p \in Range(s) \union {TaskList}
        /\ p \in Nodes => p # x
    BY <1>0, <2>1, <2>2, RingOrder, SMT
  <2>4. /\ Ends("next", n, n)' /\ Ends("prev", n, n)' /\ Ends("next", p, x)' /\ Ends("prev", x, p)'
        /\ \A a : a # p /\ a # n => Ends("next", a, next[a])'
        /\ \A a : a # x /\ a # n => Ends("prev", a, prev[a])'
    BY <2>3, DelEnds, SMT
  <2> DEFINE r == Del(s, n)
  <2>5. /\ DOMAIN r = 1..(Len(s) - 1) /\ Len(r) = Len(s) - 1
        /\ \A j \in 1..(Len(s) - 1) : r[j] = IF j < k THEN s[j] ELSE s[j + 1]
    <3>1. DOMAIN Del(s, s[k]) = 1..(Len(s) - 1)
      BY <1>0, <2>1, DelAt
    <3>2. Del(s, n) \in Seq(Nodes) /\ Len(s) - 1 \in Nat
      BY <1>0, <2>1, RngDel, SMT
    <3>3. Len(Del(s, n)) = Len(s) - 1
      <4>1. DOMAIN Del(s, n) = 1..Len(Del(s, n)) /\ Len(Del(s, n)) \in Nat
        BY <3>2, SMT
      <4>2. \A a, b \in Nat : 1..a = 1..b => a = b
        <5> TAKE a \in Nat, b \in Nat
        <5> HAVE 1..a = 1..b
        <5>1. ~ a < b
          <6>1. b \in 1..a \/ b = 0
            BY SMT
          <6> QED BY <6>1, SMT
        <5>2. ~ b < a
          <6>1. a \in 1..b \/ a = 0
            BY SMT
          <6> QED BY <6>1, SMT
        <5> QED BY <5>1, <5>2, SMT
      <4> QED BY <2>1, <3>1, <3>2, <4>1, <4>2
    <3>4. \A j \in 1..(Len(s) - 1) : Del(s, s[k])[j] = IF j < k THEN s[j] ELSE s[j + 1]
      BY <1>0, DelAt
    <3> QED BY <2>1, <3>1, <3>3, <3>4
  <2>6. Range(r) = Range(s) \ {n}
    BY <1>0, RngDel
  <2> HIDE DEF r
  <2>7. \A i, j \in DOMAIN s : s[i] = s[j] => i = j
    BY <1>0 DEF IsInjective
  <2>8. \A i \in DOMAIN s : (s[i] = x <=> i = k + 1) /\ (s[i] = p <=> i = k - 1) /\ (s[i] = n <=> i = k)
    BY <1>0, <2>1, <2>2, <2>7, SMT DEF Rth
  <2>9. Ends("next", TaskList, Rth(r, 1))'
    BY <1>0, <1>1, <2>1, <2>2, <2>4, <2>5, SMT DEF Rth
  <2>10. Ends("prev", TaskList, Rth(r, Len(r)))'
    BY <1>0, <1>1, <2>1, <2>2, <2>4, <2>5, SMT DEF Rth
  <2>11. ASSUME NEW j \in DOMAIN r
         PROVE  Ends("next", r[j], Rth(r, j + 1))' /\ Ends("prev", r[j], Rth(r, j - 1))'
    <3>1. CASE j < k
      <4>1. j \in DOMAIN s /\ r[j] = s[j] /\ s[j] # n /\ s[j] # x /\ (s[j] = p <=> j = k - 1)
        BY <1>0, <2>1, <2>5, <2>8, <3>1, SMT
      <4>2. Rth(r, j + 1) = IF j = k - 1 THEN x ELSE Rth(s, j + 1)
        BY <1>0, <2>1, <2>2, <2>5, <3>1, SMT DEF Rth
      <4>3. Rth(r, j - 1) = Rth(s, j - 1)
        BY <1>0, <2>1, <2>5, <3>1, SMT DEF Rth
      <4> QED BY <1>1, <2>4, <4>1, <4>2, <4>3, SMT
    <3>2. CASE j >= k
      <4>1. j + 1 \in DOMAIN s /\ r[j] = s[j + 1] /\ s[j + 1] # n /\ s[j + 1] # p /\ (s[j + 1] = x <=> j = k)
        BY <1>0, <2>1, <2>5, <2>8, <3>2, SMT
      <4>2. Rth(r, j + 1) = Rth(s, (j + 1) + 1)
        BY <1>0, <2>1, <2>5, <3>2, SMT DEF Rth
      <4>3. Rth(r, j - 1) = IF j = k THEN p ELSE Rth(s, (j + 1) - 1)
        BY <1>0, <2>1, <2>2, <2>5, <3>2, SMT DEF Rth
      <4> QED BY <1>1, <2>4, <4>1, <4>2, <4>3, SMT
    <3> QED BY <1>0, <2>1, <2>5, <3>1, <3>2, SMT
  <2>12. \A m \in Nodes \ Range(r) : Ends("next", m, m)' /\ Ends("prev", m, m)'
    <3>1. ASSUME NEW m \in Nodes, m \notin Range(r), m # n
          PROVE  m # p /\ m # x /\ next[m] = m /\ prev[m] = m
      BY <1>1, <2>3, <2>6, <3>1, NodesAssumption
    <3> QED BY <2>4, <3>1
  <2>13. Ring(r)'
    BY <2>9, <2>10, <2>11, <2>12 DEF Ring
  <2>14. p \in Range(s) => p \in Nodes
    BY SMT DEF Range
  <2> QED BY <1>3, <2>3, <2>13, <2>14 DEF r
<1> QED BY <1>2, <1>3

\* The ring with an entry at its head, and with one at its tail.
LEMMA RingAdd ==
  ASSUME ListTypes, todo = <<>>, NEW s \in Seq(Nodes), s = list, Ring(s), NEW n \in Nodes \ Range(s),
         NEW p, NEW x, UNCHANGED <<next, prev>>, todo' = List!AddStores(n, p, x)
  PROVE  /\ p = TaskList /\ x = next[TaskList] => Ring(<<n>> \o s)' /\ x \in Range(s) \union {TaskList}
         /\ p = prev[TaskList] /\ x = TaskList => Ring(Append(s, n))' /\ p \in Range(s) \union {TaskList}
<1>0. /\ DOMAIN s = 1..Len(s) /\ Len(s) \in Nat /\ TaskList # n /\ n \notin Range(s)
      /\ \A i \in DOMAIN s : s[i] \in Nodes /\ s[i] # TaskList /\ s[i] # n /\ s[i] \in Range(s)
      /\ \A i, j \in DOMAIN s : s[i] = s[j] => i = j
      /\ TaskList \notin Nodes
  BY NodesAssumption, SMT DEF ListTypes, Range, IsInjective
<1>1. /\ next[TaskList] = Rth(s, 1) /\ prev[TaskList] = Rth(s, Len(s))
      /\ \A i \in DOMAIN s : next[s[i]] = Rth(s, i + 1) /\ prev[s[i]] = Rth(s, i - 1)
      /\ \A m \in Nodes \ Range(s) : next[m] = m /\ prev[m] = m
  BY NothingToDo, SMT DEF Ring
<1>2. ASSUME n # p, n # x
      PROVE  /\ Ends("next", p, n)' /\ Ends("next", n, x)' /\ Ends("prev", x, n)' /\ Ends("prev", n, p)'
             /\ \A a : a # p /\ a # n => Ends("next", a, next[a])'
             /\ \A a : a # x /\ a # n => Ends("prev", a, prev[a])'
  BY <1>2, AddEnds, SMT
<1>3. ASSUME p = TaskList, x = next[TaskList]
      PROVE  Ring(<<n>> \o s)' /\ x \in Range(s) \union {TaskList}
  <2> DEFINE r == <<n>> \o s
  <2>1. /\ DOMAIN r = 1..(Len(s) + 1) /\ Len(r) = Len(s) + 1
        /\ \A j \in 1..(Len(s) + 1) : r[j] = IF j = 1 THEN n ELSE s[j - 1]
    BY SMT
  <2>2. Range(r) = Range(s) \union {n}
    <3>1. \A e \in Range(r) : e \in Range(s) \union {n}
      BY <1>0, <2>1, SMT DEF Range
    <3>2. n \in Range(r)
      BY <1>0, <2>1, SMT DEF Range
    <3>3. ASSUME NEW i \in DOMAIN s PROVE s[i] \in Range(r)
      <4>1. i + 1 \in DOMAIN r /\ r[i + 1] = s[i]
        BY <1>0, <2>1, SMT
      <4> QED BY <4>1 DEF Range
    <3> QED BY <3>1, <3>2, <3>3, SMT DEF Range
  <2> HIDE DEF r
  <2>3. \A j \in Int : Rth(r, j) = IF j = 1 THEN n ELSE Rth(s, j - 1)
    BY <1>0, <2>1, SMT DEF Rth
  <2>4. x \in Range(s) \union {TaskList} /\ x # n /\ p # n
    BY <1>0, <1>1, <1>3 DEF Rth
  <2>5. Ends("next", TaskList, Rth(r, 1))'
    BY <1>2, <1>3, <2>3, <2>4, SMT
  <2>6. Ends("prev", TaskList, Rth(r, Len(r)))'
    <3>1. CASE Len(s) = 0
      BY <1>0, <1>1, <1>2, <1>3, <2>1, <2>3, <2>4, <3>1, SMT DEF Rth
    <3>2. CASE Len(s) # 0
      <4>1. x # TaskList /\ Rth(r, Len(r)) = Rth(s, Len(s))
        BY <1>0, <1>1, <1>3, <2>1, <2>3, <3>2, SMT DEF Rth
      <4> QED BY <1>0, <1>1, <1>2, <2>4, <4>1, SMT
    <3> QED BY <3>1, <3>2
  <2>7. ASSUME NEW j \in DOMAIN r
        PROVE  Ends("next", r[j], Rth(r, j + 1))' /\ Ends("prev", r[j], Rth(r, j - 1))'
    <3>1. CASE j = 1
      <4>1. r[j] = n /\ Rth(r, j + 1) = x /\ Rth(r, j - 1) = p
        BY <1>0, <1>1, <1>3, <2>1, <2>3, <3>1, SMT DEF Rth
      <4> QED BY <1>2, <2>4, <4>1
    <3>2. CASE j # 1
      <4> DEFINE i == j - 1
      <4>1. i \in DOMAIN s /\ r[j] = s[i]
        BY <1>0, <2>1, <3>2, SMT
      <4>2. Rth(r, j + 1) = Rth(s, i + 1) /\ Rth(r, j - 1) = (IF i = 1 THEN n ELSE Rth(s, i - 1))
        BY <1>0, <2>1, <2>3, <4>1, SMT
      <4>3. s[i] = x <=> i = 1
        BY <1>0, <1>1, <1>3, <4>1 DEF Rth
      <4> HIDE DEF i
      <4>4. next[s[i]] = Rth(s, i + 1) /\ prev[s[i]] = Rth(s, i - 1) /\ s[i] # n /\ s[i] # p
        BY <1>0, <1>1, <1>3, <4>1
      <4> QED BY <1>2, <2>4, <4>1, <4>2, <4>3, <4>4
    <3> QED BY <3>1, <3>2
  <2>8. \A m \in Nodes \ Range(r) : Ends("next", m, m)' /\ Ends("prev", m, m)'
    <3>1. ASSUME NEW m \in Nodes, m \notin Range(r)
          PROVE  m # p /\ m # x /\ m # n /\ next[m] = m /\ prev[m] = m
      BY <1>0, <1>1, <1>3, <2>2, <2>4, <3>1
    <3> QED BY <1>2, <2>4, <3>1
  <2>9. Ring(r)'
    BY <2>5, <2>6, <2>7, <2>8 DEF Ring
  <2> QED BY <2>4, <2>9 DEF r
<1>4. ASSUME p = prev[TaskList], x = TaskList
      PROVE  Ring(Append(s, n))' /\ p \in Range(s) \union {TaskList}
  <2> DEFINE r == Append(s, n)
  <2>1. /\ DOMAIN r = 1..(Len(s) + 1) /\ Len(r) = Len(s) + 1
        /\ \A j \in 1..(Len(s) + 1) : r[j] = IF j = Len(s) + 1 THEN n ELSE s[j]
    BY SMT
  <2>2. Range(r) = Range(s) \union {n}
    <3>1. \A e \in Range(r) : e \in Range(s) \union {n}
      BY <1>0, <2>1, SMT DEF Range
    <3>2. n \in Range(r)
      BY <1>0, <2>1, SMT DEF Range
    <3>3. ASSUME NEW i \in DOMAIN s PROVE s[i] \in Range(r)
      <4>1. i \in DOMAIN r /\ r[i] = s[i]
        BY <1>0, <2>1, SMT
      <4> QED BY <4>1 DEF Range
    <3> QED BY <3>1, <3>2, <3>3, SMT DEF Range
  <2> HIDE DEF r
  <2>3. \A j \in Int : Rth(r, j) = IF j = Len(s) + 1 THEN n ELSE Rth(s, j)
    BY <1>0, <2>1, SMT DEF Rth
  <2>4. p \in Range(s) \union {TaskList} /\ x # n /\ p # n
    BY <1>0, <1>1, <1>4 DEF Rth
  <2>5. Ends("prev", TaskList, Rth(r, Len(r)))'
    BY <1>0, <1>2, <1>4, <2>1, <2>3, <2>4, SMT
  <2>6. Ends("next", TaskList, Rth(r, 1))'
    <3>1. CASE Len(s) = 0
      BY <1>0, <1>1, <1>2, <1>4, <2>1, <2>3, <2>4, <3>1, SMT DEF Rth
    <3>2. CASE Len(s) # 0
      <4>1. p # TaskList /\ Rth(r, 1) = Rth(s, 1)
        BY <1>0, <1>1, <1>4, <2>1, <2>3, <3>2, SMT DEF Rth
      <4> QED BY <1>0, <1>1, <1>2, <2>4, <4>1, SMT
    <3> QED BY <3>1, <3>2
  <2>7. ASSUME NEW j \in DOMAIN r
        PROVE  Ends("next", r[j], Rth(r, j + 1))' /\ Ends("prev", r[j], Rth(r, j - 1))'
    <3>1. CASE j = Len(s) + 1
      <4>1. r[j] = n /\ Rth(r, j + 1) = x /\ Rth(r, j - 1) = p
        BY <1>0, <1>1, <1>4, <2>1, <2>3, <3>1, SMT DEF Rth
      <4> QED BY <1>2, <2>4, <4>1
    <3>2. CASE j # Len(s) + 1
      <4>1. j \in DOMAIN s /\ r[j] = s[j]
        BY <1>0, <2>1, <3>2, SMT
      <4>2. Rth(r, j - 1) = Rth(s, j - 1) /\ Rth(r, j + 1) = (IF j = Len(s) THEN n ELSE Rth(s, j + 1))
        BY <1>0, <2>1, <2>3, <4>1, SMT
      <4>3. s[j] = p <=> j = Len(s)
        BY <1>0, <1>1, <1>4, <4>1 DEF Rth
      <4>4. next[s[j]] = Rth(s, j + 1) /\ prev[s[j]] = Rth(s, j - 1) /\ s[j] # n /\ s[j] # x
        BY <1>0, <1>1, <1>4, <4>1
      <4> QED BY <1>2, <2>4, <4>1, <4>2, <4>3, <4>4
    <3> QED BY <3>1, <3>2
  <2>8. \A m \in Nodes \ Range(r) : Ends("next", m, m)' /\ Ends("prev", m, m)'
    <3>1. ASSUME NEW m \in Nodes, m \notin Range(r)
          PROVE  m # p /\ m # x /\ m # n /\ next[m] = m /\ prev[m] = m
      BY <1>0, <1>1, <1>4, <2>2, <2>4, <3>1
    <3> QED BY <1>2, <2>4, <3>1
  <2>9. Ring(r)'
    BY <2>5, <2>6, <2>7, <2>8 DEF Ring
  <2> QED BY <2>4, <2>9 DEF r
<1> QED BY <1>3, <1>4

\* An entry is added, at either end.
LEMMA AddStep ==
  ASSUME ListInv, NEW n \in Nodes, List!Add(n) \/ List!AddTail(n)
  PROVE  ListInv'
<1>0. ListTypes /\ Ring(list) /\ ListLockOK /\ MembersOK /\ TodoOK /\ LeaversOK
  BY DEF ListInv
<1>1. PICK s \in Seq(Nodes) : s = list
  BY <1>0 DEF ListTypes
<1>2. /\ owner[n] = "idle" /\ qlock = None /\ todo = <<>> /\ qlock' = n
      /\ owner' = [owner EXCEPT ![n] = "linking"] /\ UNCHANGED <<next, prev>>
  BY <1>0 DEF List!Add, List!AddTail, ListLockOK
<1>3. n \notin Range(s)
  BY <1>0, <1>1, <1>2 DEF MembersOK
<1>4. PICK p \in List!Heads, x \in List!Heads : /\ todo' = List!AddStores(n, p, x) /\ Ring(list)'
             /\ {p, x} \subseteq Range(s) \union {TaskList}
             /\ Range(list') = Range(s) \union {n} /\ list' \in Seq(Nodes) /\ IsInjective(list')
  <2>0. {TaskList} \union Range(s) \subseteq List!Heads /\ TaskList \in List!Heads
    BY SMT DEF List!Heads, Range
  <2>1. CASE List!Add(n)
    <3>1. PICK x \in Pointers : x = next[TaskList]
      BY <1>0, <2>0 DEF ListTypes
    <3>2. todo' = List!AddStores(n, TaskList, x) /\ list' = <<n>> \o s
      BY <1>1, <2>1, <3>1 DEF List!Add
    <3>3. Ring(<<n>> \o s)' /\ x \in Range(s) \union {TaskList}
      BY <1>0, <1>1, <1>2, <1>3, <3>1, <3>2, RingAdd
    <3>4. Range(<<n>> \o s) = Range(s) \union {n} /\ <<n>> \o s \in Seq(Nodes) /\ IsInjective(<<n>> \o s)
      BY <1>0, <1>1, <1>3, RngCons, SMT DEF ListTypes
    <3> QED BY <2>0, <3>2, <3>3, <3>4 DEF Ring
  <2>2. CASE List!AddTail(n)
    <3>1. PICK p \in Pointers : p = prev[TaskList]
      BY <1>0, <2>0 DEF ListTypes
    <3>2. todo' = List!AddStores(n, p, TaskList) /\ list' = Append(s, n)
      BY <1>1, <2>2, <3>1 DEF List!AddTail
    <3>3. Ring(Append(s, n))' /\ p \in Range(s) \union {TaskList}
      BY <1>0, <1>1, <1>2, <1>3, <3>1, <3>2, RingAdd
    <3>4. /\ Range(Append(s, n)) = Range(s) \union {n} /\ Append(s, n) \in Seq(Nodes)
          /\ IsInjective(Append(s, n))
      BY <1>0, <1>1, <1>3, RngAppend, SMT DEF ListTypes
    <3> QED BY <2>0, <3>2, <3>3, <3>4 DEF Ring
  <2> QED BY <2>1, <2>2
<1>5. n # p /\ n # x /\ n \in List!Heads /\ \A m \in Range(s) : m \in Nodes /\ m # n
  BY <1>3, <1>4, NodesAssumption, SMT DEF List!Heads, Range
<1>6. /\ DOMAIN todo' = 1..4
      /\ \A i \in 1..4 : /\ todo'[i].node \in {n, p, x}
                         /\ todo'[i].field = "next" => todo'[i].value # todo'[i].node
  BY <1>2, <1>4, <1>5, AddEnds
<1>7. ListTypes'
  <2>1. todo' \in Seq(Stores)
    BY <1>4, <1>5, SMT DEF List!AddStores, List!Store, Stores, Pointers
  <2> QED BY <1>0, <1>2, <1>4, <2>1 DEF ListTypes
<1>8. ListLockOK'
  <2>1. \A m \in Nodes : owner[m] \notin {"linking", "unlinking"}
    BY <1>0, <1>2, ListAssumption DEF ListLockOK
  <2> QED BY <1>0, <1>2, <2>1, ListAssumption DEF ListLockOK, ListTypes
<1>9. MembersOK'
  BY <1>0, <1>1, <1>2, <1>4, <1>5 DEF MembersOK, ListTypes
<1>10. TodoOK'
  <2>1. \A m \in {n, p, x} : m \in Nodes => owner'[m] # "idle"
    BY <1>0, <1>1, <1>2, <1>4, <1>5, NodesAssumption DEF MembersOK, ListTypes
  <2> QED BY <1>6, <2>1 DEF TodoOK
<1>11. LeaversOK'
  BY <1>4, <1>6, NodesAssumption DEF LeaversOK
<1> QED BY <1>4, <1>7, <1>8, <1>9, <1>10, <1>11 DEF ListInv

\* An entry is taken off, by its owner or by a waker.
LEMMA DelStep ==
  ASSUME ListInv, NEW n \in Nodes, (List!Delete(n) \/ \E w \in Wakers : List!Wake(w) /\ n = next[TaskList])
  PROVE  ListInv'
<1>0. ListTypes /\ Ring(list) /\ ListLockOK /\ MembersOK /\ TodoOK /\ LeaversOK
  BY DEF ListInv
<1>1. PICK s \in Seq(Nodes) : s = list
  BY <1>0 DEF ListTypes
<1>a. PICK p \in Pointers : p = prev[n]
  BY <1>0 DEF ListTypes, List!Heads
<1>b. PICK x \in Pointers : x = next[n]
  BY <1>0 DEF ListTypes, List!Heads
<1>2. todo = <<>> /\ todo' = Unlinks(n, p, x) /\ list' = Del(s, n) /\ UNCHANGED <<next, prev>>
  BY <1>0, <1>1, <1>a, <1>b, SameLists DEF List!Delete, List!Wake, List!DelStores, Unlinks, ListLockOK
<1>3. /\ Ring(Del(s, n))' /\ (p = n <=> x = n) /\ (p = n <=> n \notin Range(s))
      /\ {p, x} \subseteq (Range(s) \ {n}) \union {n, TaskList}
      /\ p \in Range(s) \ {n} => p # x
  BY <1>0, <1>1, <1>2, <1>a, <1>b, RingDel, SMT
<1>4. Ring(list)'
  BY <1>2, <1>3 DEF Ring
<1>5. /\ DOMAIN todo' = 1..6
      /\ \A i \in 1..6 : /\ todo'[i].node \in {n, p, x}
                         /\ todo'[i].field = "next" /\ todo'[i].node # n =>
                              todo'[i].node = p /\ todo'[i].value = x
  BY <1>2, <1>3, DelEnds, SMTT(30)
<1>6. Range(list') = Range(s) \ {n} /\ list' \in Seq(Nodes) /\ IsInjective(list')
  <2>1. IsInjective(s)
    BY <1>0, <1>1 DEF ListTypes
  <2> QED BY <1>2, <2>1, RngDel
<1>7. /\ qlock' \in Nodes \union Wakers /\ DOMAIN owner' = Nodes
      /\ \A m \in Nodes : owner'[m] = owner[m] \/ (m = n /\ qlock' = n /\ owner'[m] = "unlinking")
      /\ \A m \in Nodes : owner[m] \notin {"linking", "unlinking"}
      /\ owner'[n] # "idle" /\ (owner'[n] \in {"linked", "careful"} => n \in Range(s))
  <2>1. CASE List!Delete(n)
    BY <1>0, <2>1, ListAssumption DEF List!Delete, ListTypes, ListLockOK
  <2>2. ASSUME NEW w \in Wakers, List!Wake(w), n = next[TaskList] PROVE <1>7
    <3>1. next[TaskList] = Rth(s, 1) /\ Rth(s, 1) # TaskList
      BY <1>0, <1>1, <1>2, <2>2, NothingToDo DEF List!Wake, Ring
    <3>2. n \in Range(s)
      BY <2>2, <3>1 DEF Rth, Range
    <3>3. \A m \in Nodes : owner[m] \notin {"linking", "unlinking"}
      BY <1>0, <2>2, ListAssumption, NodesAssumption DEF List!Wake, ListLockOK
    <3> QED BY <1>0, <1>1, <2>2, <3>2, <3>3 DEF List!Wake, ListTypes, MembersOK
  <2> QED BY <2>1, <2>2
<1>8. ListTypes'
  <2>1. {p, x, n} \subseteq List!Heads
    BY <1>3, SMT DEF List!Heads, Range
  <2>2. todo' \in Seq(Stores)
    BY <1>2, <2>1, SMT DEF Unlinks, List!Store, Stores, Pointers
  <2>3. owner' \in [Nodes -> {"idle", "linking", "linked", "careful", "delete", "unlinking"}]
    BY <1>0, <1>7 DEF ListTypes, List!Delete, List!Wake
  <2> QED BY <1>0, <1>2, <1>6, <1>7, <2>2, <2>3 DEF ListTypes
<1>9. ListLockOK'
  BY <1>7, ListAssumption DEF ListLockOK
<1>10. MembersOK'
  <2>1. \A m \in Range(list') : m \in Nodes /\ m \in Range(list) /\ m # n
    BY <1>1, <1>6, SMT DEF Range
  <2> QED BY <1>0, <1>2, <1>7, <2>1 DEF MembersOK
<1>11. TodoOK'
  <2>1. \A m \in {n, p, x} : m \in Nodes => owner'[m] # "idle"
    BY <1>0, <1>1, <1>3, <1>7, NodesAssumption DEF MembersOK
  <2> QED BY <1>3, <1>5, <1>6, <2>1 DEF TodoOK
<1>12. LeaversOK'
  <2> SUFFICES ASSUME NEW m \in Nodes, m \notin Range(list'), owner'[m] \in {"linked", "careful"},
                      \E i \in DOMAIN todo' : todo'[i].node = m
               PROVE  Leaving(m)'
    BY DEF LeaversOK
  <2>1. m = n
    BY <1>3, <1>5, <1>6, NodesAssumption
  <2>2. n \in Range(s) /\ p # n /\ x # n /\ owner'[n] = "linked"
    BY <1>0, <1>1, <1>3, <1>7, <2>1 DEF MembersOK
  <2>3. prev'[n] # n /\ next'[n] # n /\ Len(todo') = 6
    BY <1>2, <1>a, <1>b, <2>2 DEF Unlinks
  <2>4. p \in List!Heads \ {n} /\ x \in List!Heads \ {n}
    BY <1>3, <2>2, SMTT(30) DEF List!Heads, Range
  <2>5. \A i \in DOMAIN todo' : todo'[i] = Unlinks(n, p, x)[i + 6 - Len(todo')]
    <3>1. \A i \in 1..6 : i + 6 - 6 = i
      BY SMT
    <3> QED BY <1>2, <1>5, <2>3, <3>1
  <2> QED BY <2>1, <2>2, <2>3, <2>4, <2>5, SMT DEF Leaving, Unlinks
<1> QED BY <1>4, <1>8, <1>9, <1>10, <1>11, <1>12 DEF ListInv

\* One store of the operation in progress.
LEMMA StoreStep ==
  ASSUME ListInv, List!DoStore
  PROVE  ListInv'
<1>0. ListTypes /\ Ring(list) /\ ListLockOK /\ MembersOK /\ TodoOK /\ LeaversOK
  BY DEF ListInv
<1>1. /\ todo # <<>> /\ todo' = Tail(todo) /\ UNCHANGED <<qlock, owner, list>>
      /\ Len(todo) \in Nat \ {0} /\ Len(todo') = Len(todo) - 1
      /\ DOMAIN todo = 1..Len(todo) /\ DOMAIN todo' = 1..(Len(todo) - 1)
      /\ \A i \in 1..(Len(todo) - 1) : todo'[i] = todo[i + 1]
      /\ Head(todo) = todo[1] /\ todo[1] \in Stores /\ todo' \in Seq(Stores)
  <2>1. todo # <<>> /\ todo' = Tail(todo) /\ UNCHANGED <<qlock, owner, list>> /\ todo \in Seq(Stores)
    BY <1>0 DEF ListTypes, List!DoStore
  <2> QED BY <2>1, SMT
<1>2. /\ next' \in [List!Heads -> Pointers] /\ prev' \in [List!Heads -> Pointers]
      /\ \A a \in List!Heads :
           /\ next'[a] = IF todo[1].field = "next" /\ todo[1].node = a THEN todo[1].value ELSE next[a]
           /\ prev'[a] = IF todo[1].field = "prev" /\ todo[1].node = a THEN todo[1].value ELSE prev[a]
  <2>0. todo[1].node \in List!Heads /\ todo[1].value \in Pointers
    BY <1>1 DEF Stores
  <2>1. CASE todo[1].field = "next"
    <3>1. next' = [next EXCEPT ![todo[1].node] = todo[1].value] /\ prev' = prev
      BY <1>1, <2>1 DEF List!DoStore
    <3> QED BY <1>0, <2>0, <2>1, <3>1 DEF ListTypes
  <2>2. CASE todo[1].field = "prev"
    <3>1. prev' = [prev EXCEPT ![todo[1].node] = todo[1].value] /\ next' = next
      BY <1>1, <2>2 DEF List!DoStore
    <3> QED BY <1>0, <2>0, <2>2, <3>1 DEF ListTypes
  <2>3. todo[1].field \in {"next", "prev"}
    BY <1>1 DEF Stores
  <2> QED BY <2>1, <2>2, <2>3
<1>3. ListTypes'
  BY <1>0, <1>1, <1>2 DEF ListTypes
<1>4. Ring(list)'
  <2>1. PICK s \in Seq(Nodes) : s = list
    BY <1>0 DEF ListTypes
  <2>2. /\ \A v : \A a \in List!Heads : Ends("next", a, v) => Ends("next", a, v)'
        /\ \A v : \A a \in List!Heads : Ends("prev", a, v) => Ends("prev", a, v)'
    BY <1>0, StoreEnds
  <2>3. TaskList \in List!Heads /\ Nodes \subseteq List!Heads /\ \A i \in DOMAIN s : s[i] \in List!Heads
    BY SMT DEF List!Heads
  <2>4. Ring(s)
    BY <1>0, <2>1
  <2>5. Ring(s)'
    BY <2>2, <2>3, <2>4 DEF Ring
  <2> QED BY <1>1, <2>1, <2>5 DEF Ring
<1>5. ListLockOK'
  BY <1>0, <1>1 DEF ListLockOK
<1>6. MembersOK'
  <2>1. \A n \in Range(list) : n \in List!Heads
    BY <1>0, SMT DEF ListTypes, Range, List!Heads
  <2> QED BY <1>0, <1>1, <1>2, <2>1, SMT DEF MembersOK, TodoOK
<1>7. \A i \in DOMAIN todo' : i + 1 \in DOMAIN todo /\ todo'[i] = todo[i + 1]
  BY <1>1, SMT
<1>8. TodoOK'
  BY <1>0, <1>1, <1>7, SMT DEF TodoOK
<1>9. LeaversOK'
  <2> SUFFICES ASSUME NEW n \in Nodes, n \notin Range(list), owner[n] \in {"linked", "careful"},
                      \E i \in DOMAIN todo' : todo'[i].node = n
               PROVE  Leaving(n)'
    BY <1>1 DEF LeaversOK
  <2>1. Leaving(n)
    BY <1>0, <1>7 DEF LeaversOK
  <2>a. /\ prev[n] # n /\ (Len(todo) > 1 => next[n] # n) /\ (owner[n] = "careful" => Len(todo) = 1)
        /\ Len(todo) <= 6
    BY <2>1 DEF Leaving
  <2>2. Len(todo) \in 2..6 /\ n \in List!Heads
    <3>1. PICK i \in 1..(Len(todo) - 1) : TRUE
      BY <1>1
    <3>2. Len(todo) >= 2
      BY <1>1, <3>1, SMT
    <3>3. \A l \in Nat \ {0} : l >= 2 /\ l <= 6 => l \in 2..6
      BY SMT
    <3>4. Len(todo) \in 2..6
      BY <1>1, <2>a, <3>2, <3>3
    <3> QED BY <3>4 DEF List!Heads
  <2>3. PICK p \in List!Heads \ {n}, x \in List!Heads \ {n} :
          \A i \in DOMAIN todo : todo[i] = Unlinks(n, p, x)[i + 6 - Len(todo)]
    BY <2>1 DEF Leaving
  <2>4. ASSUME NEW i \in DOMAIN todo' PROVE todo'[i] = Unlinks(n, p, x)[i + 6 - Len(todo')]
    <3>1. (i + 1) + 6 - Len(todo) = i + 6 - Len(todo')
      BY <1>1, SMT
    <3> QED BY <1>7, <2>3, <3>1
  <2>5. todo[1] = Unlinks(n, p, x)[7 - Len(todo)]
    <3>1. 1 \in DOMAIN todo /\ 1 + 6 - Len(todo) = 7 - Len(todo)
      BY <1>1, SMT
    <3> QED BY <2>3, <3>1
  <2>6. prev'[n] # n /\ (Len(todo') > 1 => next'[n] # n)
    <3>0. Len(todo) > 1 /\ prev[n] # n /\ next[n] # n
      <4>1. \A l \in 2..6 : l > 1
        BY SMT
      <4> QED BY <2>2, <2>a, <4>1
    <3>1. CASE Len(todo) \in {5, 6}
      <4>1. todo[1] = List!Store("prev", x, p) \/ todo[1] = List!Store("next", p, x)
        <5>1. CASE Len(todo) = 5
          BY <2>5, <5>1, SMT DEF Unlinks
        <5>2. CASE Len(todo) = 6
          BY <2>5, <5>2, SMT DEF Unlinks
        <5> QED BY <3>1, <5>1, <5>2
      <4>2. todo[1].node # n
        BY <2>3, <4>1, SMT DEF List!Store
      <4> QED BY <1>2, <2>2, <3>0, <4>2
    <3>2. CASE Len(todo) = 4
      <4>1. todo[1].field = "next" /\ todo[1].value = List!Poison
        BY <2>5, <3>2, SMT DEF Unlinks, List!Store
      <4> QED BY <1>2, <2>2, <3>0, <4>1, NodesAssumption, SMT DEF List!Poison
    <3>3. CASE Len(todo) = 3
      <4>1. todo[1].field = "prev" /\ todo[1].value = List!Poison
        BY <2>5, <3>3, SMT DEF Unlinks, List!Store
      <4> QED BY <1>2, <2>2, <3>0, <4>1, NodesAssumption, SMT DEF List!Poison
    <3>4. CASE Len(todo) = 2
      <4>1. todo[1].field = "next"
        BY <2>5, <3>4, SMT DEF Unlinks, List!Store
      <4> QED BY <1>1, <1>2, <2>2, <3>0, <3>4, <4>1, SMT
    <3> QED BY <2>2, <3>1, <3>2, <3>3, <3>4, SMT
  <2>7. Len(todo') <= 6 /\ (owner'[n] = "careful" => Len(todo') = 1)
    BY <1>1, <2>2, <2>a, SMT
  <2> QED BY <2>3, <2>4, <2>6, <2>7 DEF Leaving, Unlinks
<1> QED BY <1>3, <1>4, <1>5, <1>6, <1>8, <1>9 DEF ListInv

\* is_empty_careful(), which looks at an entry without the lock.
LEMMA CarefulStep ==
  ASSUME ListInv, NEW n \in Nodes, List!CarefulNext(n) \/ List!CarefulPrev(n)
  PROVE  ListInv'
<1>0. ListTypes /\ Ring(list) /\ ListLockOK /\ MembersOK /\ TodoOK /\ LeaversOK
  BY DEF ListInv
<1>1. /\ UNCHANGED <<next, prev, qlock, todo, list>> /\ owner[n] \in {"linked", "careful"}
      /\ \A m \in Nodes \ {n} : owner'[m] = owner[m]
      /\ owner' \in [Nodes -> {"idle", "linking", "linked", "careful", "delete", "unlinking"}]
      /\ owner'[n] \in {"careful", "delete", "idle"}
      /\ owner'[n] = "careful" => owner[n] = "linked" /\ next[n] = n
      /\ owner'[n] = "idle" => owner[n] = "careful" /\ prev[n] = n
  BY <1>0 DEF List!CarefulNext, List!CarefulPrev, ListTypes
<1>2. ListTypes' /\ ListLockOK'
  BY <1>0, <1>1 DEF ListTypes, ListLockOK
<1>3. Ring(list)'
  BY <1>0, <1>1, PointersStay
<1>4. n \in Range(list) => owner'[n] = "delete"
  BY <1>0, <1>1 DEF MembersOK
<1>5. MembersOK'
  <2>1. \A m \in Range(list) : m \in Nodes
    BY <1>0, SMT DEF ListTypes, Range
  <2> QED BY <1>0, <1>1, <1>4, <2>1 DEF MembersOK
<1>6. TodoOK'
  <2>1. ASSUME NEW i \in DOMAIN todo, todo[i].node = n PROVE owner'[n] # "idle"
    <3>1. owner'[n] = "idle" => Leaving(n)
      BY <1>0, <1>1, <1>4, <2>1 DEF LeaversOK
    <3> QED BY <1>1, <3>1 DEF Leaving
  <2> QED BY <1>0, <1>1, <2>1 DEF TodoOK
<1>7. LeaversOK'
  <2> SUFFICES ASSUME NEW m \in Nodes, m \notin Range(list), owner'[m] \in {"linked", "careful"},
                      \E i \in DOMAIN todo : todo[i].node = m
               PROVE  Leaving(m)'
    BY <1>1 DEF LeaversOK
  <2>1. owner[m] \in {"linked", "careful"} /\ Leaving(m)
    BY <1>0, <1>1 DEF LeaversOK
  <2>2. owner'[m] = "careful" => Len(todo) = 1
    <3>1. CASE m # n
      BY <1>1, <2>1, <3>1 DEF Leaving
    <3>2. CASE m = n
      <4>1. Len(todo) \in Nat \ {0}
        BY <1>0, SMT DEF ListTypes
      <4>2. Len(todo) > 1 => next[n] # n
        BY <2>1, <3>2 DEF Leaving
      <4>3. owner'[n] = "careful" => ~ Len(todo) > 1
        BY <1>1, <4>2
      <4>4. ~ Len(todo) > 1 => Len(todo) = 1
        <5>1. \A l \in Nat \ {0} : ~ l > 1 => l = 1
          BY SMT
        <5> QED BY <4>1, <5>1
      <4> QED BY <3>2, <4>3, <4>4
    <3> QED BY <3>1, <3>2
  <2> QED BY <1>1, <2>1, <2>2, SMT DEF Leaving
<1> QED BY <1>2, <1>3, <1>5, <1>6, <1>7 DEF ListInv

\* The operation is over: an entry that was added is linked.
LEMMA UnlockStep ==
  ASSUME ListInv, List!Unlock
  PROVE  ListInv'
<1>0. ListTypes /\ Ring(list) /\ ListLockOK /\ MembersOK /\ TodoOK /\ LeaversOK
  BY DEF ListInv
<1>1. /\ UNCHANGED <<next, prev, todo, list>> /\ qlock # None /\ qlock' = None /\ todo = <<>>
      /\ owner' = [n \in Nodes |-> CASE n = qlock /\ owner[n] = "linking" -> "linked"
                                 [] n = qlock /\ owner[n] = "unlinking" -> "idle"
                                 [] OTHER -> owner[n]]
  BY DEF List!Unlock
<1>2. \A n \in Nodes : \/ owner'[n] = owner[n] /\ owner[n] \notin {"linking", "unlinking"}
                       \/ owner[n] = "linking" /\ owner'[n] = "linked"
                       \/ owner[n] = "unlinking" /\ owner'[n] = "idle"
  BY <1>0, <1>1 DEF ListLockOK
<1>3. ListTypes'
  <2>1. owner' \in [Nodes -> {"idle", "linking", "linked", "careful", "delete", "unlinking"}]
    <3>1. \A n \in Nodes : owner[n] \in {"idle", "linking", "linked", "careful", "delete", "unlinking"}
      BY <1>0 DEF ListTypes
    <3>2. \A n \in Nodes : owner'[n] \in {"idle", "linking", "linked", "careful", "delete", "unlinking"}
      BY <1>2, <3>1
    <3> QED BY <1>1, <3>2
  <2> QED BY <1>0, <1>1, <2>1 DEF ListTypes
<1>4. Ring(list)'
  BY <1>0, <1>1, PointersStay
<1>5. ListLockOK'
  BY <1>1, <1>2 DEF ListLockOK
<1>6. MembersOK'
  <2> SUFFICES ASSUME NEW n \in Range(list)
               PROVE  owner'[n] \in {"linking", "linked", "delete"} /\ next[n] # n
    BY <1>1 DEF MembersOK
  <2>1. PICK s \in Seq(Nodes) : s = list
    BY <1>0 DEF ListTypes
  <2>2. PICK k \in DOMAIN s : s[k] = n
    BY <2>1 DEF Range
  <2>3. next[n] = Rth(s, k + 1) /\ n \in Nodes
    BY <1>0, <1>1, <2>1, <2>2, NothingToDo, SMT DEF Ring
  <2>4. Rth(s, k + 1) # n
    BY <1>0, <2>1, <2>2, RingOrder DEF ListTypes
  <2> QED BY <1>0, <1>2, <2>3, <2>4 DEF MembersOK
<1>7. TodoOK' /\ LeaversOK'
  BY <1>1, SMT DEF TodoOK, LeaversOK
<1> QED BY <1>3, <1>4, <1>5, <1>6, <1>7 DEF ListInv

\* The list of a wait queue, with any number of entries and wakers: whenever the
\* lock is free the pointers are those of the list, and an entry that
\* is_empty_careful() let go, unlocked and perhaps in the middle of a waker's
\* del_init(), is on no list and will not be written to.
THEOREM CarefulIsSafe == List!Spec => []ListIsExact
<1>1. List!Init => ListInv
  <2> SUFFICES ASSUME List!Init PROVE ListInv
    OBVIOUS
  <2>1. ListTypes
    BY ListAssumption, SMT DEF List!Init, ListTypes, IsInjective, Pointers, List!Heads
  <2>2. todo = <<>> /\ list = <<>> /\ Range(list) = {} /\ \A n \in Nodes : owner[n] = "idle"
    BY SMT DEF List!Init, Range
  <2>3. /\ next[TaskList] = TaskList /\ prev[TaskList] = TaskList
        /\ \A n \in Nodes : next[n] = n /\ prev[n] = n
    BY DEF List!Init, List!Heads
  <2>4. Ring(list)
    BY <2>2, <2>3, NothingToDo, SMT DEF Ring, Rth
  <2> QED BY <2>1, <2>2, <2>4, SMT DEF ListInv, ListLockOK, MembersOK, TodoOK, LeaversOK
<1>2. ListInv /\ [List!Next]_(List!vars) => ListInv'
  <2> SUFFICES ASSUME ListInv, [List!Next]_(List!vars) PROVE ListInv'
    OBVIOUS
  <2>1. CASE UNCHANGED List!vars
    <3>0. UNCHANGED <<next, prev, qlock, todo, owner, list>>
      BY <2>1 DEF List!vars
    <3>1. ListTypes' /\ ListLockOK' /\ MembersOK' /\ TodoOK'
      BY <3>0 DEF ListInv, ListTypes, ListLockOK, MembersOK, TodoOK
    <3>2. Ring(list)'
      BY <3>0, PointersStay DEF ListInv
    <3>3. \A n : Leaving(n) => Leaving(n)'
      <4> SUFFICES ASSUME NEW n, Leaving(n) PROVE Leaving(n)'
        OBVIOUS
      <4>1. PICK p, x \in List!Heads \ {n} :
               \A i \in DOMAIN todo : todo[i] = Unlinks(n, p, x)[i + 6 - Len(todo)]
        BY DEF Leaving
      <4>2. Unlinks(n, p, x)' = Unlinks(n, p, x)
        BY DEF Unlinks
      <4>3. \A i \in DOMAIN todo' : todo'[i] = Unlinks(n, p, x)'[i + 6 - Len(todo')]
        BY <3>0, <4>1, <4>2
      <4>4. /\ prev'[n] # n /\ (Len(todo') > 1 => next'[n] # n)
            /\ (owner'[n] = "careful" => Len(todo') = 1) /\ Len(todo') <= 6
        BY <3>0 DEF Leaving
      <4> QED BY <4>3, <4>4 DEF Leaving
    <3>4. LeaversOK'
      BY <3>0, <3>3 DEF ListInv, LeaversOK
    <3> QED BY <3>1, <3>2, <3>4 DEF ListInv
  <2>2. ASSUME NEW w \in Wakers, List!Wake(w) PROVE ListInv'
    <3>1. next[TaskList] \in Nodes
      <4>1. todo = <<>> /\ next[TaskList] = Rth(list, 1) /\ next[TaskList] # TaskList
        BY <2>2, NothingToDo DEF List!Wake, ListInv, ListLockOK, Ring
      <4> QED BY <4>1, SMT DEF Rth, ListInv, ListTypes
    <3> QED BY <2>2, <3>1, DelStep
  <2> QED BY <2>1, <2>2, AddStep, DelStep, StoreStep, CarefulStep, UnlockStep DEF List!Next
<1> QED BY <1>1, <1>2, ListHolds, PTL DEF List!Spec

------------------------------------------------------------------------------
(* FifoBuf *)

\* Two sequences with the same entries are the same.
LEMMA SameEntries ==
  ASSUME NEW S, NEW s \in Seq(S), NEW t \in Seq(S), Len(s) = Len(t), \A i \in 1..Len(s) : s[i] = t[i]
  PROVE  s = t
  BY SMT

\* The two counts of fifo_buf.cpp agree: what is not unread is available.
LEMMA CountsAddUp ==
  ASSUME TypeOK
  PROVE  /\ unread \in 0..(Size - 1)
         /\ available = Size - 1 - unread
  BY SizeAssumption, SMT DEF TypeOK, unread, available, Slots

\* What a return, and staying in the call, does to pc, op and ret.
LEMMA ReturnType ==
  ASSUME TypeOK, NEW t \in Threads, NEW n \in Int, NEW to \in Locations,
         Return(t, n) \/ (Goto(t, to) /\ Stay)
  PROVE  /\ pc' \in [Threads -> Locations]
         /\ op' \in [Threads -> [n : Nat, block : BOOLEAN, timed : BOOLEAN]]
         /\ ret' \in [Threads -> Int]
<1>1. NoCall \in [n : Nat, block : BOOLEAN, timed : BOOLEAN] /\ "idle" \in Locations
  BY DEF NoCall, Locations
<1>2. CASE Return(t, n)
  BY <1>1, <1>2 DEF TypeOK, Return, Goto
<1>3. CASE Goto(t, to) /\ Stay
  BY <1>3 DEF TypeOK, Goto, Stay
<1> QED
  BY <1>2, <1>3

\* What a wake-up does to woke.
LEMMA WokenType ==
  ASSUME TypeOK, NEW S, Woken(S)
  PROVE  woke' \in [Threads -> SUBSET {"queue", "timer", "signal"}]
  BY DEF TypeOK, Woken

\* The bytes handed to write(), a function on 1..n, are a sequence.
LEMMA DataIsSeq ==
  ASSUME NEW n \in Nat, NEW data \in [1..n -> Bytes]
  PROVE  data \in Seq(Bytes)
  BY SMT

\* The calls and the lock keep to their types.
THEOREM TypeCorrect == Spec => []TypeOK
<1>1. Init => TypeOK
  <2> SUFFICES ASSUME Init PROVE TypeOK
    OBVIOUS
  <2>1. NoCall \in [n : Nat, block : BOOLEAN, timed : BOOLEAN] /\ "idle" \in Locations
    BY DEF NoCall, Locations
  <2>2. <<>> \in Seq(Bytes) /\ 0 \in Slots
    BY SizeAssumption, SMT DEF Slots
  <2> QED
    BY <2>1, <2>2, SMT DEF Init, TypeOK
<1>2. TypeOK /\ [Next]_vars => TypeOK'
  <2> SUFFICES ASSUME TypeOK, [Next]_vars PROVE TypeOK'
    OBVIOUS
  <2> USE SizeAssumption, CallsAssumption DEF TypeOK
  <2>1. ASSUME NEW t \in Writers, NEW w \in Writes, NEW data \in [1..w.n -> Bytes],
               write(t, w, data)
        PROVE  TypeOK'
    <3>1. w.n \in Nat /\ w.block \in BOOLEAN
      OBVIOUS
    <3>2. data \in Seq(Bytes)
      BY <3>1, DataIsSeq
    <3> QED BY <2>1, <3>1, <3>2, SMT DEF write, Goto, Threads, Locations, ring, queues
  <2>2. ASSUME NEW t \in Threads, NEW from, NEW to \in Locations, Lock(t, from, to)
        PROVE  TypeOK'
    BY <2>2 DEF Lock, Goto, ring, queues
  <2>3. ASSUME NEW t \in Writers, Fill(t) PROVE TypeOK'
    BY <2>3, SMT DEF Fill, queues, Threads, increment, Slots
  <2>4. ASSUME NEW t \in Writers, FillEnd(t) PROVE TypeOK'
    <3>1. t \in Threads
      BY DEF Threads
    <3>2. PICK n \in Int, to \in Locations : Return(t, n) \/ (Goto(t, to) /\ Stay)
      BY <2>4, <3>1, SMT DEF FillEnd, Locations, EAGAIN
    <3> QED
      BY <2>4, <3>1, <3>2, ReturnType, WokenType DEF FillEnd, ring
  <2>5. ASSUME NEW t \in Writers, WriteWait(t) PROVE TypeOK'
    BY <2>5 DEF WriteWait, ring, Goto, Locations, Threads
  <2>6. ASSUME NEW t \in Writers, WriteWoken(t) PROVE TypeOK'
    <3>1. t \in Threads
      BY DEF Threads
    <3>2. PICK n \in Int, to \in Locations : Return(t, n) \/ (Goto(t, to) /\ Stay)
      BY <2>6, <3>1, SMT DEF WriteWoken, Locations, EINTR, ECONNRESET
    <3> QED
      BY <2>6, <3>1, <3>2, ReturnType DEF WriteWoken, ring
  <2>7. ASSUME NEW t \in Threads, Timer(t) \/ Signal(t) PROVE TypeOK'
    <3>1. woke' \in [Threads -> SUBSET {"queue", "timer", "signal"}]
      <4>1. PICK w \in SUBSET {"queue", "timer", "signal"} : woke' = [woke EXCEPT ![t] = w]
        <5>1. woke[t] \in SUBSET {"queue", "timer", "signal"}
          BY DEF TypeOK
        <5>2. /\ (woke[t] \ {"signal"}) \union {"timer"} \in SUBSET {"queue", "timer", "signal"}
              /\ {"signal"} \in SUBSET {"queue", "timer", "signal"}
          BY <5>1
        <5> QED
          BY <2>7, <5>2 DEF Timer, Signal
      <4> QED
        BY <4>1 DEF TypeOK
    <3>2. UNCHANGED <<ring, m_closed, lock, queues, pc, op, left, got, ret>>
      BY <2>7 DEF Timer, Signal
    <3> QED
      BY <3>1, <3>2 DEF ring, queues
  <2>8. ASSUME NEW t \in Readers, NEW r \in Reads, read(t, r) PROVE TypeOK'
    BY <2>8, SMT DEF read, ring, queues, Goto, Locations, Threads
  <2>9. ASSUME NEW t \in Readers, ReadTest(t) PROVE TypeOK'
    <3>1. t \in Threads
      BY DEF Threads
    <3>2. PICK n \in Int, to \in Locations : Return(t, n) \/ (Goto(t, to) /\ Stay)
      BY <2>9, <3>1, SMT DEF ReadTest, Locations, EAGAIN
    <3> QED
      BY <2>9, <3>1, <3>2, ReturnType DEF ReadTest, ring, queues
  <2>10. ASSUME NEW t \in Readers, Drain(t) PROVE TypeOK'
    BY <2>10, SMT DEF Drain, queues, increment, Slots, Threads
  <2>11. ASSUME NEW t \in Readers, DrainEnd(t) PROVE TypeOK'
    <3>1. t \in Threads
      BY DEF Threads
    <3>2. PICK n \in Int, to \in Locations : Return(t, n) \/ (Goto(t, to) /\ Stay)
      BY <2>11, <3>1, SMT DEF DrainEnd, Locations
    <3> QED
      BY <2>11, <3>1, <3>2, ReturnType, WokenType, SMTT(20) DEF DrainEnd, ring
  <2>12. ASSUME NEW t \in Readers, ReadWait(t) PROVE TypeOK'
    BY <2>12 DEF ReadWait, ring, Goto, Locations, Threads
  <2>13. ASSUME NEW t \in Readers, ReadWoken(t) PROVE TypeOK'
    <3>1. t \in Threads
      BY DEF Threads
    <3>2. PICK n \in Int, to \in Locations : Return(t, n) \/ (Goto(t, to) /\ Stay)
      BY <2>13, <3>1, SMT DEF ReadWoken, Locations, EINTR, ETIMEDOUT
    <3> QED
      BY <2>13, <3>1, <3>2, ReturnType DEF ReadWoken, ring
  <2>14. ASSUME NEW t \in Closers, close(t) PROVE TypeOK'
    BY <2>14 DEF close, ring, queues, Goto, Locations, Threads
  <2>15. ASSUME NEW t \in Closers, CloseStep(t) PROVE TypeOK'
    <3>1. t \in Threads /\ "close_w" \in Locations
      BY DEF Threads, Locations
    <3>2. CASE CloseReaders(t)
      BY <3>1, <3>2, WokenType DEF CloseReaders, ring, Goto
    <3>3. CASE CloseWriters(t)
      BY <3>1, <3>3, WokenType, ReturnType, SMT DEF CloseWriters, ring
    <3> QED
      BY <2>15, <3>2, <3>3, SMTT(20) DEF CloseStep
  <2>16. CASE UNCHANGED vars
    BY <2>16 DEF vars, ring, queues
  <2> QED
    BY <2>1, <2>2, <2>3, <2>4, <2>5, <2>6, <2>7, <2>8, <2>9, <2>10, <2>11, <2>12, <2>13,
       <2>14, <2>15, <2>16
    DEF Next, Writing, WriteStep, ReadStep, Threads, Locations
<1> QED
  BY <1>1, <1>2, PTL DEF Spec
------------------------------------------------------------------------------
\* The bytes between the pointers of fifo_buf are a sequence of unread() bytes,
\* each in a slot of the ring.
LEMMA ContentsType ==
  ASSUME TypeOK
  PROVE  /\ Contents \in Seq(Bytes)
         /\ Len(Contents) = unread
         /\ \A i \in 1..unread : Nth(i) \in Slots /\ Contents[i] = buffer[Nth(i)]
<1>1. unread \in Nat
  BY CountsAddUp, SizeAssumption, SMT
<1>2. \A i \in 1..unread : Nth(i) \in Slots
  BY CountsAddUp, SizeAssumption, SMT DEF TypeOK, Nth, Slots
<1>3. Contents \in [1..unread -> Bytes]
  BY <1>2 DEF Contents, TypeOK
<1> QED
  BY <1>1, <1>2, <1>3, DataIsSeq, SMT DEF Contents

\* A byte copied into the ring is the last of its contents: the other slots
\* in use are not touched.
LEMMA FillPuts ==
  ASSUME TypeOK, TypeOK', NEW t \in Threads, Fill(t)
  PROVE  Queue!Put
<1>1. unread < Size - 1 /\ unread \in Nat
  BY CountsAddUp, SizeAssumption, SMT DEF Fill, Room
<1>2. unread' = unread + 1
  <2>1. /\ write_ptr' = IF write_ptr + 1 = Size THEN 0 ELSE write_ptr + 1
        /\ read_ptr' = read_ptr
    BY DEF Fill, increment
  <2>2. read_ptr \in 0..(Size - 1) /\ write_ptr \in 0..(Size - 1)
    BY DEF TypeOK, Slots
  <2> QED
    BY <1>1, <2>1, <2>2, SizeAssumption, SMT DEF unread
<1>3. \A i \in 1..unread : Nth(i) # write_ptr
  BY <1>1, SizeAssumption, SMT DEF TypeOK, Nth, unread, Slots
<1>4. Nth(unread + 1) = write_ptr
  BY <1>1, SizeAssumption, SMT DEF TypeOK, Nth, unread, Slots
<1>5. \A i : Nth(i)' = Nth(i)
  BY DEF Fill, Nth
<1>6. PICK b \in Bytes : buffer' = [buffer EXCEPT ![write_ptr] = b]
  BY DEF Fill, TypeOK
<1>7. Contents' = [i \in 1..(unread + 1) |-> buffer'[Nth(i)]]
  BY <1>2, <1>5 DEF Contents
<1>8. \A i \in 1..unread : buffer'[Nth(i)] = Contents[i]
  BY <1>3, <1>6, ContentsType DEF TypeOK
<1>9. buffer'[Nth(unread + 1)] = b
  BY <1>4, <1>6 DEF TypeOK
<1>10. Contents' = Append(Contents, b)
  <2>1. Contents' \in [1..(unread + 1) -> Bytes]
    BY <1>1, <1>7, <1>8, <1>9, ContentsType, SMT
  <2>2. Contents' \in Seq(Bytes) /\ Len(Contents') = unread + 1
    BY <1>1, <2>1, DataIsSeq, SMT
  <2>3. /\ Append(Contents, b) \in Seq(Bytes)
        /\ Len(Append(Contents, b)) = unread + 1
        /\ \A i \in 1..unread : Append(Contents, b)[i] = Contents[i]
        /\ Append(Contents, b)[unread + 1] = b
    BY ContentsType, SMT
  <2>4. \A i \in 1..(unread + 1) : Contents'[i] = Append(Contents, b)[i]
    BY <1>1, <1>7, <1>8, <1>9, <2>3, SMT
  <2> QED
    BY <2>2, <2>3, <2>4, SameEntries
<1> QED
  BY <1>1, <1>10, ContentsType DEF Queue!Put, Fill

\* A byte copied out of the ring is the first of its contents.
LEMMA DrainTakes ==
  ASSUME TypeOK, NEW t \in Threads, Drain(t)
  PROVE  Queue!Take(t)
<1>1. unread \in Nat /\ unread > 0 /\ unread < Size
  BY CountsAddUp, SizeAssumption, SMT DEF Drain, More
<1>2. unread' = unread - 1
  <2>1. /\ read_ptr' = IF read_ptr + 1 = Size THEN 0 ELSE read_ptr + 1
        /\ write_ptr' = write_ptr
    BY DEF Drain, increment
  <2>2. read_ptr \in 0..(Size - 1) /\ write_ptr \in 0..(Size - 1)
    BY DEF TypeOK, Slots
  <2> QED
    BY <1>1, <2>1, <2>2, SizeAssumption, SMT DEF unread
<1>3. \A i \in 1..(unread - 1) : Nth(i)' = Nth(i + 1)
  <2>1. read_ptr' = IF read_ptr + 1 = Size THEN 0 ELSE read_ptr + 1
    BY DEF Drain, increment
  <2>2. read_ptr \in 0..(Size - 1)
    BY DEF TypeOK, Slots
  <2> QED
    BY <1>1, <2>1, <2>2, SizeAssumption, SMT DEF Nth
<1>4. Nth(1) = read_ptr
  BY SizeAssumption, SMT DEF TypeOK, Nth, Slots
<1>5. Contents # <<>> /\ Head(Contents) = buffer[read_ptr]
  BY <1>1, <1>4, ContentsType, SMT
<1>6. Contents' = [i \in 1..(unread - 1) |-> buffer[Nth(i + 1)]]
  BY <1>2, <1>3 DEF Contents, Drain
<1>7. \A i \in 1..(unread - 1) : Contents[i + 1] = buffer[Nth(i + 1)]
  BY <1>1, ContentsType, SMTT(30)
<1>8. /\ Tail(Contents) \in Seq(Bytes)
      /\ Len(Tail(Contents)) = unread - 1
      /\ \A i \in 1..(unread - 1) : Tail(Contents)[i] = Contents[i + 1]
  BY <1>5, ContentsType, SMT
<1>9. Contents' = Tail(Contents)
  <2>1. Contents' \in [1..(unread - 1) -> Bytes]
    BY <1>1, <1>6, <1>7, ContentsType, SMT
  <2>2. Contents' \in Seq(Bytes) /\ Len(Contents') = unread - 1
    BY <1>1, <2>1, DataIsSeq, SMT
  <2>3. \A i \in 1..(unread - 1) : Contents'[i] = Tail(Contents)[i]
    BY <1>6, <1>7, <1>8
  <2> QED
    BY <1>8, <2>2, <2>3, SameEntries
<1> QED
  BY <1>5, <1>9 DEF Queue!Take, Drain

\* fifo_buf implements a bounded queue of bytes, for every m_size, any number
\* of writers, readers and closers, and any mix of their calls.
THEOREM RingIsByteQueue == Spec => ImplementsByteQueue
<1>1. Init => Queue!Init
  <2> SUFFICES ASSUME Init PROVE Queue!Init
    OBVIOUS
  <2>1. unread = 0
    BY DEF Init, unread
  <2>2. Contents = <<>>
    BY <2>1, SMT DEF Contents
  <2> QED
    BY <2>2 DEF Init, Queue!Init
<1>2. TypeOK /\ TypeOK' /\ [Next]_vars => [Queue!Next]_<<Contents, got>>
  <2> SUFFICES ASSUME TypeOK, TypeOK', [Next]_vars
               PROVE  Queue!Next \/ UNCHANGED <<Contents, got>>
    OBVIOUS
  <2>1. ASSUME UNCHANGED ring PROVE Contents' = Contents
    <3>1. read_ptr' = read_ptr /\ write_ptr' = write_ptr /\ buffer' = buffer
      BY <2>1 DEF ring
    <3>2. unread' = unread /\ \A i : Nth(i)' = Nth(i)
      BY <3>1 DEF unread, Nth
    <3> QED
      BY <3>1, <3>2 DEF Contents
  <2>2. ASSUME NEW t \in Writers, Fill(t) PROVE Queue!Next
    BY <2>2, FillPuts DEF Threads, Queue!Next
  <2>3. ASSUME NEW t \in Readers, Drain(t) PROVE Queue!Next
    BY <2>3, DrainTakes DEF Threads, Queue!Next
  <2>4. ASSUME NEW t \in Readers, NEW r \in Reads, read(t, r) PROVE Queue!Next
    BY <2>1, <2>4 DEF read, Threads, Queue!Next, Queue!StartRead
  <2>5. CASE UNCHANGED <<ring, got>>
    BY <2>1, <2>5
  <2>6. [Next]_vars =>
          \/ \E t \in Writers : Fill(t)
          \/ \E t \in Readers : Drain(t) \/ \E r \in Reads : read(t, r)
          \/ UNCHANGED <<ring, got>>
    BY DEF Next, vars, Writing, WriteStep, ReadStep, CloseStep, write, Lock, FillEnd,
           WriteWait, WriteWoken, Timer, Signal, ReadTest, DrainEnd, ReadWait, ReadWoken,
           close, CloseReaders, CloseWriters
  <2> QED
    BY <2>2, <2>3, <2>4, <2>5, <2>6
<1> QED
  BY <1>1, <1>2, TypeCorrect, PTL DEF Spec, ImplementsByteQueue, Queue!Spec

------------------------------------------------------------------------------
(* CKIPC sockets *)

\* The types that matter for what arrives.
IpcTypes ==
  /\ msgs \in [Ipc!States -> Seq(Nat)] /\ received \in [Ipc!States -> Seq(Nat)]
  /\ sent \in [Ipc!States -> Nat] /\ closed \in [Ipc!States -> BOOLEAN]

\* A message more is queued.
LEMMA QueueOne ==
  ASSUME NEW s \in Seq(Nat), NEW q \in Seq(Nat), NEW m \in Nat
  PROVE  s \o Append(q, m) = Append(s \o q, m)
<1> DEFINE a == s \o Append(q, m)
           b == Append(s \o q, m)
<1>1. a \in Seq(Nat) /\ b \in Seq(Nat) /\ Len(a) = Len(s) + Len(q) + 1 /\ Len(b) = Len(a)
  BY SMT
<1>2. \A i \in 1..(Len(s) + Len(q)) : a[i] = (s \o q)[i] /\ b[i] = (s \o q)[i]
  BY SMT
<1>3. a[Len(a)] = m /\ b[Len(a)] = m
  BY SMT
<1>4. \A i \in 1..Len(a) : a[i] = b[i]
  BY <1>1, <1>2, <1>3, SMT
<1> HIDE DEF a, b
<1>5. a = b
  BY <1>1, <1>4, SameEntries
<1> QED BY <1>5 DEF a, b

\* The first message queued is received.
LEMMA TakeOne ==
  ASSUME NEW s \in Seq(Nat), NEW q \in Seq(Nat), q # <<>>
  PROVE  Append(s, Head(q)) \o Tail(q) = s \o q
<1> DEFINE a == Append(s, Head(q)) \o Tail(q)
           b == s \o q
<1>1. a \in Seq(Nat) /\ b \in Seq(Nat) /\ Len(a) = Len(s) + Len(q) /\ Len(b) = Len(a)
  BY SMT
<1>2. \A i \in 1..Len(s) : a[i] = s[i] /\ b[i] = s[i]
  BY SMT
<1>3. \A i \in 1..Len(q) : a[Len(s) + i] = q[i] /\ b[Len(s) + i] = q[i]
  BY SMT
<1>4. \A i \in 1..Len(a) : a[i] = b[i]
  <2> SUFFICES ASSUME NEW i \in 1..Len(a) PROVE a[i] = b[i]
    OBVIOUS
  <2>1. CASE i <= Len(s)
    BY <1>2, <2>1, SMT
  <2>2. CASE i > Len(s)
    <3>1. i - Len(s) \in 1..Len(q) /\ i = Len(s) + (i - Len(s))
      BY <1>1, <2>2, SMT
    <3> QED BY <1>3, <3>1
  <2> QED BY <2>1, <2>2, SMT
<1> HIDE DEF a, b
<1>5. a = b
  BY <1>1, <1>4, SameEntries
<1> QED BY <1>5 DEF a, b

\* What was sent and has not been received is what is queued.
LEMMA Delivered ==
  ASSUME IpcTypes, EofIsEnd, NEW s \in Ipc!States
  PROVE  Len(received[s]) + Len(msgs[s]) = sent[s]
<1>1. Len(received[s] \o msgs[s]) = Len(received[s]) + Len(msgs[s])
  BY SMT DEF IpcTypes
<1>2. sent[s] \in Nat /\ received[s] \o msgs[s] = [i \in 1..sent[s] |-> i]
  BY DEF IpcTypes, EofIsEnd, Ipc!EofIsEnd
<1>3. Len([i \in 1..sent[s] |-> i]) = sent[s]
  BY <1>2, SMT
<1> QED
  BY <1>1, <1>2, <1>3

\* sendto: one message more is sent and queued, on a state that is not closed.
LEMMA SendEof ==
  ASSUME IpcTypes, EofIsEnd, NEW t \in Ipc!Threads, Ipc!sendto(t)
  PROVE  (IpcTypes /\ EofIsEnd)'
<1> DEFINE x == Ipc!Tx(t)
<1>1. x \in Ipc!States
  BY DEF Ipc!Tx, Ipc!States
<1>2. /\ ~closed[x] /\ UNCHANGED <<closed, received, eof>>
      /\ sent' = [sent EXCEPT ![x] = @ + 1]
      /\ msgs' = [msgs EXCEPT ![x] = Append(@, sent'[x])]
  BY DEF Ipc!sendto
<1>3. /\ sent'[x] = sent[x] + 1 /\ msgs'[x] = Append(msgs[x], sent[x] + 1)
      /\ \A s \in Ipc!States \ {x} : sent'[s] = sent[s] /\ msgs'[s] = msgs[s]
  BY <1>1, <1>2 DEF IpcTypes
<1>4. IpcTypes'
  <2>1. sent' \in [Ipc!States -> Nat]
    BY <1>1, <1>2, SMT DEF IpcTypes
  <2>2. msgs' \in [Ipc!States -> Seq(Nat)]
    BY <1>1, <1>2, <1>3, SMT DEF IpcTypes
  <2> QED BY <1>2, <2>1, <2>2 DEF IpcTypes
<1>5. received[x] \o Append(msgs[x], sent[x] + 1) = [i \in 1..(sent[x] + 1) |-> i]
  <2>1. /\ received[x] \in Seq(Nat) /\ msgs[x] \in Seq(Nat) /\ sent[x] \in Nat
        /\ received[x] \o msgs[x] = [i \in 1..sent[x] |-> i]
    BY <1>1 DEF IpcTypes, EofIsEnd, Ipc!EofIsEnd
  <2>2. received[x] \o Append(msgs[x], sent[x] + 1) = Append(received[x] \o msgs[x], sent[x] + 1)
    <3>1. sent[x] + 1 \in Nat
      BY <2>1, SMT
    <3> QED BY <2>1, <3>1, QueueOne
  <2>3. Append([i \in 1..sent[x] |-> i], sent[x] + 1) = [i \in 1..(sent[x] + 1) |-> i]
    BY <2>1, SMT
  <2> QED BY <2>1, <2>2, <2>3
<1>6. ASSUME NEW s \in Ipc!States
      PROVE  /\ received'[s] \o msgs'[s] = [i \in 1..sent'[s] |-> i]
             /\ s \in eof' => closed'[s] /\ Len(received'[s]) = sent'[s]
  <2>1. CASE s = x
    BY <1>1, <1>2, <1>3, <1>5, <2>1 DEF EofIsEnd, Ipc!EofIsEnd
  <2>2. CASE s # x
    BY <1>2, <1>3, <2>2 DEF EofIsEnd, Ipc!EofIsEnd
  <2> QED BY <2>1, <2>2
<1> QED BY <1>4, <1>6 DEF EofIsEnd, Ipc!EofIsEnd

\* recvfrom: the first message is received and leaves the queue; the answer 0
\* comes with an empty queue on a closed state.
LEMMA ReceiveEof ==
  ASSUME IpcTypes, EofIsEnd, NEW t \in Ipc!Threads, Ipc!Receive(t)
  PROVE  (IpcTypes /\ EofIsEnd)'
<1> DEFINE x == Ipc!Rx(t)
<1>1. x \in Ipc!States /\ UNCHANGED <<closed, sent>>
  BY DEF Ipc!Rx, Ipc!States, Ipc!Receive
<1>2. CASE /\ msgs[x] # <<>> /\ UNCHANGED eof
           /\ msgs' = [msgs EXCEPT ![x] = Tail(@)]
           /\ received' = [received EXCEPT ![x] = Append(@, Head(msgs[x]))]
  <2>1. /\ msgs'[x] = Tail(msgs[x]) /\ received'[x] = Append(received[x], Head(msgs[x]))
        /\ \A s \in Ipc!States \ {x} : msgs'[s] = msgs[s] /\ received'[s] = received[s]
    BY <1>1, <1>2 DEF IpcTypes
  <2>2. msgs[x] \in Seq(Nat) /\ received[x] \in Seq(Nat) /\ Head(msgs[x]) \in Nat
    BY <1>1, <1>2, SMT DEF IpcTypes
  <2>3. IpcTypes'
    BY <1>1, <1>2, <2>1, <2>2, SMT DEF IpcTypes
  <2>4. Append(received[x], Head(msgs[x])) \o Tail(msgs[x]) = received[x] \o msgs[x]
    BY <1>2, <2>2, TakeOne
  <2>5. x \notin eof
    <3>1. Len(msgs[x]) # 0 /\ Len(msgs[x]) \in Nat /\ Len(received[x]) \in Nat
      BY <1>2, <2>2, SMT
    <3>2. Len(received[x]) + Len(msgs[x]) # Len(received[x])
      <4>1. \A a, b \in Nat : b # 0 => a + b # a
        BY SMT
      <4> QED BY <3>1, <4>1
    <3>3. Len(received[x]) + Len(msgs[x]) = sent[x]
      BY <1>1, Delivered
    <3>4. x \in eof => Len(received[x]) = sent[x]
      BY <1>1 DEF EofIsEnd, Ipc!EofIsEnd
    <3> QED BY <3>2, <3>3, <3>4
  <2>6. ASSUME NEW s \in Ipc!States
        PROVE  /\ received'[s] \o msgs'[s] = [i \in 1..sent'[s] |-> i]
               /\ s \in eof' => closed'[s] /\ Len(received'[s]) = sent'[s]
    <3>1. CASE s = x
      BY <1>1, <1>2, <2>1, <2>4, <2>5, <3>1 DEF EofIsEnd, Ipc!EofIsEnd
    <3>2. CASE s # x
      BY <1>1, <1>2, <2>1, <3>2 DEF EofIsEnd, Ipc!EofIsEnd
    <3> QED BY <3>1, <3>2
  <2> QED BY <2>3, <2>6 DEF EofIsEnd, Ipc!EofIsEnd
<1>3. CASE UNCHANGED <<msgs, received, eof>>
  BY <1>1, <1>3 DEF IpcTypes, EofIsEnd, Ipc!EofIsEnd
<1>4. CASE msgs[x] = <<>> /\ closed[x] /\ eof' = eof \union {x} /\ UNCHANGED <<msgs, received>>
  <2>1. Len(received[x]) = sent[x]
    BY <1>1, <1>4, Delivered, SMT DEF IpcTypes
  <2> QED BY <1>1, <1>4, <2>1 DEF IpcTypes, EofIsEnd, Ipc!EofIsEnd
<1> QED
  BY <1>2, <1>3, <1>4 DEF Ipc!Receive

\* recvfrom, sendto, disconnect: with any number of threads at the two ends of a
\* socket, messages arrive once and in order, and a 0 is the end of them.
THEOREM EofComesLast == Ipc!Spec => []EofIsEnd
<1>1. Ipc!Init => IpcTypes /\ EofIsEnd
  BY SMT DEF Ipc!Init, IpcTypes, EofIsEnd, Ipc!EofIsEnd
<1>2. IpcTypes /\ EofIsEnd /\ [Ipc!Next]_ipc => (IpcTypes /\ EofIsEnd)'
  <2> SUFFICES ASSUME IpcTypes, EofIsEnd, [Ipc!Next]_ipc PROVE (IpcTypes /\ EofIsEnd)'
    OBVIOUS
  <2>1. CASE UNCHANGED <<msgs, received, sent, closed, eof>>
    BY <2>1 DEF IpcTypes, EofIsEnd, Ipc!EofIsEnd
  <2>2. ASSUME NEW t \in Ipc!Threads,
               Ipc!wake_up(t) \/ Ipc!Resume(t) \/ Ipc!multi_wait(t) \/ Ipc!recvfrom(t)
                 \/ Ipc!awaitfs(t) \/ Ipc!Interrupt(t)
        PROVE  UNCHANGED <<msgs, received, sent, closed, eof>>
    BY <2>2 DEF Ipc!wake_up, Ipc!Resume, Ipc!multi_wait, Ipc!recvfrom, Ipc!awaitfs, Ipc!Interrupt,
                Ipc!history
  <2>3. ASSUME NEW s \in Ipc!States, Ipc!disconnect(s) PROVE (IpcTypes /\ EofIsEnd)'
    <3>1. UNCHANGED <<msgs, received, sent, eof>> /\ closed' = [closed EXCEPT ![s] = TRUE]
      BY <2>3 DEF Ipc!disconnect, Ipc!history
    <3>2. closed' \in [Ipc!States -> BOOLEAN] /\ \A r \in Ipc!States : closed[r] => closed'[r]
      BY <3>1 DEF IpcTypes
    <3> QED BY <3>1, <3>2 DEF IpcTypes, EofIsEnd, Ipc!EofIsEnd
  <2> QED
    BY <2>1, <2>2, <2>3, SendEof, ReceiveEof DEF Ipc!Next, Ipc!Step, ipc
<1> QED
  BY <1>1, <1>2, PTL DEF Ipc!Spec, Ipc!vars, ipc
==============================================================================
