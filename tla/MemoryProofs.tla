---------------------------- MODULE MemoryProofs ----------------------------
(***************************************************************************)
(* Copy on write for any finite set of processes, and any pages and        *)
(* addresses: m_users is exact, a page that can be written to without a    *)
(* fault has one user, and every process sees a memory of its own.         *)
(* Physical memory for any ranges and sizes: every page is in one block.   *)
(***************************************************************************)
EXTENDS MemoryParts, FiniteSetTheorems, WellFoundedInduction, TLAPS

\* A step is for Zenon unless it names another prover.
USE Zenon

\* What a page table says of an address.
Entry == [pg : Pages, w : BOOLEAN] \union {None}

TypeOK ==
  /\ area \in [Procs -> [Addrs -> Kinds \union {None}]]
  /\ mapping \in [Procs -> [Addrs -> Pages \union {None}]]
  /\ pte \in [Procs -> [Addrs -> Entry]]
  /\ pages \in [Addrs -> Pages \union {None}]
  /\ m_users \in [Pages -> Int] /\ leaked \in [Pages -> Nat]
  /\ live \subseteq Procs
  /\ pc \in [Procs -> {"user", "read", "write", "copy", "share", "protect", "drop"}]
  /\ at \in [Procs -> 1..(NAddrs + 1)]
  /\ child \in [Procs -> Procs \union {None}]

\* Where a process can be, and whose child it is while fork() makes it.
Lives ==
  \A p \in Procs :
    /\ pc[p] \in {"read", "write", "copy", "share", "protect"} => p \in live
    /\ pc[p] = "drop" => p \notin live
    /\ child[p] # None <=> pc[p] \in {"share", "protect"}
    /\ child[p] # None => child[p] \notin live /\ pc[child[p]] = "user"
    /\ \A q \in Procs : child[p] # None /\ child[q] = child[p] => q = p
    /\ pc[p] \notin {"user", "share"} => at[p] \in Addrs

\* What the space of a process that is not running still has: what fork() has
\* copied, or what ~space() has not dropped.
Unused(p, v) ==
  \/ p \notin live /\ pc[p] = "user" /\ \A q \in Procs : child[q] # p
  \/ pc[p] = "drop" /\ v < at[p]
  \/ \E q \in Procs : child[q] = p /\ (v > at[q] \/ (v = at[q] /\ pc[q] = "share"))

SpaceOK(p, v) ==
  /\ Unused(p, v) => area[p][v] = None
  /\ area[p][v] = None => mapping[p][v] = None
  /\ pte[p][v] # None => pte[p][v].pg = mapping[p][v]
  /\ area[p][v] = "anon" /\ mapping[p][v] # None => \A u \in Addrs : pages[u] # mapping[p][v]
  /\ pc[p] \in {"read", "write", "copy"} /\ at[p] = v => area[p][v] # None
  /\ pc[p] = "copy" /\ at[p] = v => mapping[p][v] # None

Spaces == \A p \in Procs, v \in Addrs : SpaceOK(p, v)

\* Nothing that fork() has put into the child's page table can be written to.
ChildReads ==
  \A p \in Procs : child[p] # None =>
    /\ \A v \in Addrs : pte[child[p]][v] # None => ~pte[child[p]][v].w
    /\ pc[p] = "protect" => mapping[child[p]][at[p]] = mapping[p][at[p]]

\* p can write to the page at v without a fault, and v is not the address that
\* fork() is about to protect; nothing else refers to that page.
MayWrite(p, v) ==
  /\ p \in live /\ pte[p][v] # None /\ pte[p][v].w /\ area[p][v] # "shared"
  /\ ~(pc[p] = "protect" /\ at[p] = v)

Alone(p, v) ==
  /\ mapping[p][v] \in Pages
  /\ \A q \in Procs, u \in Addrs : mapping[q][u] = mapping[p][v] => q = p /\ u = v
  /\ \A u \in Addrs : pages[u] # mapping[p][v]

Owned == \A p \in Procs, v \in Addrs : MayWrite(p, v) => Alone(p, v)

\* The inductive invariant.
IInv == TypeOK /\ Lives /\ Spaces /\ ChildReads /\ UsersCounted /\ Owned
------------------------------------------------------------------------------
\* A space with one address changed is a space.
LEMMA SetType ==
  ASSUME NEW S, NEW f \in [Procs -> [Addrs -> S]], NEW p \in Procs, NEW v \in Addrs, NEW x \in S
  PROVE  [f EXCEPT ![p][v] = x] \in [Procs -> [Addrs -> S]]
OBVIOUS

\* Every step keeps the types.
LEMMA TypeNext ==
  ASSUME TypeOK, Lives, Spaces, [Next]_vars
  PROVE  TypeOK'
<1> USE DEF TypeOK
<1>1. ASSUME NEW p \in Procs, Populate(p)
      PROVE  TypeOK'
  <2>1. at[p] \in Addrs
    BY <1>1 DEF Populate, Lives
  <2>2. PICK g \in Pages :
          /\ UNCHANGED pages \/ pages' = [pages EXCEPT ![at[p]] = g]
          /\ m_users' = [m_users EXCEPT ![g] = @ + 1]
          /\ mapping' = [mapping EXCEPT ![p][at[p]] = g]
          /\ UNCHANGED <<pc, pte>> \/ (Run(p, "read", "user") /\ add_mapping(p, at[p], g, area[p][at[p]] = "anon"))
    BY <1>1 DEF Populate
  <2>3. mapping' \in [Procs -> [Addrs -> Pages \union {None}]]
    BY <2>1, <2>2, SetType
  <2>4. pte' \in [Procs -> [Addrs -> Entry]]
    <3> DEFINE r == [pg |-> g, w |-> area[p][at[p]] = "anon"]
    <3>1. r \in Entry
      BY DEF Entry
    <3>2. pte' = pte \/ pte' = [pte EXCEPT ![p][at[p]] = r]
      BY <2>2 DEF add_mapping
    <3>3. [pte EXCEPT ![p][at[p]] = r] \in [Procs -> [Addrs -> Entry]]
      BY <2>1, <3>1, SetType
    <3> QED
      BY <3>2, <3>3
  <2>5. pages' \in [Addrs -> Pages \union {None}] /\ m_users' \in [Pages -> Int]
    BY <2>1, <2>2, SMT
  <2>6. pc' \in [Procs -> {"user", "read", "write", "copy", "share", "protect", "drop"}]
    BY <2>2, SMTT(20) DEF Run
  <2> QED
    BY <1>1, <2>3, <2>4, <2>5, <2>6 DEF Populate
<1>2. ASSUME NEW p \in Procs, Look(p)
      PROVE  TypeOK'
  <2>1. at[p] \in Addrs
    BY <1>2, SMTT(20) DEF Look, Lives
  <2>2. pte' \in [Procs -> [Addrs -> Entry]]
    <3> DEFINE r == [pg |-> mapping[p][at[p]], w |-> TRUE]
    <3>1. r \in Entry
      BY <1>2, <2>1, SMT DEF Look, Entry
    <3>2. pte' = pte \/ pte' = [pte EXCEPT ![p][at[p]] = r]
      BY <1>2 DEF Look, add_mapping
    <3>3. [pte EXCEPT ![p][at[p]] = r] \in [Procs -> [Addrs -> Entry]]
      BY <2>1, <3>1, SetType, SMT
    <3> QED
      BY <3>2, <3>3
  <2> QED
    BY <1>2, <2>2 DEF Look, memory, Run
<1>3. ASSUME NEW p \in Procs, Copy(p)
      PROVE  TypeOK'
  <2>0. at[p] \in Addrs
    BY <1>3 DEF Copy, Run, Lives
  <2>1. mapping[p][at[p]] \in Pages
    BY <1>3, <2>0, SMT DEF Copy, Run, Spaces, SpaceOK
  <2>2. PICK np \in Pages :
          /\ m_users' = [m_users EXCEPT ![np] = @ + 1, ![mapping[p][at[p]]] = @ - 1]
          /\ mapping' = [mapping EXCEPT ![p][at[p]] = np]
          /\ add_mapping(p, at[p], np, TRUE)
    BY <1>3 DEF Copy
  <2>3. mapping' \in [Procs -> [Addrs -> Pages \union {None}]]
    BY <2>0, <2>2, SetType, SMT
  <2>4. pte' \in [Procs -> [Addrs -> Entry]]
    BY <2>0, <2>2, SetType, SMT DEF add_mapping, Entry
  <2>5. m_users' \in [Pages -> Int]
    BY <2>1, <2>2, SMT
  <2> QED
    BY <1>3, <2>3, <2>4, <2>5 DEF Copy, Run
<1>4. ASSUME NEW p \in Procs, Share(p)
      PROVE  TypeOK'
  <2>1. at[p] \in Addrs /\ child[p] \in Procs
    BY <1>4 DEF Share, Run, Lives
  <2>2. mapping' \in [Procs -> [Addrs -> Pages \union {None}]]
    BY <1>4, <2>1, SetType, SMT DEF Share
  <2>3. area' \in [Procs -> [Addrs -> Kinds \union {None}]]
    BY <1>4, <2>1, SetType, SMT DEF Share
  <2> QED
    BY <1>4, <2>1, <2>2, <2>3, SMT DEF Share, Run
<1>5. ASSUME NEW p \in Procs, Protect(p)
      PROVE  TypeOK'
  <2>1. at[p] \in Addrs /\ child[p] \in Procs
    BY <1>5 DEF Protect, Run, Lives
  <2>2. at' \in [Procs -> 1..(NAddrs + 1)]
    BY <1>5, <2>1, NAddrsAssumption, SMT DEF Protect, Addrs
  <2>3. pte' \in [Procs -> [Addrs -> Entry]]
    <3> DEFINE r == [pg |-> mapping[p][at[p]], w |-> FALSE]
               one == [pte EXCEPT ![p][at[p]] = r]
    <3>1. CASE mapping[p][at[p]] = None
      BY <1>5, <3>1 DEF Protect
    <3>2. CASE mapping[p][at[p]] # None
      <4>1. r \in Entry
        BY <2>1, <3>2, SMT DEF Entry
      <4>2. one \in [Procs -> [Addrs -> Entry]]
        BY <2>1, <4>1, SetType, SMT
      <4>3. pte' = [one EXCEPT ![child[p]][at[p]] = r]
        BY <1>5, <3>2 DEF Protect
      <4> QED
        BY <2>1, <4>1, <4>2, <4>3, SetType
    <3> QED
      BY <3>1, <3>2
  <2> QED
    BY <1>5, <2>2, <2>3 DEF Protect, memory, Run
<1>6. ASSUME NEW p \in Procs, ForkEnd(p)
      PROVE  TypeOK'
  <2>1. child[p] \in Procs
    BY <1>6 DEF ForkEnd, Run, Lives
  <2> QED
    BY <1>6, <2>1, NAddrsAssumption, SMT DEF ForkEnd, memory, Run
<1>7. ASSUME NEW p \in Procs, exit(p)
      PROVE  TypeOK'
  BY <1>7, NAddrsAssumption, SMT DEF exit, memory, Run
<1>8. ASSUME NEW p \in Procs, Drop(p)
      PROVE  TypeOK'
  <2>1. at[p] \in Addrs
    BY <1>8 DEF Drop, Lives
  <2>2. mapping' \in [Procs -> [Addrs -> Pages \union {None}]]
    BY <1>8, <2>1, SetType DEF Drop, Entry
  <2>3. area' \in [Procs -> [Addrs -> Kinds \union {None}]]
    BY <1>8, <2>1, SetType DEF Drop, Entry
  <2>4. pte' \in [Procs -> [Addrs -> Entry]]
    BY <1>8, <2>1, SetType, SMT DEF Drop, Entry
  <2>5. at' \in [Procs -> 1..(NAddrs + 1)]
    BY <1>8, <2>1, NAddrsAssumption, SMT DEF Drop, Addrs
  <2>6. m_users' \in [Pages -> Int]
    BY <1>8, <2>1, SMT DEF Drop, memory
  <2>7. pc' \in [Procs -> {"user", "read", "write", "copy", "share", "protect", "drop"}]
    BY <1>8, SMTT(20) DEF Drop, Run
  <2> QED
    BY <1>8, <2>2, <2>3, <2>4, <2>5, <2>6, <2>7 DEF Drop
<1>9. ASSUME NEW p \in Procs, NEW q \in Procs, fork(p, q)
      PROVE  TypeOK'
  BY <1>9, NAddrsAssumption, SMT DEF fork, memory, Run, Addrs
<1>10. ASSUME NEW p \in Procs, NEW v \in Addrs, unmap(p, v)
      PROVE  TypeOK'
  <2>1. leaked' \in [Pages -> Nat]
    BY <1>10, SMT DEF unmap
  <2>2. mapping' \in [Procs -> [Addrs -> Pages \union {None}]]
    BY <1>10, SetType DEF unmap
  <2>3. area' \in [Procs -> [Addrs -> Kinds \union {None}]]
    BY <1>10, SetType DEF unmap
  <2>4. pte' \in [Procs -> [Addrs -> Entry]]
    BY <1>10, SetType DEF unmap, Entry
  <2> QED
    BY <1>10, <2>1, <2>2, <2>3, <2>4 DEF unmap, memory
<1>11. ASSUME NEW p \in Procs, NEW v \in Addrs, NEW x \in Values, Store(p, v, x)
      PROVE  TypeOK'
  BY <1>11 DEF Store
<1>12. ASSUME NEW p \in Procs, NEW v \in Addrs, NEW kind \in Kinds, mmap(p, v, kind)
      PROVE  TypeOK'
  BY <1>12, NAddrsAssumption DEF mmap, memory, Run, Addrs
<1>13. ASSUME NEW p \in Procs, NEW v \in Addrs, NEW write \in BOOLEAN, fault(p, v, write)
      PROVE  TypeOK'
  BY <1>13, NAddrsAssumption, SMT DEF fault, memory, Run, Addrs
<1>14. CASE UNCHANGED vars
  BY <1>14 DEF vars, memory
<1> QED
  BY <1>1, <1>2, <1>3, <1>4, <1>5, <1>6, <1>7, <1>8, <1>9, <1>10, <1>11, <1>12, <1>13, <1>14, SMT DEF Next

\* Processes fault, fork and exit in their order, and a child belongs to one
\* parent, which is alive while it makes it.
LEMMA LivesNext ==
  ASSUME TypeOK, Lives, [Next]_vars
  PROVE  Lives'
<1>1. ASSUME NEW p \in Procs, Populate(p)
      PROVE  Lives'
  BY <1>1, NAddrsAssumption, NoneAssumption, SMT DEF TypeOK, Lives, Populate, Run, Addrs, add_mapping
<1>2. ASSUME NEW p \in Procs, Look(p)
      PROVE  Lives'
  BY <1>2, NAddrsAssumption, NoneAssumption, SMT DEF TypeOK, Lives, Look, Run, Addrs, add_mapping, MustCopy
<1>3. ASSUME NEW p \in Procs, Copy(p)
      PROVE  Lives'
  BY <1>3, NAddrsAssumption, NoneAssumption, SMT DEF TypeOK, Lives, Copy, Run, Addrs, add_mapping
<1>4. ASSUME NEW p \in Procs, Share(p)
      PROVE  Lives'
  BY <1>4, NAddrsAssumption, NoneAssumption, SMT DEF TypeOK, Lives, Share, Run, Addrs
<1>5. ASSUME NEW p \in Procs, Protect(p)
      PROVE  Lives'
  BY <1>5, NAddrsAssumption, NoneAssumption, SMT DEF TypeOK, Lives, Protect, Run, Addrs
<1>6. ASSUME NEW p \in Procs, ForkEnd(p)
      PROVE  Lives'
  BY <1>6, NAddrsAssumption, NoneAssumption, SMT DEF TypeOK, Lives, ForkEnd, Run, Addrs
<1>7. ASSUME NEW p \in Procs, exit(p)
      PROVE  Lives'
  BY <1>7, NAddrsAssumption, NoneAssumption, SMT DEF TypeOK, Lives, exit, Run, Addrs
<1>8. ASSUME NEW p \in Procs, Drop(p)
      PROVE  Lives'
  BY <1>8, NAddrsAssumption, NoneAssumption, SMT DEF TypeOK, Lives, Drop, Run, Addrs
<1>9. ASSUME NEW p \in Procs, NEW q \in Procs, fork(p, q)
      PROVE  Lives'
  BY <1>9, NAddrsAssumption, NoneAssumption, SMT DEF TypeOK, Lives, fork, Run, Addrs
<1>10. ASSUME NEW p \in Procs, NEW v \in Addrs, unmap(p, v)
      PROVE  Lives'
  BY <1>10, NAddrsAssumption, NoneAssumption DEF TypeOK, Lives, unmap, Run, Addrs
<1>11. ASSUME NEW p \in Procs, NEW v \in Addrs, NEW x \in Values, Store(p, v, x)
      PROVE  Lives'
  BY <1>11, NAddrsAssumption, NoneAssumption DEF TypeOK, Lives, Store, Run, Addrs
<1>12. ASSUME NEW p \in Procs, NEW v \in Addrs, NEW kind \in Kinds, mmap(p, v, kind)
      PROVE  Lives'
  BY <1>12, NAddrsAssumption, NoneAssumption DEF TypeOK, Lives, mmap, Run, Addrs
<1>13. ASSUME NEW p \in Procs, NEW v \in Addrs, NEW write \in BOOLEAN, fault(p, v, write)
      PROVE  Lives'
  BY <1>13, NAddrsAssumption, NoneAssumption, SMT DEF TypeOK, Lives, fault, Run, Addrs
<1>14. CASE UNCHANGED vars
  BY <1>14 DEF vars, memory, Lives
<1> QED
  BY <1>1, <1>2, <1>3, <1>4, <1>5, <1>6, <1>7, <1>8, <1>9, <1>10, <1>11, <1>12, <1>13, <1>14 DEF Next

\* An address without an area has no page, an entry of the page table has the
\* page of the mapping, and an object's page is not in anonymous memory.
LEMMA SpacesNext ==
  ASSUME TypeOK, Lives, Spaces, ChildReads, [Next]_vars
  PROVE  Spaces'
<1>1. ASSUME NEW p \in Procs, Populate(p)
      PROVE  Spaces'
  <2> DEFINE v == at[p]
  <2>0. v \in Addrs /\ p \in live
    BY <1>1 DEF TypeOK, Lives, Populate
  <2>1. v \in Addrs /\ p \in live /\ area[p][v] # None /\ mapping[p][v] = None
    BY <1>1, <2>0 DEF Spaces, SpaceOK, Populate
  <2>2. PICK g \in Pages :
          /\ IF area[p][v] = "anon"
             THEN Free(g) /\ UNCHANGED pages
             ELSE IF pages[v] # None
             THEN g = pages[v] /\ UNCHANGED pages
             ELSE Free(g) /\ pages' = [pages EXCEPT ![v] = g]
          /\ mapping' = [mapping EXCEPT ![p][v] = g]
          /\ \/ UNCHANGED <<pc, pte>>
             \/ /\ pc' = [pc EXCEPT ![p] = "user"]
                /\ pte' = [pte EXCEPT ![p][v] = [pg |-> g, w |-> area[p][v] = "anon"]]
    BY <1>1 DEF Populate, Run, add_mapping
  <2>3. UNCHANGED <<area, live, at, child>>
    BY <1>1 DEF Populate
  <2> SUFFICES ASSUME NEW q \in Procs, NEW u \in Addrs PROVE SpaceOK(q, u)'
    BY DEF Spaces
  <2>4. SpaceOK(q, u)
    BY DEF Spaces
  <2>5. mapping'[q][u] = IF q = p /\ u = v THEN g ELSE mapping[q][u]
    BY <2>1, <2>2 DEF TypeOK
  <2>6. pte'[q][u] # None => pte'[q][u].pg = mapping'[q][u]
    <3>1. \/ pte'[q][u] = pte[q][u]
          \/ q = p /\ u = v /\ pte'[q][u] = [pg |-> g, w |-> area[p][v] = "anon"]
      BY <2>1, <2>2, SMT DEF TypeOK
    <3>2. CASE q = p /\ u = v /\ pte'[q][u] = [pg |-> g, w |-> area[p][v] = "anon"]
      BY <2>5, <3>2, SMT
    <3>3. CASE pte'[q][u] = pte[q][u]
      <4>1. q = p /\ u = v => pte[q][u] = None
        BY <2>1, <2>4, NoneAssumption, SMT DEF SpaceOK, TypeOK, Entry
      <4> QED
        BY <2>4, <2>5, <3>3, <4>1 DEF SpaceOK
    <3> QED
      BY <3>1, <3>2, <3>3
  <2>7. Unused(q, u)' => Unused(q, u)
    BY <2>1, <2>2, <2>3 DEF Unused, TypeOK
  <2>8. area[q][u] = "anon" /\ mapping'[q][u] # None => \A w \in Addrs : pages'[w] # mapping'[q][u]
    <3>1. CASE q = p /\ u = v
      BY <2>1, <2>2, <2>5, <3>1, SMT DEF Free, TypeOK
    <3>2. CASE ~(q = p /\ u = v)
      BY <2>1, <2>2, <2>4, <2>5, <3>2, SMT DEF Free, TypeOK, SpaceOK
    <3> QED
      BY <3>1, <3>2
  <2>9. pc'[q] = pc[q] \/ pc'[q] = "user"
    BY <2>2 DEF TypeOK
  <2> QED
    BY <2>1, <2>3, <2>4, <2>5, <2>6, <2>7, <2>8, <2>9 DEF SpaceOK
<1>2. ASSUME NEW p \in Procs, Look(p)
      PROVE  Spaces'
  <2> DEFINE v == at[p]
  <2>1. v \in Addrs /\ p \in live /\ mapping[p][v] # None /\ pc[p] = "write"
    BY <1>2, SMTT(20) DEF TypeOK, Lives, Look
  <2>2. /\ pte' = pte \/ pte' = [pte EXCEPT ![p][v] = [pg |-> mapping[p][v], w |-> TRUE]]
        /\ pc' = [pc EXCEPT ![p] = "user"] \/ pc' = [pc EXCEPT ![p] = "copy"]
    BY <1>2 DEF Look, Run, add_mapping
  <2>3. UNCHANGED <<area, mapping, pages, live, at, child>>
    BY <1>2 DEF Look
  <2> SUFFICES ASSUME NEW q \in Procs, NEW u \in Addrs PROVE SpaceOK(q, u)'
    BY DEF Spaces
  <2>4. SpaceOK(q, u)
    BY DEF Spaces
  <2>5. pte'[q][u] # None => pte'[q][u].pg = mapping'[q][u]
    <3> DEFINE r == [pg |-> mapping[p][v], w |-> TRUE]
    <3>1. r.pg = mapping[p][v]
      OBVIOUS
    <3>2. pte' = pte \/ pte' = [pte EXCEPT ![p][v] = r]
      BY <2>2
    <3> HIDE DEF r
    <3>3. pte'[q][u] = pte[q][u] \/ (q = p /\ u = v /\ pte'[q][u] = r)
      BY <2>1, <3>2, SMT DEF TypeOK
    <3> QED
      BY <2>3, <2>4, <3>1, <3>3 DEF SpaceOK
  <2>6. Unused(q, u)' => Unused(q, u)
    BY <2>1, <2>2, <2>3 DEF Unused, TypeOK
  <2> QED
    BY <2>1, <2>2, <2>3, <2>4, <2>5, <2>6, SMT DEF SpaceOK, TypeOK
<1>3. ASSUME NEW p \in Procs, Copy(p)
      PROVE  Spaces'
  BY <1>3, NAddrsAssumption, NoneAssumption, SMT DEF TypeOK, Lives, Spaces, SpaceOK, Unused, Copy, Run, Addrs, add_mapping, Free
<1>4. ASSUME NEW p \in Procs, Share(p)
      PROVE  Spaces'
  <2> DEFINE v == at[p] c == child[p]
  <2>1. /\ v \in Addrs /\ p \in live /\ c \in Procs /\ c \notin live /\ pc[p] = "share"
        /\ pc[c] = "user" /\ \A r \in Procs : child[r] = c => r = p
    BY <1>4 DEF TypeOK, Lives, Share, Run
  <2>2. /\ pc' = [pc EXCEPT ![p] = "protect"]
        /\ area' = [area EXCEPT ![c][v] = area[p][v]]
        /\ mapping' = [mapping EXCEPT ![c][v] = mapping[p][v]]
    BY <1>4 DEF Share, Run
  <2>3. UNCHANGED <<pte, pages, live, at, child>>
    BY <1>4 DEF Share
  <2>4. Unused(c, v)
    BY <2>1 DEF Unused
  <2>5. pte[c][v] = None
    BY <2>1, <2>4, NoneAssumption, SMT DEF Spaces, SpaceOK, TypeOK, Entry
  <2> SUFFICES ASSUME NEW q \in Procs, NEW u \in Addrs PROVE SpaceOK(q, u)'
    BY DEF Spaces
  <2>6. SpaceOK(q, u) /\ SpaceOK(p, v)
    BY <2>1 DEF Spaces
  <2>7. Unused(q, u)' => Unused(q, u) /\ ~(q = c /\ u = v)
    BY <2>1, <2>2, <2>3, NAddrsAssumption, SMT DEF Unused, TypeOK, Addrs
  <2>8. CASE q = c /\ u = v
    BY <2>1, <2>2, <2>3, <2>5, <2>6, <2>7, <2>8 DEF SpaceOK, TypeOK
  <2>9. CASE ~(q = c /\ u = v)
    <3>1. area'[q][u] = area[q][u] /\ mapping'[q][u] = mapping[q][u]
      BY <2>1, <2>2, <2>9 DEF TypeOK
    <3> QED
      BY <2>1, <2>2, <2>3, <2>6, <2>7, <3>1, SMT DEF SpaceOK, TypeOK
  <2> QED
    BY <2>8, <2>9
<1>5. ASSUME NEW p \in Procs, Protect(p)
      PROVE  Spaces'
  <2> DEFINE v == at[p] c == child[p]
  <2>1. /\ v \in Addrs /\ p \in live /\ c \in Procs /\ c \notin live /\ pc[p] = "protect"
        /\ pc[c] = "user" /\ \A r \in Procs : child[r] = c => r = p
    BY <1>5 DEF TypeOK, Lives, Protect, Run
  <2>2. /\ pc' = [pc EXCEPT ![p] = "share"] /\ at' = [at EXCEPT ![p] = v + 1]
        /\ UNCHANGED <<area, mapping, pages, live, child>>
    BY <1>5 DEF Protect, Run
  <2> SUFFICES ASSUME NEW q \in Procs, NEW u \in Addrs PROVE SpaceOK(q, u)'
    BY DEF Spaces
  <2>3. SpaceOK(q, u)
    BY DEF Spaces
  <2>4. Unused(q, u)' => Unused(q, u)
    BY <2>1, <2>2, SMT DEF Unused, TypeOK, Addrs
  <2>5. pte'[q][u] # None => pte'[q][u].pg = mapping'[q][u]
    <3>1. CASE mapping[p][v] = None
      BY <1>5, <2>2, <2>3, <3>1 DEF Protect, SpaceOK
    <3>2. CASE mapping[p][v] # None
      <4>1. mapping[c][v] = mapping[p][v]
        BY <2>1, NoneAssumption DEF ChildReads
      <4> QED
        BY <1>5, <2>1, <2>2, <2>3, <3>2, <4>1 DEF Protect, SpaceOK, TypeOK
    <3> QED
      BY <3>1, <3>2
  <2> QED
    BY <2>1, <2>2, <2>3, <2>4, <2>5 DEF SpaceOK, TypeOK
<1>6. ASSUME NEW p \in Procs, ForkEnd(p)
      PROVE  Spaces'
  BY <1>6, NAddrsAssumption, NoneAssumption, SMT DEF TypeOK, Lives, Spaces, SpaceOK, Unused, ForkEnd, Run, Addrs
<1>7. ASSUME NEW p \in Procs, exit(p)
      PROVE  Spaces'
  BY <1>7, NAddrsAssumption, NoneAssumption, SMT DEF TypeOK, Lives, Spaces, SpaceOK, Unused, exit, Run, Addrs
<1>8. ASSUME NEW p \in Procs, Drop(p)
      PROVE  Spaces'
  <2> DEFINE v == at[p]
  <2>1. /\ v \in Addrs /\ p \notin live /\ pc[p] = "drop"
        /\ child[p] = None /\ \A r \in Procs : child[r] # p
    BY <1>8, NoneAssumption, SMT DEF TypeOK, Lives, Drop
  <2>2. /\ area' = [area EXCEPT ![p][v] = None]
        /\ mapping' = [mapping EXCEPT ![p][v] = None]
        /\ pte' = [pte EXCEPT ![p][v] = None]
        /\ UNCHANGED <<pages, live, child>>
    BY <1>8 DEF Drop
  <2>3. IF v < NAddrs THEN at' = [at EXCEPT ![p] = v + 1] /\ UNCHANGED pc
                      ELSE at' = [at EXCEPT ![p] = 1] /\ pc' = [pc EXCEPT ![p] = "user"]
    BY <1>8 DEF Drop, Run
  <2> SUFFICES ASSUME NEW q \in Procs, NEW u \in Addrs PROVE SpaceOK(q, u)'
    BY DEF Spaces
  <2>4. SpaceOK(q, u)
    BY DEF Spaces
  <2>5. Unused(q, u)' => Unused(q, u) \/ (q = p /\ u = v)
    <3>1. CASE q = p
      BY <2>1, <2>2, <2>3, <3>1, NAddrsAssumption, SMT DEF Unused, TypeOK, Addrs
    <3>2. CASE q # p
      BY <2>1, <2>2, <2>3, <3>2, NAddrsAssumption, NoneAssumption, SMT DEF Unused, TypeOK, Addrs
    <3> QED
      BY <3>1, <3>2
  <2>6. CASE q = p /\ u = v
    BY <2>1, <2>2, <2>3, <2>6 DEF SpaceOK, TypeOK
  <2>7. CASE ~(q = p /\ u = v)
    <3>1. /\ area'[q][u] = area[q][u] /\ mapping'[q][u] = mapping[q][u]
          /\ pte'[q][u] = pte[q][u]
      BY <2>1, <2>2, <2>7 DEF TypeOK
    <3>2. q # p => pc'[q] = pc[q] /\ at'[q] = at[q]
      BY <2>3 DEF TypeOK
    <3>3. pc'[p] \in {"user", "drop"}
      BY <2>1, <2>3 DEF TypeOK
    <3> QED
      BY <2>2, <2>4, <2>5, <2>7, <3>1, <3>2, <3>3 DEF SpaceOK
  <2> QED
    BY <2>6, <2>7
<1>9. ASSUME NEW p \in Procs, NEW q \in Procs, fork(p, q)
      PROVE  Spaces'
  BY <1>9, NAddrsAssumption, NoneAssumption, SMT DEF TypeOK, Lives, Spaces, SpaceOK, Unused, fork, Run, Addrs
<1>10. ASSUME NEW p \in Procs, NEW v \in Addrs, unmap(p, v)
      PROVE  Spaces'
  BY <1>10, NAddrsAssumption, NoneAssumption, SMT DEF TypeOK, Lives, Spaces, SpaceOK, Unused, unmap, Run, Addrs
<1>11. ASSUME NEW p \in Procs, NEW v \in Addrs, NEW x \in Values, Store(p, v, x)
      PROVE  Spaces'
  BY <1>11, NAddrsAssumption, NoneAssumption, SMT DEF TypeOK, Lives, Spaces, SpaceOK, Unused, Store, Run, Addrs
<1>12. ASSUME NEW p \in Procs, NEW v \in Addrs, NEW kind \in Kinds, mmap(p, v, kind)
      PROVE  Spaces'
  BY <1>12, NAddrsAssumption, NoneAssumption, SMT DEF TypeOK, Lives, Spaces, SpaceOK, Unused, mmap, Run, Addrs
<1>13. ASSUME NEW p \in Procs, NEW v \in Addrs, NEW write \in BOOLEAN, fault(p, v, write)
      PROVE  Spaces'
  BY <1>13, NAddrsAssumption, NoneAssumption, SMT DEF TypeOK, Lives, Spaces, SpaceOK, Unused, fault, Run, Addrs
<1>14. CASE UNCHANGED vars
  BY <1>14, SMT DEF vars, memory, Spaces, SpaceOK, Unused
<1> QED
  BY <1>1, <1>2, <1>3, <1>4, <1>5, <1>6, <1>7, <1>8, <1>9, <1>10, <1>11, <1>12, <1>13, <1>14 DEF Next

\* What fork() shares with the child stays read only, and the two mappings of
\* the address it is about to protect stay the same.
LEMMA ChildReadsNext ==
  ASSUME TypeOK, Lives, Spaces, ChildReads, [Next]_vars
  PROVE  ChildReads'
<1>1. ASSUME NEW p \in Procs, Populate(p)
      PROVE  ChildReads'
  BY <1>1, NAddrsAssumption, NoneAssumption, SMT DEF TypeOK, Lives, Spaces, SpaceOK, ChildReads, Populate, Run, Addrs, add_mapping, Free
<1>2. ASSUME NEW p \in Procs, Look(p)
      PROVE  ChildReads'
  <2>1. p \in live /\ pc[p] = "write"
    BY <1>2 DEF Lives, Look
  <2>2. /\ UNCHANGED <<child, mapping, at>>
        /\ \A q \in Procs : q # p => pte'[q] = pte[q] /\ pc'[q] = pc[q]
        /\ pc'[p] # "protect"
    BY <1>2 DEF Look, Run, add_mapping, TypeOK
  <2>3. \A q \in Procs : child[q] # None => child[q] \in Procs /\ child[q] # p
    BY <2>1 DEF Lives, TypeOK
  <2> QED
    BY <2>2, <2>3, SMT DEF ChildReads
<1>3. ASSUME NEW p \in Procs, Copy(p)
      PROVE  ChildReads'
  BY <1>3, NAddrsAssumption, NoneAssumption, SMT DEF TypeOK, Lives, Spaces, SpaceOK, ChildReads, Copy, Run, Addrs, add_mapping, Free
<1>4. ASSUME NEW p \in Procs, Share(p)
      PROVE  ChildReads'
  BY <1>4, NAddrsAssumption, NoneAssumption, SMT DEF TypeOK, Lives, Spaces, SpaceOK, ChildReads, Share, Run, Addrs
<1>5. ASSUME NEW p \in Procs, Protect(p)
      PROVE  ChildReads'
  <2>1. p \in live /\ at[p] \in Addrs /\ child[p] \in Procs
    BY <1>5 DEF Lives, TypeOK, Protect, Run
  <2>2. /\ UNCHANGED <<child, mapping>> /\ pc'[p] # "protect"
        /\ \A q \in Procs : q # p => pc'[q] = pc[q] /\ at'[q] = at[q]
    BY <1>5 DEF Protect, Run, TypeOK
  <2>3. \A q \in Procs, v \in Addrs :
          q # p => pte'[q][v] = pte[q][v] \/ pte'[q][v] = [pg |-> mapping[p][at[p]], w |-> FALSE]
    BY <1>5, <2>1 DEF Protect, TypeOK
  <2> SUFFICES ASSUME NEW q \in Procs, child'[q] # None
               PROVE  /\ \A v \in Addrs : pte'[child'[q]][v] # None => ~pte'[child'[q]][v].w
                      /\ pc'[q] = "protect" => mapping'[child'[q]][at'[q]] = mapping'[q][at'[q]]
    BY DEF ChildReads
  <2>4. child[q] \in Procs /\ child[q] # p
    BY <2>1, <2>2, SMT DEF Lives, TypeOK
  <2>5. pc'[q] = "protect" => mapping'[child'[q]][at'[q]] = mapping'[q][at'[q]]
    BY <2>2 DEF ChildReads
  <2>6. ASSUME NEW v \in Addrs, pte'[child'[q]][v] # None
        PROVE  ~pte'[child'[q]][v].w
    <3>1. CASE pte'[child'[q]][v] = pte[child[q]][v]
      BY <2>2, <2>6, <3>1 DEF ChildReads
    <3>2. CASE pte'[child'[q]][v] = [pg |-> mapping[p][at[p]], w |-> FALSE]
      BY <3>2, SMT
    <3> QED
      BY <2>2, <2>3, <2>4, <3>1, <3>2
  <2> QED
    BY <2>5, <2>6
<1>6. ASSUME NEW p \in Procs, ForkEnd(p)
      PROVE  ChildReads'
  BY <1>6, NAddrsAssumption, NoneAssumption, SMT DEF TypeOK, Lives, Spaces, SpaceOK, ChildReads, ForkEnd, Run, Addrs
<1>7. ASSUME NEW p \in Procs, exit(p)
      PROVE  ChildReads'
  BY <1>7, NAddrsAssumption, NoneAssumption, SMT DEF TypeOK, Lives, Spaces, SpaceOK, ChildReads, exit, Run, Addrs
<1>8. ASSUME NEW p \in Procs, Drop(p)
      PROVE  ChildReads'
  BY <1>8, NAddrsAssumption, NoneAssumption, SMT DEF TypeOK, Lives, Spaces, SpaceOK, ChildReads, Drop, Run, Addrs
<1>9. ASSUME NEW p \in Procs, NEW q \in Procs, fork(p, q)
      PROVE  ChildReads'
  <2>1. /\ child' = [child EXCEPT ![p] = q] /\ pc' = [pc EXCEPT ![p] = "share"]
        /\ \A r \in Procs : r # p => at'[r] = at[r]
        /\ UNCHANGED <<mapping, pte>>
    BY <1>9 DEF fork, Run, TypeOK
  <2>2. \A v \in Addrs : pte[q][v] = None
    <3>1. \A v \in Addrs : Unused(q, v)
      BY <1>9 DEF fork, Unused
    <3> QED
      BY <3>1, NoneAssumption, SMT DEF Spaces, SpaceOK, TypeOK, Entry
  <2> QED
    BY <2>1, <2>2 DEF ChildReads, TypeOK
<1>10. ASSUME NEW p \in Procs, NEW v \in Addrs, unmap(p, v)
      PROVE  ChildReads'
  BY <1>10, NAddrsAssumption, NoneAssumption, SMT DEF TypeOK, Lives, Spaces, SpaceOK, ChildReads, unmap, Run, Addrs
<1>11. ASSUME NEW p \in Procs, NEW v \in Addrs, NEW x \in Values, Store(p, v, x)
      PROVE  ChildReads'
  BY <1>11, NAddrsAssumption, NoneAssumption DEF TypeOK, Lives, Spaces, SpaceOK, ChildReads, Store, Run, Addrs
<1>12. ASSUME NEW p \in Procs, NEW v \in Addrs, NEW kind \in Kinds, mmap(p, v, kind)
      PROVE  ChildReads'
  BY <1>12, NAddrsAssumption, NoneAssumption DEF TypeOK, Lives, Spaces, SpaceOK, ChildReads, mmap, Run, Addrs
<1>13. ASSUME NEW p \in Procs, NEW v \in Addrs, NEW write \in BOOLEAN, fault(p, v, write)
      PROVE  ChildReads'
  BY <1>13, NAddrsAssumption, NoneAssumption, SMT DEF TypeOK, Lives, Spaces, SpaceOK, ChildReads, fault, Run, Addrs
<1>14. CASE UNCHANGED vars
  BY <1>14 DEF vars, memory, ChildReads
<1> QED
  BY <1>1, <1>2, <1>3, <1>4, <1>5, <1>6, <1>7, <1>8, <1>9, <1>10, <1>11, <1>12, <1>13, <1>14 DEF Next

\* The mappings of a page, for the mappings m of all spaces, and their number.
UsersOf(m, g) == {pv \in Procs \X Addrs : m[pv[1]][pv[2]] = g}
Count(m, g) == Cardinality(UsersOf(m, g))

\* The mappings m2 are m with page n at address v of process p.
SetTo(m, m2, p, v, n) ==
  \A q \in Procs, u \in Addrs : m2[q][u] = IF q = p /\ u = v THEN n ELSE m[q][u]

\* 1 where two pages are the same.
Same(a, b) == IF a = b THEN 1 ELSE 0

\* The mappings of a page are finitely many.
LEMMA UsersFinite ==
  ASSUME NEW m, NEW g
  PROVE  IsFiniteSet(UsersOf(m, g)) /\ Count(m, g) \in Nat
<1>1. IsFiniteSet(Addrs)
  BY NAddrsAssumption, FS_Interval, SMT DEF Addrs
<1>2. IsFiniteSet(Procs \X Addrs)
  BY <1>1, ProcsAssumption, FS_Product
<1>3. UsersOf(m, g) \subseteq Procs \X Addrs
  BY DEF UsersOf
<1> QED
  BY <1>2, <1>3, FS_Subset, FS_CardinalityType DEF Count

\* page_mapping::set_page: one page loses a user and another gets one.
LEMMA SetPage ==
  ASSUME NEW m, NEW m2, NEW p \in Procs, NEW v \in Addrs, NEW n, NEW h,
         SetTo(m, m2, p, v, n)
  PROVE  \A x : x \in UsersOf(m2, h) <=> IF x = <<p, v>> THEN h = n ELSE x \in UsersOf(m, h)
<1>1. \A q \in Procs, u \in Addrs :
        m2[q][u] = IF <<q, u>> = <<p, v>> THEN n ELSE m[q][u]
  BY DEF SetTo
<1>2. ASSUME NEW x \in Procs \X Addrs
      PROVE  m2[x[1]][x[2]] = h <=> IF x = <<p, v>> THEN h = n ELSE m[x[1]][x[2]] = h
  BY <1>1, <1>2, SMT
<1> QED
  BY <1>2, SMT DEF UsersOf

\* And their numbers of users follow.
LEMMA SetPageCount ==
  ASSUME NEW m, NEW m2, NEW p \in Procs, NEW v \in Addrs, NEW n, NEW h,
         SetTo(m, m2, p, v, n)
  PROVE  Count(m2, h) = Count(m, h) + Same(h, n) - Same(h, m[p][v])
<1>0. \A x : x \in UsersOf(m2, h) <=> IF x = <<p, v>> THEN h = n ELSE x \in UsersOf(m, h)
  BY SetPage, SMT
<1>1. h = n => UsersOf(m2, h) = UsersOf(m, h) \union {<<p, v>>}
  BY <1>0
<1>2. h # n => UsersOf(m2, h) = UsersOf(m, h) \ {<<p, v>>}
  BY <1>0
<1>3. <<p, v>> \in UsersOf(m, h) <=> h = m[p][v]
  BY DEF UsersOf
<1>4. Count(m, h) \in Nat /\ IsFiniteSet(UsersOf(m, h))
  BY UsersFinite
<1>5. CASE h = n
  <2>1. Cardinality(UsersOf(m, h) \union {<<p, v>>}) =
          IF <<p, v>> \in UsersOf(m, h) THEN Cardinality(UsersOf(m, h))
                                        ELSE Cardinality(UsersOf(m, h)) + 1
    BY <1>4, FS_AddElement
  <2>2. Count(m2, h) = IF h = m[p][v] THEN Count(m, h) ELSE Count(m, h) + 1
    BY <1>1, <1>3, <1>5, <2>1 DEF Count
  <2> QED
    BY <1>4, <1>5, <2>2, SMT DEF Same
<1>6. CASE h # n
  <2>1. Cardinality(UsersOf(m, h) \ {<<p, v>>}) =
          IF <<p, v>> \in UsersOf(m, h) THEN Cardinality(UsersOf(m, h)) - 1
                                        ELSE Cardinality(UsersOf(m, h))
    BY <1>4, FS_RemoveElement
  <2>2. Count(m2, h) = IF h = m[p][v] THEN Count(m, h) - 1 ELSE Count(m, h)
    BY <1>2, <1>3, <1>6, <2>1 DEF Count
  <2> QED
    BY <1>4, <1>6, <2>2, SMT DEF Same
<1> QED
  BY <1>5, <1>6

\* m_users stays the number of mappings: each step that sets a mapping adds and
\* takes away the users it should.
LEMMA CountedNext ==
  ASSUME TypeOK, Lives, Spaces, UsersCounted, [Next]_vars
  PROVE  UsersCounted'
<1>0. \A h \in Pages : m_users[h] = Count(mapping, h) + leaked[h]
  BY DEF UsersCounted, Users, UsersOf, Count
<1>1. ASSUME NEW p \in Procs, Populate(p)
      PROVE  UsersCounted'
  <2>1. PICK v \in Addrs : v = at[p] /\ mapping[p][v] = None
    BY <1>1 DEF Lives, Populate
  <2>2. PICK g \in Pages :
          /\ m_users' = [m_users EXCEPT ![g] = @ + 1]
          /\ mapping' = [mapping EXCEPT ![p][v] = g]
    BY <1>1, <2>1 DEF Populate
  <2>3. leaked' = leaked
    BY <1>1 DEF Populate
  <2> SUFFICES ASSUME NEW h \in Pages PROVE m_users'[h] = Count(mapping', h) + leaked'[h]
    BY DEF UsersCounted, Users, UsersOf, Count
  <2>4. Count(mapping', h) = Count(mapping, h) + Same(h, g)
    <3>1. SetTo(mapping, mapping', p, v, g)
      BY <2>1, <2>2 DEF TypeOK, SetTo
    <3>2. Count(mapping', h) =
            Count(mapping, h) + Same(h, g) - Same(h, mapping[p][v])
      BY <3>1, SetPageCount, SMT
    <3> QED
      BY <2>1, <3>2, UsersFinite, NoneAssumption, SMT DEF Same
  <2> QED
    BY <1>0, <2>2, <2>3, <2>4, UsersFinite, SMT DEF TypeOK, Same
<1>2. ASSUME NEW p \in Procs, Look(p)
      PROVE  UsersCounted'
  BY <1>2 DEF Look, memory, UsersCounted, Users
<1>3. ASSUME NEW p \in Procs, Copy(p)
      PROVE  UsersCounted'
  <2>1. PICK v \in Addrs : v = at[p]
    BY <1>3 DEF Lives, Copy, Run
  <2>2. mapping[p][v] \in Pages
    BY <1>3, <2>1, SMT DEF Spaces, SpaceOK, Copy, Run, TypeOK
  <2>3. PICK g \in Pages : g = mapping[p][v]
    BY <2>2
  <2>4. PICK np \in Pages :
          /\ Free(np)
          /\ m_users' = [m_users EXCEPT ![np] = @ + 1, ![g] = @ - 1]
          /\ mapping' = [mapping EXCEPT ![p][v] = np]
    BY <1>3, <2>1, <2>3 DEF Copy
  <2>5. leaked' = leaked /\ np # g
    BY <1>3, <2>1, <2>3, <2>4 DEF Copy, Free
  <2> SUFFICES ASSUME NEW h \in Pages PROVE m_users'[h] = Count(mapping', h) + leaked'[h]
    BY DEF UsersCounted, Users, UsersOf, Count
  <2>6. Count(mapping', h) =
          Count(mapping, h) + Same(h, np) - Same(h, g)
    <3>1. SetTo(mapping, mapping', p, v, np)
      BY <2>1, <2>3, <2>4 DEF TypeOK, SetTo
    <3>2. Count(mapping', h) =
            Count(mapping, h) + Same(h, np) - Same(h, mapping[p][v])
      BY <3>1, SetPageCount, SMT
    <3> QED
      BY <2>3, <3>2, UsersFinite, NoneAssumption DEF Same
  <2>7. m_users'[h] = m_users[h] + Same(h, np) - Same(h, g)
    BY <2>4, <2>5, SMT DEF TypeOK, Same
  <2> QED
    BY <1>0, <2>5, <2>6, <2>7, UsersFinite, SMT DEF TypeOK, Same
<1>4. ASSUME NEW p \in Procs, Share(p)
      PROVE  UsersCounted'
  <2>1. PICK v \in Addrs, c \in Procs : v = at[p] /\ c = child[p] /\ pc[p] = "share"
    BY <1>4 DEF Lives, Share, Run, TypeOK
  <2>2. mapping[c][v] = None
    <3>1. Unused(c, v)
      BY <2>1 DEF Unused
    <3> QED
      BY <2>1, <3>1 DEF Spaces, SpaceOK
  <2>3. PICK g \in Pages \union {None} : g = mapping[p][v]
    BY <2>1, SMT DEF TypeOK
  <2>4. /\ m_users' = IF g = None THEN m_users ELSE [m_users EXCEPT ![g] = @ + 1]
        /\ mapping' = [mapping EXCEPT ![c][v] = g]
        /\ leaked' = leaked
    BY <1>4, <2>1, <2>3 DEF Share
  <2> SUFFICES ASSUME NEW h \in Pages PROVE m_users'[h] = Count(mapping', h) + leaked'[h]
    BY DEF UsersCounted, Users, UsersOf, Count
  <2>5. Count(mapping', h) = Count(mapping, h) + Same(h, g)
    <3>1. SetTo(mapping, mapping', c, v, g)
      BY <2>1, <2>2, <2>4 DEF TypeOK, SetTo
    <3>2. Count(mapping', h) =
            Count(mapping, h) + Same(h, g) - Same(h, mapping[c][v])
      BY <3>1, SetPageCount, SMT
    <3> QED
      BY <2>2, <3>2, UsersFinite, NoneAssumption, SMT DEF Same
  <2> QED
    BY <1>0, <2>4, <2>5, UsersFinite, NoneAssumption, SMT DEF TypeOK, Same
<1>5. ASSUME NEW p \in Procs, Protect(p)
      PROVE  UsersCounted'
  BY <1>5 DEF Protect, memory, UsersCounted, Users
<1>6. ASSUME NEW p \in Procs, ForkEnd(p)
      PROVE  UsersCounted'
  BY <1>6 DEF ForkEnd, memory, UsersCounted, Users
<1>7. ASSUME NEW p \in Procs, exit(p)
      PROVE  UsersCounted'
  BY <1>7 DEF exit, memory, UsersCounted, Users
<1>8. ASSUME NEW p \in Procs, Drop(p)
      PROVE  UsersCounted'
  <2>1. PICK v \in Addrs : v = at[p]
    BY <1>8 DEF Lives, Drop
  <2>2. PICK g \in Pages \union {None} : g = mapping[p][v]
    BY <2>1, SMT DEF TypeOK
  <2>3. /\ m_users' = IF g = None THEN m_users ELSE [m_users EXCEPT ![g] = @ - 1]
        /\ mapping' = [mapping EXCEPT ![p][v] = None]
        /\ leaked' = leaked
    BY <1>8, <2>1, <2>2 DEF Drop, memory
  <2> SUFFICES ASSUME NEW h \in Pages PROVE m_users'[h] = Count(mapping', h) + leaked'[h]
    BY DEF UsersCounted, Users, UsersOf, Count
  <2>4. Count(mapping', h) = Count(mapping, h) - Same(h, g)
    <3>1. SetTo(mapping, mapping', p, v, None)
      BY <2>1, <2>2, <2>3 DEF TypeOK, SetTo
    <3>2. Count(mapping', h) =
            Count(mapping, h) + Same(h, None) - Same(h, mapping[p][v])
      BY <3>1, SetPageCount, SMT
    <3> QED
      BY <2>2, <3>2, UsersFinite, NoneAssumption, SMT DEF Same
  <2> QED
    BY <1>0, <2>3, <2>4, UsersFinite, NoneAssumption, SMT DEF TypeOK, Same
<1>9. ASSUME NEW p \in Procs, NEW q \in Procs, fork(p, q)
      PROVE  UsersCounted'
  BY <1>9 DEF fork, memory, UsersCounted, Users
<1>10. ASSUME NEW p \in Procs, NEW v \in Addrs, unmap(p, v)
      PROVE  UsersCounted'
  <2>1. PICK g \in Pages \union {None} : g = mapping[p][v]
    BY DEF TypeOK
  <2>2. /\ leaked' = [h \in Pages |-> IF h = g THEN leaked[h] + 1 ELSE leaked[h]]
        /\ mapping' = [mapping EXCEPT ![p][v] = None]
        /\ m_users' = m_users
    BY <1>10, <2>1 DEF unmap, memory
  <2> SUFFICES ASSUME NEW h \in Pages PROVE m_users'[h] = Count(mapping', h) + leaked'[h]
    BY DEF UsersCounted, Users, UsersOf, Count
  <2>3. Count(mapping', h) = Count(mapping, h) - Same(h, g)
    <3>1. SetTo(mapping, mapping', p, v, None)
      BY <2>1, <2>2 DEF TypeOK, SetTo
    <3>2. Count(mapping', h) =
            Count(mapping, h) + Same(h, None) - Same(h, mapping[p][v])
      BY <3>1, SetPageCount, SMT
    <3> QED
      BY <2>1, <3>2, UsersFinite, NoneAssumption, SMT DEF Same
  <2> QED
    BY <1>0, <2>2, <2>3, UsersFinite, SMT DEF TypeOK, Same
<1>11. ASSUME NEW p \in Procs, NEW v \in Addrs, NEW x \in Values, Store(p, v, x)
      PROVE  UsersCounted'
  BY <1>11 DEF Store, memory, UsersCounted, Users
<1>12. ASSUME NEW p \in Procs, NEW v \in Addrs, NEW kind \in Kinds, mmap(p, v, kind)
      PROVE  UsersCounted'
  BY <1>12 DEF mmap, memory, UsersCounted, Users
<1>13. ASSUME NEW p \in Procs, NEW v \in Addrs, NEW write \in BOOLEAN, fault(p, v, write)
      PROVE  UsersCounted'
  BY <1>13 DEF fault, memory, UsersCounted, Users
<1>14. CASE UNCHANGED vars
  BY <1>14 DEF vars, memory, UsersCounted, Users
<1> QED
  BY <1>1, <1>2, <1>3, <1>4, <1>5, <1>6, <1>7, <1>8, <1>9, <1>10, <1>11, <1>12, <1>13, <1>14 DEF Next

\* A page that is counted once is in one mapping.
LEMMA OneUser ==
  ASSUME NEW m, NEW p \in Procs, NEW v \in Addrs, NEW h, m[p][v] = h, Count(m, h) <= 1,
         NEW q \in Procs, NEW u \in Addrs, m[q][u] = h
  PROVE  q = p /\ u = v
<1>1. <<p, v>> \in UsersOf(m, h) /\ <<q, u>> \in UsersOf(m, h)
  BY DEF UsersOf
<1>2. IsFiniteSet(UsersOf(m, h)) /\ Count(m, h) \in Nat
  BY UsersFinite
<1>3. /\ IsFiniteSet(UsersOf(m, h) \ {<<p, v>>})
      /\ Cardinality(UsersOf(m, h) \ {<<p, v>>}) = Cardinality(UsersOf(m, h)) - 1
  BY <1>1, <1>2, FS_RemoveElement
<1>4. Cardinality(UsersOf(m, h) \ {<<p, v>>}) \in Nat
  BY <1>3, FS_CardinalityType
<1>5. Cardinality(UsersOf(m, h) \ {<<p, v>>}) = 0
  BY <1>2, <1>3, <1>4, SMT DEF Count
<1>6. UsersOf(m, h) \ {<<p, v>>} = {}
  BY <1>3, <1>5, FS_EmptySet
<1> QED
  BY <1>1, <1>6, SMT

\* A writable page stays alone: a fault maps a fresh page or, without writing
\* rights, the object's; a fork exempts the address until both entries are
\* protected; and a page that is not copied has one user.
LEMMA OwnedNext ==
  ASSUME TypeOK, Lives, Spaces, ChildReads, UsersCounted, Owned, [Next]_vars
  PROVE  Owned'
<1> SUFFICES ASSUME NEW q \in Procs, NEW u \in Addrs, MayWrite(q, u)'
             PROVE  Alone(q, u)'
  BY DEF Owned
<1>0. MayWrite(q, u) => Alone(q, u)
  BY DEF Owned
<1>a. pte[q][u] # None => pte[q][u].pg = mapping[q][u] /\ mapping[q][u] \in Pages
  BY NoneAssumption, SMT DEF Spaces, SpaceOK, TypeOK, Entry
<1>1. ASSUME NEW p \in Procs, Populate(p)
      PROVE  Alone(q, u)'
  <2>1. PICK v \in Addrs : v = at[p] /\ mapping[p][v] = None /\ p \in live
    BY <1>1 DEF Lives, Populate
  <2>2. pte[p][v] = None
    BY <2>1, NoneAssumption, SMT DEF Spaces, SpaceOK, TypeOK, Entry
  <2>3. PICK g \in Pages :
          /\ mapping' = [mapping EXCEPT ![p][v] = g]
          /\ \/ Free(g) /\ area[p][v] = "anon" /\ pages' = pages
             \/ area[p][v] # "anon" /\ g = pages[v] /\ pages' = pages
             \/ area[p][v] # "anon" /\ Free(g) /\ pages' = [pages EXCEPT ![v] = g]
          /\ pte' = pte \/ add_mapping(p, v, g, area[p][v] = "anon")
    BY <1>1, <2>1 DEF Populate
  <2>4. /\ area' = area /\ live' = live /\ at' = at
        /\ \A r \in Procs : pc'[r] = "protect" <=> pc[r] = "protect"
    BY <1>1, SMT DEF Populate, Run, TypeOK
  <2>5. CASE q = p /\ u = v
    <3>1. pte'[p][v] # None /\ pte'[p][v].w
      BY <2>5 DEF MayWrite
    <3>2. area[p][v] = "anon"
      <4>1. SUFFICES ASSUME area[p][v] # "anon" PROVE FALSE
        OBVIOUS
      <4>2. pte' # pte
        BY <2>2, <3>1
      <4>3. add_mapping(p, v, g, FALSE)
        <5>1. (area[p][v] = "anon") = FALSE
          BY <4>1
        <5> QED
          BY <2>3, <4>2, <5>1
      <4>4. pte'[p][v] = [pg |-> g, w |-> FALSE]
        BY <4>3 DEF add_mapping, TypeOK
      <4> QED
        BY <3>1, <4>4, SMT
    <3>3. Free(g) /\ pages' = pages
      BY <2>3, <3>2
    <3> QED
      BY <2>3, <2>5, <3>3 DEF Alone, Free, TypeOK
  <2>6. CASE ~(q = p /\ u = v)
    <3>1. pte'[q][u] = pte[q][u] /\ mapping'[q][u] = mapping[q][u]
      BY <2>3, <2>6, SMT DEF TypeOK, add_mapping
    <3>2. Alone(q, u)
      BY <1>0, <2>4, <3>1 DEF MayWrite
    <3>3. g # mapping[q][u]
      BY <2>3, <3>2 DEF Free, Alone
    <3> QED
      BY <2>3, <3>1, <3>2, <3>3, SMT DEF Alone, TypeOK
  <2> QED
    BY <2>5, <2>6
<1>2. ASSUME NEW p \in Procs, Look(p)
      PROVE  Alone(q, u)'
  <2>1. PICK v \in Addrs : v = at[p] /\ mapping[p][v] # None /\ pc[p] = "write" /\ p \in live
    BY <1>2 DEF Lives, Look
  <2>2. PICK g \in Pages : g = mapping[p][v]
    BY <2>1, SMT DEF TypeOK
  <2>3. /\ UNCHANGED <<area, mapping, pages, m_users, live, at>>
        /\ \A r \in Procs : pc'[r] = "protect" <=> pc[r] = "protect"
    BY <1>2, <2>1 DEF Look, Run, memory, TypeOK
  <2>4. \/ pte' = pte
        \/ /\ pte' = [pte EXCEPT ![p][v] = [pg |-> g, w |-> TRUE]]
           /\ area[p][v] = "shared" \/ ~MustCopy(p, v)
    BY <1>2, <2>1, <2>2 DEF Look, add_mapping
  <2>5. CASE q = p /\ u = v /\ pte' # pte
    <3>1. area[p][v] # "shared"
      BY <2>3, <2>5 DEF MayWrite
    <3>2. m_users[g] <= 1 /\ area[p][v] # "file"
      BY <2>2, <2>4, <2>5, <3>1, SMT DEF MustCopy, TypeOK
    <3>3. \A w \in Addrs : pages[w] # g
      BY <2>1, <2>2, <3>1, <3>2, KindsAssumption, SMT DEF Spaces, SpaceOK, TypeOK
    <3>4. m_users[g] = Count(mapping, g) + leaked[g]
      BY DEF UsersCounted, Users, UsersOf, Count
    <3>5. Count(mapping, g) <= 1
      BY <3>2, <3>4, UsersFinite, SMT DEF TypeOK
    <3>6. \A r \in Procs, w \in Addrs : mapping[r][w] = g => r = p /\ w = v
      BY <2>2, <3>5, OneUser, SMT
    <3> QED
      BY <2>2, <2>3, <2>5, <3>3, <3>6 DEF Alone
  <2>6. CASE ~(q = p /\ u = v) \/ pte' = pte
    <3>1. pte'[q][u] = pte[q][u]
      BY <2>4, <2>6, SMT DEF TypeOK
    <3> QED
      BY <1>0, <2>3, <3>1 DEF MayWrite, Alone
  <2> QED
    BY <2>5, <2>6
<1>3. ASSUME NEW p \in Procs, Copy(p)
      PROVE  Alone(q, u)'
  BY <1>3, <1>0, <1>a, NoneAssumption, SMT DEF TypeOK, Lives, Spaces, SpaceOK, ChildReads, MayWrite, Alone, Copy, Run, add_mapping, Free, Addrs, Entry
<1>4. ASSUME NEW p \in Procs, Share(p)
      PROVE  Alone(q, u)'
  BY <1>4, <1>0, <1>a, NoneAssumption, SMT DEF TypeOK, Lives, Spaces, SpaceOK, ChildReads, MayWrite, Alone, Share, Run, Addrs, Entry
<1>5. ASSUME NEW p \in Procs, Protect(p)
      PROVE  Alone(q, u)'
  <2>1. PICK v \in Addrs, c \in Procs : v = at[p] /\ c = child[p] /\ pc[p] = "protect"
    BY <1>5 DEF Lives, Protect, Run, TypeOK
  <2>2. c \notin live
    BY <2>1, NoneAssumption DEF Lives
  <2>3. PICK g \in Pages \union {None} : g = mapping[p][v]
    BY <2>1, SMT DEF TypeOK
  <2>4. pte' = IF g = None THEN pte
               ELSE [pte EXCEPT ![p][v] = [pg |-> g, w |-> FALSE],
                                ![c][v] = [pg |-> g, w |-> FALSE]]
    BY <1>5, <2>1, <2>3 DEF Protect
  <2>5. UNCHANGED <<area, mapping, pages, live>>
    BY <1>5 DEF Protect
  <2>6. q # c
    BY <2>2, <2>5 DEF MayWrite
  <2>7. ~(q = p /\ u = v)
    <3>1. SUFFICES ASSUME q = p, u = v PROVE FALSE
      OBVIOUS
    <3>2. g = None
      BY <2>4, <2>6, <3>1 DEF MayWrite, TypeOK
    <3>3. pte[q][u] # None
      BY <2>4, <3>2 DEF MayWrite
    <3> QED
      BY <1>a, <2>3, <3>1, <3>2, <3>3, NoneAssumption
  <2>8. pte'[q][u] = pte[q][u]
    BY <2>4, <2>6, <2>7 DEF TypeOK
  <2>9. ~(pc[q] = "protect" /\ at[q] = u)
    BY <1>5, <2>1, <2>7 DEF MayWrite, Protect, Run, TypeOK
  <2> QED
    BY <1>0, <2>5, <2>8, <2>9 DEF MayWrite, Alone
<1>6. ASSUME NEW p \in Procs, ForkEnd(p)
      PROVE  Alone(q, u)'
  BY <1>6, <1>0, <1>a, NoneAssumption, SMT DEF TypeOK, Lives, Spaces, SpaceOK, ChildReads, MayWrite, Alone, ForkEnd, Run, Addrs, Entry
<1>7. ASSUME NEW p \in Procs, exit(p)
      PROVE  Alone(q, u)'
  BY <1>7, <1>0, <1>a, NoneAssumption, SMT DEF TypeOK, Lives, Spaces, SpaceOK, ChildReads, MayWrite, Alone, exit, Run, Addrs, Entry
<1>8. ASSUME NEW p \in Procs, Drop(p)
      PROVE  Alone(q, u)'
  <2>1. PICK v \in Addrs : v = at[p] /\ p \notin live
    BY <1>8 DEF Lives, Drop
  <2>2. /\ area' = [area EXCEPT ![p][v] = None] /\ mapping' = [mapping EXCEPT ![p][v] = None]
        /\ pte' = [pte EXCEPT ![p][v] = None] /\ UNCHANGED <<pages, live>>
        /\ \A r \in Procs : r # p => pc'[r] = pc[r] /\ at'[r] = at[r]
    BY <1>8, <2>1 DEF Drop, Run, TypeOK
  <2>3. q # p
    BY <2>1, <2>2 DEF MayWrite
  <2>4. area'[q][u] = area[q][u] /\ pte'[q][u] = pte[q][u] /\ mapping'[q][u] = mapping[q][u]
    BY <2>2, <2>3 DEF TypeOK
  <2>5. Alone(q, u)
    BY <1>0, <2>2, <2>3, <2>4 DEF MayWrite
  <2> QED
    BY <2>2, <2>4, <2>5, NoneAssumption, SMT DEF Alone, TypeOK
<1>9. ASSUME NEW p \in Procs, NEW r \in Procs, fork(p, r)
      PROVE  Alone(q, u)'
  BY <1>9, <1>0, <1>a, NoneAssumption, SMT DEF TypeOK, Lives, Spaces, SpaceOK, MayWrite, Alone, fork, Run
<1>10. ASSUME NEW p \in Procs, NEW v \in Addrs, unmap(p, v)
      PROVE  Alone(q, u)'
  BY <1>10, <1>0, <1>a, NoneAssumption, SMT DEF TypeOK, Lives, Spaces, SpaceOK, MayWrite, Alone, unmap, Run
<1>11. ASSUME NEW p \in Procs, NEW v \in Addrs, NEW x \in Values, Store(p, v, x)
      PROVE  Alone(q, u)'
  BY <1>0, <1>11 DEF MayWrite, Alone, Store
<1>12. ASSUME NEW p \in Procs, NEW v \in Addrs, NEW kind \in Kinds, mmap(p, v, kind)
      PROVE  Alone(q, u)'
  BY <1>12, <1>0, <1>a, NoneAssumption, SMT DEF TypeOK, Lives, Spaces, SpaceOK, MayWrite, Alone, mmap, Run
<1>13. ASSUME NEW p \in Procs, NEW v \in Addrs, NEW write \in BOOLEAN, fault(p, v, write)
      PROVE  Alone(q, u)'
  BY <1>13, <1>0, <1>a, NoneAssumption, SMT DEF TypeOK, Lives, Spaces, SpaceOK, MayWrite, Alone, fault, Run
<1>14. CASE UNCHANGED vars
  BY <1>14, <1>0 DEF vars, memory, MayWrite, Alone
<1> QED
  BY <1>1, <1>2, <1>3, <1>4, <1>5, <1>6, <1>7, <1>8, <1>9, <1>10, <1>11, <1>12, <1>13, <1>14 DEF Next

\* IInv holds at first: no space has an area, and no page a user.
LEMMA InitIInv ==
  ASSUME Init
  PROVE  IInv
<1>1. \A p \in Procs, v \in Addrs : area[p][v] = None /\ mapping[p][v] = None /\ pte[p][v] = None
  BY DEF Init, Empty
<1>2. TypeOK
  BY NAddrsAssumption, SMT DEF Init, Empty, TypeOK, Entry, Addrs
<1>3. Lives
  BY DEF Init, Lives
<1>4. Spaces /\ ChildReads
  BY <1>1, NoneAssumption DEF Init, Spaces, SpaceOK, ChildReads
<1>5. UsersCounted
  <2> SUFFICES ASSUME NEW g \in Pages
               PROVE  m_users[g] = Cardinality(Users(g)) + leaked[g]
    BY DEF UsersCounted
  <2>1. Users(g) = {}
    BY <1>1, NoneAssumption DEF Users
  <2> QED
    BY <2>1, FS_EmptySet, SMT DEF Init
<1>6. Owned
  BY <1>1 DEF Owned, MayWrite
<1> QED
  BY <1>2, <1>3, <1>4, <1>5, <1>6 DEF IInv

\* Every step keeps IInv.
LEMMA NextIInv ==
  ASSUME IInv, [Next]_vars
  PROVE  IInv'
<1>1. TypeOK' /\ Lives'
  BY TypeNext, LivesNext DEF IInv
<1>2. Spaces' /\ ChildReads'
  BY SpacesNext, ChildReadsNext DEF IInv
<1>3. UsersCounted' /\ Owned'
  BY CountedNext, OwnedNext DEF IInv
<1> QED
  BY <1>1, <1>2, <1>3 DEF IInv

\* IInv says of writable pages what WritableIsOwn says: the page of an entry is
\* the page of the mapping.
LEMMA OwnedIsOwn ==
  ASSUME IInv
  PROVE  WritableIsOwn
<1> SUFFICES ASSUME NEW p \in live, NEW v \in Addrs,
                    pte[p][v] # None, pte[p][v].w, area[p][v] # "shared",
                    ~(pc[p] = "protect" /\ at[p] = v)
             PROVE  /\ Users(pte[p][v].pg) = {<<p, v>>}
                    /\ \A u \in Addrs : pages[u] # pte[p][v].pg
  BY DEF WritableIsOwn
<1>1. p \in Procs
  BY DEF IInv, TypeOK
<1>2. pte[p][v].pg = mapping[p][v]
  BY <1>1 DEF IInv, Spaces, SpaceOK
<1>3. Alone(p, v)
  BY <1>1 DEF IInv, Owned, MayWrite
<1> QED
  BY <1>1, <1>2, <1>3, SMT DEF Users, Alone

\* get_page_internal, fork, unmap and ~area: however faults, forks, unmaps and
\* exits of any number of processes interleave, m_users is the number of the
\* mappings of a page.
THEOREM UsersAreCounted == Spec => []UsersCounted
<1>1. Init => IInv
  BY InitIInv
<1>2. IInv /\ [Next]_vars => IInv'
  BY NextIInv
<1>3. IInv => UsersCounted
  BY DEF IInv
<1> QED
  BY <1>1, <1>2, <1>3, PTL DEF Spec

\* And a page that a process may write to without a fault is in no other
\* mapping, and is not the page of an object.
THEOREM PagesAreOwn == Spec => []WritableIsOwn
<1>1. Init => IInv
  BY InitIInv
<1>2. IInv /\ [Next]_vars => IInv'
  BY NextIInv
<1>3. IInv => WritableIsOwn
  BY OwnedIsOwn
<1> QED
  BY <1>1, <1>2, <1>3, PTL DEF Spec

------------------------------------------------------------------------------
(* Private memories *)

\* A frame holds what was stored, and that of a page nobody refers to holds nothing.
Frames ==
  /\ data \in [Pages -> Values \union {Zero}]
  /\ \A g \in Pages : Free(g) => data[g] = Zero

\* The page of an object is mapped at the object's address only, and it is what a
\* shared area maps.
Objects ==
  /\ \A u, v \in Addrs : pages[v] # None =>
       /\ pages[u] = pages[v] => u = v
       /\ \A p \in Procs : mapping[p][u] = pages[v] => u = v
  /\ \A p \in Procs, v \in Addrs :
       area[p][v] = "shared" /\ mapping[p][v] # None => mapping[p][v] = pages[v]

\* A page that is mapped and not in the page table yet is the object's, or a new
\* one that a write fault has got and not yet given to the processor.
NoEntry(p, v) ==
  p \in live /\ pte[p][v] = None /\ mapping[p][v] # None =>
    /\ area[p][v] = "file" => mapping[p][v] = pages[v]
    /\ area[p][v] = "anon" =>
         /\ pc[p] \in {"write", "copy"} /\ at[p] = v
         /\ Alone(p, v) /\ data[mapping[p][v]] = Zero

NoEntries == \A p \in Procs, v \in Addrs : NoEntry(p, v)

\* The space that fork() makes is that of the parent as far as fork() has got.
Forked ==
  \A p \in Procs, v \in Addrs : child[p] # None =>
    /\ v < at[p] \/ (v = at[p] /\ pc[p] = "protect") => area[child[p]][v] = area[p][v]
    /\ v < at[p] => pte[child[p]][v] = pte[p][v] /\ mapping[child[p]][v] = mapping[p][v]

\* Only private pages are copied.
Copies == \A p \in Procs : pc[p] = "copy" => area[p][at[p]] # "shared"

\* The inductive invariant, with what the processes see.
MInv == IInv /\ Frames /\ Objects /\ NoEntries /\ Forked /\ Copies

\* What is in the page table, or mapped, or an area.
LEMMA Mapped ==
  ASSUME IInv, NEW p \in Procs, NEW v \in Addrs
  PROVE  /\ pte[p][v] # None => pte[p][v].pg = mapping[p][v] /\ mapping[p][v] \in Pages
         /\ mapping[p][v] # None => mapping[p][v] \in Pages /\ area[p][v] # None
         /\ area[p][v] \in {"anon", "shared", "file", None}
BY NoneAssumption, KindsAssumption, SMT DEF IInv, Spaces, SpaceOK, TypeOK, Entry

\* An entry of a page table is one.
LEMMA AnEntry ==
  ASSUME NEW g \in Pages, NEW w \in BOOLEAN
  PROVE  [pg |-> g, w |-> w] # None
<1>1. [pg |-> g, w |-> w] \in [pg : Pages, w : BOOLEAN]
  OBVIOUS
<1> QED BY <1>1, NoneAssumption

\* What an object holds.
Obj(v) == IF pages[v] = None THEN Zero ELSE data[pages[v]]

\* A step that changes nothing that a process sees.
SeesSame ==
  /\ live' = live
  /\ \A q \in Procs, u \in Addrs : Memory(q, u)' = Memory(q, u)
  /\ \A u \in Addrs : Obj(u)' = Obj(u)

\* A step after which everything looks the same is a stutter of PrivateMemory.
LEMMA Stutters == SeesSame => UNCHANGED Private!vars
BY DEF SeesSame, Private!vars, Obj

\* What a process sees does not change where its area, its entry and the frame stay.
LEMMA MemorySame ==
  ASSUME NEW q \in Procs, NEW u \in Addrs, q \in live <=> q \in live',
         area'[q][u] = area[q][u], pte'[q][u] = pte[q][u],
         pages'[u] = pages[u],
         q \in live /\ pte[q][u] # None /\ pte[q][u].pg # pages[u]
           => data'[pte[q][u].pg] = data[pte[q][u].pg]
  PROVE  Memory(q, u)' = Memory(q, u)
BY DEF Memory

\* A page is alone as long as no other mapping and no object gets it.
LEMMA AloneSame ==
  ASSUME NEW q \in Procs, NEW u \in Addrs, Alone(q, u), mapping'[q][u] = mapping[q][u],
         \A r \in Procs, w \in Addrs :
           mapping'[r][w] = mapping[r][w] \/ mapping'[r][w] # mapping[q][u],
         \A w \in Addrs : pages'[w] = pages[w] \/ pages'[w] # mapping[q][u]
  PROVE  Alone(q, u)'
BY DEF Alone

\* The page that a mapping lets go of is destroyed exactly if nothing else refers to it.
LEMMA LastUser ==
  ASSUME IInv, NEW p \in Procs, NEW v \in Addrs, NEW g \in Pages, mapping[p][v] = g
  PROVE  /\ After(g) # data[g] => Alone(p, v)
         /\ Alone(p, v) /\ leaked[g] = 0 => After(g) = Zero
<1>1. m_users[g] = Count(mapping, g) + leaked[g]
  BY DEF IInv, UsersCounted, Users, UsersOf, Count
<1>2. Count(mapping, g) \in Nat /\ leaked[g] \in Nat
  BY UsersFinite DEF IInv, TypeOK
<1>3. ASSUME After(g) # data[g] PROVE Alone(p, v)
  <2>1. m_users[g] = 1 /\ \A u \in Addrs : pages[u] # g
    BY <1>3 DEF After
  <2>2. Count(mapping, g) <= 1
    BY <1>1, <1>2, <2>1, SMT
  <2>3. \A q \in Procs, u \in Addrs : mapping[q][u] = g => q = p /\ u = v
    BY <2>2, OneUser, SMT
  <2> QED BY <2>1, <2>3 DEF Alone
<1>4. ASSUME Alone(p, v), leaked[g] = 0 PROVE After(g) = Zero
  <2>1. UsersOf(mapping, g) = {<<p, v>>}
    BY <1>4, SMT DEF UsersOf, Alone
  <2>2. Count(mapping, g) = 1
    BY <2>1, FS_Singleton DEF Count
  <2> QED BY <1>1, <1>2, <1>4, <2>2, SMT DEF After, Alone
<1> QED BY <1>3, <1>4

\* A process that does not fork leaves the spaces being made and their parents alone.
LEMMA ForkedSame ==
  ASSUME IInv, Forked, NEW p \in Procs, pc[p] \notin {"share", "protect"},
         p \in live \/ pc[p] = "drop", child' = child,
         \A r \in Procs : r # p => /\ pc'[r] = pc[r] /\ at'[r] = at[r] /\ area'[r] = area[r]
                                   /\ mapping'[r] = mapping[r] /\ pte'[r] = pte[r]
  PROVE  Forked'
<1> SUFFICES ASSUME NEW r \in Procs, child[r] # None, NEW v \in Addrs
             PROVE  /\ v < at'[r] \/ (v = at'[r] /\ pc'[r] = "protect")
                         => area'[child[r]][v] = area'[r][v]
                    /\ v < at'[r] => /\ pte'[child[r]][v] = pte'[r][v]
                                     /\ mapping'[child[r]][v] = mapping'[r][v]
  BY DEF Forked
<1>1. r # p /\ child[r] # p /\ child[r] \in Procs
  BY SMT DEF IInv, Lives, TypeOK
<1> QED BY <1>1, SMT DEF Forked

\* A mapping that loses its page, or gets one that is no object's.
LEMMA ObjectsSame ==
  ASSUME Objects, pages' = pages,
         \A r \in Procs, u \in Addrs :
           /\ \/ mapping'[r][u] = mapping[r][u] \/ mapping'[r][u] = None
              \/ \A w \in Addrs : pages[w] # mapping'[r][u]
           /\ area'[r][u] = "shared" /\ mapping'[r][u] # None
                => area[r][u] = "shared" /\ mapping'[r][u] = mapping[r][u]
  PROVE  Objects'
BY SMT DEF Objects

\* An address whose mapping, entry and area a step leaves alone.
LEMMA NoEntrySame ==
  ASSUME NEW q \in Procs, NEW u \in Addrs, NoEntry(q, u),
         q \in live' => q \in live,
         pte'[q][u] = pte[q][u], mapping'[q][u] = mapping[q][u], area'[q][u] = area[q][u],
         pages'[u] = pages[u] \/ mapping[q][u] # pages[u],
         pc[q] \in {"write", "copy"} /\ at[q] = u /\ pte[q][u] = None
           => pc'[q] \in {"write", "copy"} /\ at'[q] = u,
         Alone(q, u) => Alone(q, u)' /\ data'[mapping[q][u]] = data[mapping[q][u]]
  PROVE  NoEntry(q, u)'
BY DEF NoEntry

\* A step that changes what one process sees at one address.
LEMMA SetMemory ==
  ASSUME NEW p \in Procs, NEW v \in Addrs, NEW x,
         \A q \in Procs, u \in Addrs :
           Memory(q, u)' = IF q = p /\ u = v THEN x ELSE Memory(q, u)
  PROVE  Private!Set(p, v, x)
BY DEF Private!Set

\* Objects that each look the same are the same function of the address.
LEMMA SameObjects ==
  ASSUME \A u \in Addrs : Obj(u)' = Obj(u)
  PROVE  UNCHANGED [v \in Addrs |-> IF pages[v] = None THEN Zero ELSE data[pages[v]]]
BY DEF Obj

\* What every step keeps beside IInv.
Sees == Frames /\ Objects /\ NoEntries /\ Forked

\* A store goes to the object, or to a page that nobody else refers to.
LEMMA StoreSees ==
  ASSUME MInv, NEW p \in Procs, NEW v \in Addrs, NEW x \in Values, Store(p, v, x)
  PROVE  Sees' /\ Private!Store(p, v, x)
<1> DEFINE g == mapping[p][v]
<1>1. /\ p \in live /\ pc[p] = "user" /\ pte[p][v] # None /\ pte[p][v].w
      /\ pte[p][v].pg = g /\ g \in Pages /\ area[p][v] # None
  BY Mapped, NoneAssumption DEF MInv, Store
<1>2. /\ data' = [data EXCEPT ![g] = x]
      /\ UNCHANGED <<area, mapping, pte, pages, leaked, live, pc, at, child>>
  BY <1>1 DEF Store
<1>3. data \in [Pages -> Values \union {Zero}]
  BY DEF MInv, Frames
<1>4. area[p][v] # "shared" => Alone(p, v)
  BY <1>1 DEF MInv, IInv, Owned, MayWrite
<1>5. area[p][v] = "shared" => g = pages[v]
  BY <1>1, NoneAssumption DEF MInv, Objects
<1>6. ~Free(g)
  BY DEF Free
<1> HIDE DEF g
<1>7. Frames'
  BY <1>1, <1>2, <1>3, <1>6 DEF MInv, Frames, Free
<1>8. Objects' /\ Forked'
  BY <1>2, SMT DEF MInv, Objects, Forked
<1>9. NoEntries'
  <2> SUFFICES ASSUME NEW q \in Procs, NEW u \in Addrs PROVE NoEntry(q, u)'
    BY DEF NoEntries
  <2>1. NoEntry(q, u)
    BY DEF MInv, NoEntries
  <2>2. CASE q = p /\ u = v
    BY <1>1, <1>2, <2>2 DEF NoEntry
  <2>3. CASE ~(q = p /\ u = v)
    <3>1. ASSUME Alone(q, u) PROVE mapping[q][u] # g
      BY <2>3, <3>1 DEF Alone, g
    <3>2. Alone(q, u) => data'[mapping[q][u]] = data[mapping[q][u]]
      BY <1>2, <1>3, <3>1 DEF Alone
    <3>3. Alone(q, u) => Alone(q, u)'
      BY <1>2 DEF Alone
    <3> QED BY <1>2, <2>1, <3>2, <3>3, NoEntrySame
  <2> QED BY <2>2, <2>3
<1>10. ASSUME NEW q \in Procs, NEW u \in Addrs, ~(q = p /\ u = v)
       PROVE  Memory(q, u)' = Memory(q, u)
  <2>1. pte[q][u] # None /\ pte[q][u].pg # pages[u] => pte[q][u].pg # g
    <3>1. pte[q][u] # None => pte[q][u].pg = mapping[q][u]
      BY Mapped DEF MInv
    <3>2. CASE area[p][v] = "shared"
      BY <1>1, <1>5, <3>1, <3>2, NoneAssumption, SMT DEF MInv, Objects
    <3>3. CASE area[p][v] # "shared"
      BY <1>4, <1>10, <3>1, <3>3 DEF Alone, g
    <3> QED BY <3>2, <3>3
  <2>2. pte[q][u] # None => pte[q][u].pg \in Pages
    BY Mapped DEF MInv
  <2> QED BY <1>2, <1>3, <2>1, <2>2, MemorySame
<1>11. CASE area[p][v] = "shared"
  <2>1. Memory(p, v) = "shared" /\ Memory(p, v)' = "shared"
    BY <1>1, <1>2, <1>11, NoneAssumption DEF Memory
  <2>2. \A q \in Procs, u \in Addrs : Memory(q, u)' = Memory(q, u)
    BY <1>10, <2>1
  <2>3. \A u \in Addrs : Obj(u)' = IF u = v THEN x ELSE Obj(u)
    BY <1>1, <1>2, <1>3, <1>5, <1>11, NoneAssumption, SMT DEF MInv, IInv, TypeOK, Objects, Obj
  <2> QED BY <1>1, <1>2, <1>7, <1>8, <1>9, <2>1, <2>2, <2>3 DEF Sees, Private!Store, Obj
<1>12. CASE area[p][v] # "shared"
  <2>1. \A u \in Addrs : pages[u] # g
    BY <1>4, <1>12 DEF Alone, g
  <2>2. Memory(p, v) = data[g] /\ Memory(p, v)' = x
    BY <1>1, <1>2, <1>3, <1>12, <2>1, NoneAssumption DEF Memory
  <2>3. Private!Set(p, v, x)
    BY <1>10, <2>2, SetMemory
  <2>4. \A u \in Addrs : Obj(u)' = Obj(u)
    BY <1>2, <1>3, <2>1 DEF MInv, IInv, TypeOK, Obj
  <2>5. Memory(p, v) \in Values \union {Zero}
    BY <1>1, <1>3, <2>2
  <2> QED BY <1>1, <1>2, <1>7, <1>8, <1>9, <2>3, <2>4, <2>5, SameObjects DEF Sees, Private!Store
<1> QED BY <1>11, <1>12

\* A new area reads as zeroes, or as the object.
LEMMA mmapSees ==
  ASSUME MInv, NEW p \in Procs, NEW v \in Addrs, NEW kind \in Kinds, mmap(p, v, kind)
  PROVE  Sees' /\ Private!Map(p, v)
<1>1. /\ p \in live /\ pc[p] = "user" /\ area[p][v] = None /\ mapping[p][v] = None /\ pte[p][v] = None
      /\ kind # None /\ kind \in {"anon", "shared", "file"}
  BY Mapped, NoneAssumption, KindsAssumption DEF MInv, mmap
<1>2. /\ area' = [area EXCEPT ![p][v] = kind]
      /\ UNCHANGED <<mapping, pte, pages, data, leaked, live, pc, at, child>>
  BY DEF mmap, memory
<1>3. \A q \in Procs, u \in Addrs : area'[q][u] = IF q = p /\ u = v THEN kind ELSE area[q][u]
  BY <1>2 DEF MInv, IInv, TypeOK
<1>4. Frames'
  BY <1>2 DEF MInv, Frames, Free
<1>5. Objects'
  <2>1. \A q \in Procs, u \in Addrs : mapping[q][u] # None => area'[q][u] = area[q][u]
    BY <1>1, <1>3
  <2> QED BY <1>2, <2>1, ObjectsSame DEF MInv
<1>6. Forked'
  <2>1. \A r \in Procs : r # p => area'[r] = area[r]
    BY <1>2 DEF MInv, IInv, TypeOK
  <2> QED BY <1>1, <1>2, <2>1, ForkedSame DEF MInv
<1>7. NoEntries'
  <2> SUFFICES ASSUME NEW q \in Procs, NEW u \in Addrs PROVE NoEntry(q, u)'
    BY DEF NoEntries
  <2>1. NoEntry(q, u)
    BY DEF MInv, NoEntries
  <2>2. CASE q = p /\ u = v
    BY <1>1, <1>2, <2>2 DEF NoEntry
  <2>3. CASE ~(q = p /\ u = v)
    <3>1. Alone(q, u) => Alone(q, u)'
      BY <1>2 DEF Alone
    <3> QED BY <1>2, <1>3, <2>1, <2>3, <3>1, NoEntrySame
  <2> QED BY <2>2, <2>3
<1>8. \A q \in Procs, u \in Addrs : ~(q = p /\ u = v) => Memory(q, u)' = Memory(q, u)
  BY <1>2, <1>3, MemorySame
<1>9. Memory(p, v) = "unmapped" /\ Memory(p, v)' \in {Zero, "shared", "backed"}
  BY <1>1, <1>2, <1>3 DEF Memory
<1>10. Private!Set(p, v, Memory(p, v)')
  BY <1>8, SetMemory
<1>11. \A u \in Addrs : Obj(u)' = Obj(u)
  BY <1>2 DEF Obj
<1> QED BY <1>1, <1>2, <1>4, <1>5, <1>6, <1>7, <1>9, <1>10, <1>11, SameObjects DEF Sees, Private!Map

\* unmap() takes an area out of what its process sees, and the page stays.
LEMMA unmapSees ==
  ASSUME MInv, NEW p \in Procs, NEW v \in Addrs, unmap(p, v)
  PROVE  Sees' /\ Private!Unmap(p, v)
<1>1. /\ p \in live /\ pc[p] = "user"
      /\ area' = [area EXCEPT ![p][v] = None] /\ mapping' = [mapping EXCEPT ![p][v] = None]
      /\ pte' = [pte EXCEPT ![p][v] = None]
      /\ leaked' = [g \in Pages |-> IF g = mapping[p][v] THEN leaked[g] + 1 ELSE leaked[g]]
      /\ UNCHANGED <<pages, data, live, pc, at, child>>
  BY DEF unmap, memory
<1>2. \A q \in Procs, u \in Addrs :
        IF q = p /\ u = v THEN area'[q][u] = None /\ mapping'[q][u] = None /\ pte'[q][u] = None
        ELSE area'[q][u] = area[q][u] /\ mapping'[q][u] = mapping[q][u] /\ pte'[q][u] = pte[q][u]
  BY <1>1 DEF MInv, IInv, TypeOK
<1>3. Frames'
  <2>1. ASSUME NEW g \in Pages, Free(g)' PROVE Free(g)
    <3>1. leaked[g] \in Nat
      BY DEF MInv, IInv, TypeOK
    <3>2. g # mapping[p][v] /\ leaked[g] = 0
      BY <1>1, <2>1, <3>1, SMT DEF Free
    <3> QED BY <1>1, <1>2, <2>1, <3>2, SMT DEF Free
  <2> QED BY <1>1, <2>1 DEF MInv, Frames
<1>4. Objects'
  BY <1>1, <1>2, ObjectsSame DEF MInv
<1>5. Forked'
  <2>1. \A r \in Procs : r # p => area'[r] = area[r] /\ mapping'[r] = mapping[r] /\ pte'[r] = pte[r]
    BY <1>1 DEF MInv, IInv, TypeOK
  <2> QED BY <1>1, <2>1, ForkedSame DEF MInv
<1>6. NoEntries'
  <2> SUFFICES ASSUME NEW q \in Procs, NEW u \in Addrs PROVE NoEntry(q, u)'
    BY DEF NoEntries
  <2>1. NoEntry(q, u)
    BY DEF MInv, NoEntries
  <2>2. CASE q = p /\ u = v
    BY <1>2, <2>2 DEF NoEntry
  <2>3. CASE ~(q = p /\ u = v)
    <3>1. ASSUME Alone(q, u) PROVE Alone(q, u)'
      <4>1. mapping[q][u] # None
        BY <3>1, NoneAssumption DEF Alone
      <4> QED BY <1>1, <1>2, <2>3, <3>1, <4>1, AloneSame, SMT
    <3> QED BY <1>1, <1>2, <2>1, <2>3, <3>1, NoEntrySame
  <2> QED BY <2>2, <2>3
<1>7. \A q \in Procs, u \in Addrs : ~(q = p /\ u = v) => Memory(q, u)' = Memory(q, u)
  BY <1>1, <1>2, MemorySame
<1>8. Memory(p, v)' = "unmapped"
  BY <1>2 DEF Memory
<1>9. Private!Set(p, v, "unmapped")
  BY <1>7, <1>8, SetMemory
<1>10. \A u \in Addrs : Obj(u)' = Obj(u)
  BY <1>1 DEF Obj
<1> QED BY <1>1, <1>3, <1>4, <1>5, <1>6, <1>9, <1>10, SameObjects DEF Sees, Private!Unmap

\* A step that moves no page.
LEMMA PagesStay ==
  ASSUME MInv, UNCHANGED <<area, mapping, pages, data, leaked>>
  PROVE  /\ Frames' /\ Objects'
         /\ \A q \in Procs, u \in Addrs : Alone(q, u) => Alone(q, u)'
         /\ \A u \in Addrs : Obj(u)' = Obj(u)
<1>1. Frames'
  BY DEF MInv, Frames, Free
<1>2. Objects'
  BY DEF MInv, Objects
<1>3. \A q \in Procs, u \in Addrs : Alone(q, u) => Alone(q, u)'
  BY DEF Alone
<1>4. \A u \in Addrs : Obj(u)' = Obj(u)
  BY DEF Obj
<1> QED BY <1>1, <1>2, <1>3, <1>4

\* A fault begins.
LEMMA faultSees ==
  ASSUME MInv, NEW p \in Procs, NEW v \in Addrs, NEW write \in BOOLEAN, fault(p, v, write)
  PROVE  Sees' /\ SeesSame
<1>1. /\ p \in live /\ pc[p] = "user" /\ \A r \in Procs : r # p => pc'[r] = pc[r] /\ at'[r] = at[r]
      /\ UNCHANGED <<area, mapping, pte, pages, data, leaked, live, child>>
  BY DEF fault, memory, Run, MInv, IInv, TypeOK
<1>2. Frames' /\ Objects' /\ \A u \in Addrs : Obj(u)' = Obj(u)
  BY <1>1, PagesStay
<1>3. Forked'
  BY <1>1, ForkedSame DEF MInv
<1>4. NoEntries'
  <2> SUFFICES ASSUME NEW q \in Procs, NEW u \in Addrs PROVE NoEntry(q, u)'
    BY DEF NoEntries
  <2>1. NoEntry(q, u) /\ (Alone(q, u) => Alone(q, u)')
    BY <1>1, PagesStay DEF MInv, NoEntries
  <2>2. pc[q] \in {"write", "copy"} => pc'[q] = pc[q] /\ at'[q] = at[q]
    BY <1>1
  <2> QED BY <1>1, <2>1, <2>2, NoEntrySame
<1>5. \A q \in Procs, u \in Addrs : Memory(q, u)' = Memory(q, u)
  BY <1>1, MemorySame
<1> QED BY <1>1, <1>2, <1>3, <1>4, <1>5 DEF Sees, SeesSame

\* A write fault gives the processor a page that has no other user, or goes on to
\* copy it: what is read there is what was read before.
LEMMA LookSees ==
  ASSUME MInv, NEW p \in Procs, Look(p)
  PROVE  Sees' /\ SeesSame
<1>1. PICK v \in Addrs : v = at[p] /\ pc[p] = "write" /\ p \in live /\ mapping[p][v] # None
  BY DEF Look, MInv, IInv, Lives
<1>2. PICK g \in Pages : g = mapping[p][v]
  BY <1>1, SMT DEF MInv, IInv, TypeOK
<1>3. /\ UNCHANGED <<area, mapping, pages, data, leaked, live, at, child>>
      /\ pc' \in {[pc EXCEPT ![p] = "user"], [pc EXCEPT ![p] = "copy"]}
  BY <1>1 DEF Look, memory, Run
<1>4. \/ pte' = pte /\ pc' = [pc EXCEPT ![p] = "copy"]
      \/ /\ pte' = [pte EXCEPT ![p][v] = [pg |-> g, w |-> TRUE]]
         /\ area[p][v] \in {"shared", "anon"}
  <2>1. area[p][v] \in {"shared", "anon", "file"}
    BY <1>1, Mapped DEF MInv
  <2> QED BY <1>1, <1>2, <2>1 DEF Look, add_mapping, Run, MustCopy
<1>5. \A r \in Procs : r # p => pc'[r] = pc[r] /\ pte'[r] = pte[r]
  BY <1>3, <1>4 DEF MInv, IInv, TypeOK
<1>6. Frames' /\ Objects' /\ \A u \in Addrs : Obj(u)' = Obj(u)
  BY <1>3, PagesStay
<1>7. Forked'
  BY <1>1, <1>3, <1>5, ForkedSame DEF MInv
<1>8. \A q \in Procs, u \in Addrs : ~(q = p /\ u = v) => pte'[q][u] = pte[q][u]
  BY <1>4, SMT DEF MInv, IInv, TypeOK
<1>9. (pte'[p][v] = pte[p][v] /\ pc'[p] = "copy") \/ pte'[p][v] = [pg |-> g, w |-> TRUE]
  <2>1. [pc EXCEPT ![p] = "copy"][p] = "copy"
    BY DEF MInv, IInv, TypeOK
  <2>2. [pte EXCEPT ![p][v] = [pg |-> g, w |-> TRUE]][p][v] = [pg |-> g, w |-> TRUE]
    BY DEF MInv, IInv, TypeOK
  <2> QED BY <1>4, <2>1, <2>2
<1>10. [pg |-> g, w |-> TRUE] # None
  BY AnEntry
<1>11. NoEntries'
  <2> SUFFICES ASSUME NEW q \in Procs, NEW u \in Addrs PROVE NoEntry(q, u)'
    BY DEF NoEntries
  <2>1. NoEntry(q, u) /\ (Alone(q, u) => Alone(q, u)')
    BY <1>3, PagesStay DEF MInv, NoEntries
  <2>2. CASE q = p /\ u = v /\ pte'[p][v] # pte[p][v]
    BY <1>9, <1>10, <2>2 DEF NoEntry
  <2>3. CASE ~(q = p /\ u = v) \/ pte'[p][v] = pte[p][v]
    <3>1. pte'[q][u] = pte[q][u]
      BY <1>8, <2>3
    <3>2. pc[q] \in {"write", "copy"} /\ at[q] = u /\ pte[q][u] = None => pc'[q] \in {"write", "copy"}
      BY <1>1, <1>5, <1>9, <1>10, <2>3
    <3> QED BY <1>3, <2>1, <3>1, <3>2, NoEntrySame
  <2> QED BY <2>2, <2>3
<1>12. ASSUME NEW q \in Procs, NEW u \in Addrs PROVE Memory(q, u)' = Memory(q, u)
  <2>1. CASE pte'[q][u] = pte[q][u]
    BY <1>3, <2>1, MemorySame
  <2>2. CASE pte'[q][u] # pte[q][u]
    <3>1. /\ q = p /\ u = v /\ pte'[p][v] # None /\ pte'[p][v].pg = g
          /\ area[p][v] \in {"shared", "anon"}
      BY <1>4, <1>8, <1>9, <1>10, <2>2, SMT
    <3>2. CASE area[p][v] = "shared"
      BY <1>3, <3>1, <3>2 DEF Memory
    <3>3. CASE area[p][v] = "anon"
      <4>1. pages[v] # g
        BY <1>1, <1>2, <3>3 DEF MInv, IInv, Spaces, SpaceOK
      <4>2. pte[p][v] # None => pte[p][v].pg = g
        BY <1>2, Mapped DEF MInv
      <4>3. pte[p][v] = None => data[g] = Zero
        BY <1>1, <1>2, <3>3 DEF MInv, NoEntries, NoEntry
      <4> QED BY <1>3, <3>1, <3>3, <4>1, <4>2, <4>3 DEF Memory
    <3> QED BY <3>1, <3>2, <3>3
  <2> QED BY <2>1, <2>2
<1> QED BY <1>3, <1>6, <1>7, <1>11, <1>12 DEF Sees, SeesSame

\* The page that a fault gets is the object's, or holds nothing.
LEMMA PopulateSees ==
  ASSUME MInv, NEW p \in Procs, Populate(p)
  PROVE  Sees' /\ SeesSame
<1>1. PICK v \in Addrs :
        v = at[p] /\ pc[p] \in {"read", "write"} /\ p \in live /\ mapping[p][v] = None
  BY DEF Populate, MInv, IInv, Lives
<1>2. pte[p][v] = None /\ area[p][v] \in {"anon", "shared", "file"} /\ area[p][v] # None
  <2>1. area[p][v] # None
    BY <1>1 DEF MInv, IInv, Spaces, SpaceOK
  <2> QED BY <1>1, <2>1, Mapped, NoneAssumption DEF MInv
<1>3. PICK g \in Pages :
        /\ \/ area[p][v] = "anon" /\ Free(g) /\ pages' = pages
           \/ area[p][v] # "anon" /\ pages[v] # None /\ g = pages[v] /\ pages' = pages
           \/ area[p][v] # "anon" /\ pages[v] = None /\ Free(g) /\ pages' = [pages EXCEPT ![v] = g]
        /\ mapping' = [mapping EXCEPT ![p][v] = g]
        /\ \/ pc[p] = "write" /\ pc' = pc /\ pte' = pte
           \/ \E w \in BOOLEAN : pte' = [pte EXCEPT ![p][v] = [pg |-> g, w |-> w]]
        /\ \A r \in Procs : r # p => pc'[r] = pc[r]
  <2>1. PICK g \in Pages :
        /\ \/ area[p][v] = "anon" /\ Free(g) /\ pages' = pages
           \/ area[p][v] # "anon" /\ pages[v] # None /\ g = pages[v] /\ pages' = pages
           \/ area[p][v] # "anon" /\ pages[v] = None /\ Free(g) /\ pages' = [pages EXCEPT ![v] = g]
        /\ mapping' = [mapping EXCEPT ![p][v] = g]
        /\ \/ pc[p] # "read" /\ pc' = pc /\ pte' = pte
           \/ /\ pc' = [pc EXCEPT ![p] = "user"]
              /\ pte' = [pte EXCEPT ![p][v] = [pg |-> g, w |-> area[p][v] = "anon"]]
    BY <1>1 DEF Populate, Run, add_mapping
  <2>2. (area[p][v] = "anon") \in BOOLEAN
    OBVIOUS
  <2>3. pc[p] # "read" => pc[p] = "write"
    BY <1>1
  <2>4. \A r \in Procs : r # p => pc'[r] = pc[r]
    BY <2>1 DEF MInv, IInv, TypeOK
  <2> QED BY <2>1, <2>2, <2>3, <2>4
<1>4. UNCHANGED <<area, data, leaked, live, at, child>>
  BY DEF Populate
<1>5. \A q \in Procs, u \in Addrs : mapping'[q][u] = IF q = p /\ u = v THEN g ELSE mapping[q][u]
  BY <1>3 DEF MInv, IInv, TypeOK
<1>6. /\ \A u \in Addrs : u # v => pages'[u] = pages[u]
      /\ pages'[v] = pages[v] \/ (pages[v] = None /\ pages'[v] = g /\ Free(g))
      /\ area[p][v] # "anon" => pages'[v] = g
      /\ area[p][v] = "anon" => pages' = pages
      /\ Free(g) \/ (g = pages[v] /\ area[p][v] # "anon")
  BY <1>3 DEF MInv, IInv, TypeOK
<1>7. \A q \in Procs, u \in Addrs : mapping[q][u] = g => g = pages[v]
  BY <1>6 DEF Free
<1>8. \A q \in Procs, u \in Addrs : ~(q = p /\ u = v) => pte'[q][u] = pte[q][u]
  BY <1>3, SMT DEF MInv, IInv, TypeOK
<1>9. \/ pc[p] = "write" /\ pc' = pc /\ pte'[p][v] = None
      \/ pte'[p][v] # None /\ pte'[p][v].pg = g
  <2>1. CASE pc[p] = "write" /\ pc' = pc /\ pte' = pte
    BY <1>2, <2>1
  <2>2. ASSUME NEW w \in BOOLEAN, pte' = [pte EXCEPT ![p][v] = [pg |-> g, w |-> w]]
        PROVE  pte'[p][v] # None /\ pte'[p][v].pg = g
    <3>1. pte'[p][v] = [pg |-> g, w |-> w]
      BY <2>2 DEF MInv, IInv, TypeOK
    <3> QED BY <3>1, AnEntry, SMT
  <2> QED BY <1>3, <2>1, <2>2
<1>10. Free(g) => data[g] = Zero
  BY DEF MInv, Frames
<1>11. Frames'
  <2>1. ASSUME NEW h \in Pages, Free(h)' PROVE Free(h)
    BY <1>1, <1>4, <1>5, <1>6, <2>1, NoneAssumption, SMT DEF Free
  <2> QED BY <1>4, <2>1 DEF MInv, Frames
<1>12. Objects'
  <2>0. Objects /\ area' = area
    BY <1>4 DEF MInv
  <2>1. ASSUME NEW u \in Addrs, NEW w \in Addrs, pages'[w] # None, pages'[u] = pages'[w] PROVE u = w
    BY <1>6, <2>1, SMT DEF MInv, Objects, Free
  <2>2. ASSUME NEW q \in Procs, NEW u \in Addrs, NEW w \in Addrs, pages'[w] # None,
               mapping'[q][u] = pages'[w]
        PROVE  u = w
    <3>1. CASE q = p /\ u = v
      <4>1. mapping'[q][u] = g
        BY <1>5, <3>1
      <4>2. CASE w # v
        BY <1>6, <2>0, <2>2, <3>1, <4>1, <4>2 DEF Objects, Free
      <4> QED BY <3>1, <4>2
    <3>2. CASE ~(q = p /\ u = v)
      BY <1>5, <1>6, <2>2, <3>2, SMT DEF MInv, Objects, Free
    <3> QED BY <3>1, <3>2
  <2>3. ASSUME NEW q \in Procs, NEW u \in Addrs, area[q][u] = "shared", mapping'[q][u] # None
        PROVE  mapping'[q][u] = pages'[u]
    <3>1. CASE q = p /\ u = v
      BY <1>5, <1>6, <2>3, <3>1
    <3>2. CASE ~(q = p /\ u = v)
      BY <1>5, <1>6, <2>3, <3>2, SMT DEF MInv, Objects
    <3> QED BY <3>1, <3>2
  <2>4. \A u, w \in Addrs : pages'[w] # None =>
          (pages'[u] = pages'[w] => u = w) /\ \A q \in Procs : mapping'[q][u] = pages'[w] => u = w
    BY <2>1, <2>2, SMT
  <2>5. area' = area
    BY <2>0
  <2>6. \A q \in Procs, u \in Addrs :
          area'[q][u] = "shared" /\ mapping'[q][u] # None => mapping'[q][u] = pages'[u]
    BY <2>3, <2>5
  <2> QED BY <2>4, <2>6 DEF Objects
<1>13. Forked'
  <2>1. \A r \in Procs : r # p => mapping'[r] = mapping[r] /\ pte'[r] = pte[r]
    BY <1>3 DEF MInv, IInv, TypeOK
  <2> QED BY <1>1, <1>3, <1>4, <2>1, ForkedSame DEF MInv
<1>14. NoEntries'
  <2> SUFFICES ASSUME NEW q \in Procs, NEW u \in Addrs PROVE NoEntry(q, u)'
    BY DEF NoEntries
  <2>1. CASE q = p /\ u = v
    <3>1. area[p][v] = "anon" => Alone(p, v)'
      BY <1>5, <1>6 DEF Free, Alone
    <3> QED BY <1>1, <1>4, <1>5, <1>6, <1>9, <1>10, <2>1, <3>1 DEF NoEntry
  <2>2. CASE ~(q = p /\ u = v)
    <3>1. NoEntry(q, u)
      BY DEF MInv, NoEntries
    <3>2. mapping'[q][u] = mapping[q][u] /\ pte'[q][u] = pte[q][u]
      BY <1>5, <1>8, <2>2
    <3>3. CASE mapping[q][u] = None
      BY <3>2, <3>3 DEF NoEntry
    <3>4. CASE mapping[q][u] # None
      <4>1. ASSUME Alone(q, u) PROVE Alone(q, u)'
        <5>1. mapping[q][u] # g
          BY <1>7, <4>1 DEF Alone
        <5> QED BY <1>5, <1>6, <3>2, <4>1, <5>1, AloneSame, SMT
      <4>2. pages'[u] = pages[u] \/ mapping[q][u] # pages[u]
        BY <1>6, <3>4
      <4>3. pc[q] \in {"write", "copy"} /\ at[q] = u => pc'[q] = pc[q]
        BY <1>1, <1>3, <2>2
      <4> QED BY <1>4, <3>1, <3>2, <4>1, <4>2, <4>3, NoEntrySame
    <3> QED BY <3>3, <3>4
  <2> QED BY <2>1, <2>2
<1>15. ASSUME NEW q \in Procs, NEW u \in Addrs PROVE Memory(q, u)' = Memory(q, u)
  <2>1. CASE q = p /\ u = v
    <3>1. area[p][v] = "anon" => pages'[v] # g /\ data[g] = Zero
      BY <1>6, <1>10 DEF Free
    <3> QED BY <1>1, <1>2, <1>4, <1>6, <1>9, <2>1, <3>1 DEF Memory
  <2>2. CASE ~(q = p /\ u = v)
    <3>1. pte'[q][u] = pte[q][u]
      BY <1>8, <2>2
    <3>2. CASE pages'[u] = pages[u]
      BY <1>4, <3>1, <3>2, MemorySame
    <3>3. CASE pages'[u] # pages[u]
      <4>1. u = v /\ pages[u] = None /\ pages'[u] = g
        BY <1>6, <3>3
      <4>2. pte[q][u] # None => pte[q][u].pg \in Pages /\ pte[q][u].pg # g
        BY <1>7, <4>1, Mapped, NoneAssumption DEF MInv
      <4> QED BY <1>4, <3>1, <4>1, <4>2, NoneAssumption DEF Memory
    <3> QED BY <3>2, <3>3
  <2> QED BY <2>1, <2>2
<1>16. \A u \in Addrs : Obj(u)' = Obj(u)
  BY <1>4, <1>6, <1>10, NoneAssumption DEF Obj
<1> QED BY <1>4, <1>11, <1>12, <1>13, <1>14, <1>15, <1>16 DEF Sees, SeesSame

\* The copy holds what the page held, and a private mapping of an object leaves it.
LEMMA CopySees ==
  ASSUME MInv, NEW p \in Procs, Copy(p)
  PROVE  Sees' /\ (SeesSame \/ \E v \in Addrs : Private!Detach(p, v))
<1>1. PICK v \in Addrs : v = at[p] /\ pc[p] = "copy" /\ p \in live /\ area[p][v] # "shared"
  BY DEF Copy, Run, MInv, IInv, Lives, Copies
<1>2. PICK g \in Pages : g = mapping[p][v] /\ area[p][v] # None /\ area[p][v] \in {"anon", "file"}
  <2>1. mapping[p][v] # None
    BY <1>1 DEF MInv, IInv, Spaces, SpaceOK
  <2> QED BY <1>1, <2>1, Mapped DEF MInv
<1>3. PICK np \in Pages :
        /\ Free(np)
        /\ data' = [data EXCEPT ![np] = data[g], ![g] = After(g)]
        /\ mapping' = [mapping EXCEPT ![p][v] = np]
        /\ pte' = [pte EXCEPT ![p][v] = [pg |-> np, w |-> TRUE]]
  BY <1>1, <1>2 DEF Copy, add_mapping
<1>4. /\ UNCHANGED <<area, pages, leaked, live, at, child>>
      /\ \A r \in Procs : r # p => pc'[r] = pc[r]
  BY DEF Copy, Run, MInv, IInv, TypeOK
<1>5. /\ \A q \in Procs, u \in Addrs : mapping[q][u] # np
      /\ \A u \in Addrs : pages[u] # np
      /\ np # g
  BY <1>2, <1>3 DEF Free
<1>6. /\ data'[np] = data[g] /\ data'[g] = After(g)
      /\ \A h \in Pages \ {np, g} : data'[h] = data[h]
  BY <1>3, <1>5 DEF MInv, Frames
<1>7. \A q \in Procs, u \in Addrs : mapping'[q][u] = IF q = p /\ u = v THEN np ELSE mapping[q][u]
  BY <1>3 DEF MInv, IInv, TypeOK
<1>8. /\ \A q \in Procs, u \in Addrs : ~(q = p /\ u = v) => pte'[q][u] = pte[q][u]
      /\ pte'[p][v] = [pg |-> np, w |-> TRUE]
  BY <1>3 DEF MInv, IInv, TypeOK
<1>9. pte'[p][v] # None /\ pte'[p][v].pg = np
  <2>1. [pg |-> np, w |-> TRUE] # None
    BY AnEntry
  <2>2. [pg |-> np, w |-> TRUE].pg = np
    OBVIOUS
  <2> QED BY <1>8, <2>1, <2>2
<1>10. After(g) # data[g] => Alone(p, v)
  BY <1>2, LastUser DEF MInv
<1>11. Frames'
  <2>1. After(g) \in Values \union {Zero} /\ data[g] \in Values \union {Zero}
    BY DEF After, MInv, Frames
  <2>2. data' \in [Pages -> Values \union {Zero}]
    BY <1>3, <2>1 DEF MInv, Frames
  <2>3. ASSUME NEW h \in Pages, Free(h)' PROVE data'[h] = Zero
    <3>1. h # np
      BY <1>7, <2>3 DEF Free
    <3>2. CASE h = g
      <4>1. Alone(p, v) /\ leaked[g] = 0
        BY <1>2, <1>4, <1>7, <2>3, <3>2 DEF Alone, Free
      <4> QED BY <1>2, <1>6, <3>2, <4>1, LastUser DEF MInv
    <3>3. CASE h # g
      <4>1. Free(h)
        BY <1>2, <1>4, <1>7, <2>3, <3>3 DEF Free
      <4> QED BY <1>6, <3>1, <3>3, <4>1 DEF MInv, Frames
    <3> QED BY <3>2, <3>3
  <2> QED BY <2>2, <2>3 DEF Frames
<1>12. Objects'
  BY <1>1, <1>4, <1>5, <1>7, ObjectsSame, SMT DEF MInv
<1>13. Forked'
  <2>1. \A r \in Procs : r # p => mapping'[r] = mapping[r] /\ pte'[r] = pte[r]
    BY <1>3 DEF MInv, IInv, TypeOK
  <2> QED BY <1>1, <1>4, <2>1, ForkedSame DEF MInv
<1>14. NoEntries'
  <2> SUFFICES ASSUME NEW q \in Procs, NEW u \in Addrs PROVE NoEntry(q, u)'
    BY DEF NoEntries
  <2>1. CASE q = p /\ u = v
    BY <1>9, <2>1 DEF NoEntry
  <2>2. CASE ~(q = p /\ u = v)
    <3>1. NoEntry(q, u) /\ mapping'[q][u] = mapping[q][u] /\ pte'[q][u] = pte[q][u]
      BY <1>7, <1>8, <2>2 DEF MInv, NoEntries
    <3>2. ASSUME Alone(q, u)
          PROVE  Alone(q, u)' /\ data'[mapping[q][u]] = data[mapping[q][u]]
      <4>1. mapping[q][u] \in Pages \ {np, g}
        BY <1>2, <1>5, <2>2, <3>2 DEF Alone
      <4>2. Alone(q, u)'
        BY <1>4, <1>7, <3>1, <3>2, <4>1, AloneSame, SMT
      <4> QED BY <1>6, <4>1, <4>2
    <3>3. pc[q] \in {"write", "copy"} /\ at[q] = u => pc'[q] = pc[q]
      BY <1>1, <1>4, <2>2
    <3> QED BY <1>4, <3>1, <3>2, <3>3, NoEntrySame
  <2> QED BY <2>1, <2>2
<1>15. ASSUME NEW q \in Procs, NEW u \in Addrs, ~(q = p /\ u = v)
       PROVE  Memory(q, u)' = Memory(q, u)
  <2>1. ASSUME pte[q][u] # None PROVE data'[pte[q][u].pg] = data[pte[q][u].pg]
    <3>1. pte[q][u].pg = mapping[q][u] /\ mapping[q][u] \in Pages \ {np}
      BY <1>5, <2>1, Mapped DEF MInv
    <3>2. mapping[q][u] = g => After(g) = data[g]
      BY <1>2, <1>10, <1>15 DEF Alone
    <3> QED BY <1>6, <3>1, <3>2
  <2>2. pte'[q][u] = pte[q][u]
    BY <1>8, <1>15
  <2> QED BY <1>4, <2>1, <2>2, MemorySame
<1>16. \A u \in Addrs : Obj(u)' = Obj(u)
  <2> SUFFICES ASSUME NEW u \in Addrs, pages[u] # None PROVE data'[pages[u]] = data[pages[u]]
    BY <1>4 DEF Obj
  <2>1. pages[u] \in Pages \ {np} /\ (pages[u] = g => After(g) = data[g])
    BY <1>2, <1>5, <1>10 DEF MInv, IInv, TypeOK, Alone
  <2> QED BY <1>6, <2>1
<1>17. Memory(p, v)' = data[g]
  BY <1>1, <1>2, <1>4, <1>5, <1>6, <1>9 DEF Memory
<1>18. CASE g = pages[v]
  <2>1. area[p][v] = "file"
    BY <1>2, <1>18, NoneAssumption DEF MInv, IInv, Spaces, SpaceOK
  <2>2. pte[p][v] # None => pte[p][v].pg = g
    BY <1>2, Mapped DEF MInv
  <2>3. Memory(p, v) = "backed"
    BY <1>1, <1>2, <1>18, <2>1, <2>2 DEF Memory
  <2>4. Obj(v) = data[g]
    BY <1>18, NoneAssumption DEF Obj
  <2>5. Private!Set(p, v, Obj(v))
    BY <1>15, <1>17, <2>4, SetMemory
  <2>6. Private!Detach(p, v)
    BY <1>1, <1>4, <1>16, <2>3, <2>5, SameObjects DEF Private!Detach, Obj
  <2> QED BY <1>11, <1>12, <1>13, <1>14, <2>6 DEF Sees
<1>19. CASE g # pages[v]
  <2>1. pte[p][v] # None => pte[p][v].pg = g
    BY <1>2, Mapped DEF MInv
  <2>2. pte[p][v] = None => area[p][v] = "anon" /\ data[g] = Zero
    BY <1>1, <1>2, <1>19, NoneAssumption, SMT DEF MInv, NoEntries, NoEntry
  <2>3. Memory(p, v) = data[g]
    BY <1>1, <1>2, <1>19, <2>1, <2>2 DEF Memory
  <2> QED BY <1>4, <1>11, <1>12, <1>13, <1>14, <1>15, <1>16, <1>17, <2>3 DEF Sees, SeesSame
<1> QED BY <1>18, <1>19

\* fork() begins.
LEMMA forkSees ==
  ASSUME MInv, NEW p \in Procs, NEW c \in Procs, fork(p, c)
  PROVE  Sees' /\ SeesSame
<1>1. /\ p \in live /\ pc[p] = "user" /\ child' = [child EXCEPT ![p] = c] /\ at'[p] = 1
      /\ pc'[p] = "share" /\ \A r \in Procs : r # p => pc'[r] = pc[r] /\ at'[r] = at[r]
      /\ UNCHANGED <<area, mapping, pte, pages, data, leaked, live>>
  BY DEF fork, memory, Run, MInv, IInv, TypeOK
<1>2. Frames' /\ Objects' /\ \A u \in Addrs : Obj(u)' = Obj(u)
  BY <1>1, PagesStay
<1>3. Forked'
  <2> SUFFICES ASSUME NEW r \in Procs, NEW u \in Addrs, child'[r] # None
               PROVE  /\ u < at'[r] \/ (u = at'[r] /\ pc'[r] = "protect")
                           => area'[child'[r]][u] = area'[r][u]
                      /\ u < at'[r] => /\ pte'[child'[r]][u] = pte'[r][u]
                                       /\ mapping'[child'[r]][u] = mapping'[r][u]
    BY DEF Forked
  <2>1. CASE r = p
    BY <1>1, <2>1, NAddrsAssumption, SMT DEF Addrs
  <2>2. CASE r # p
    <3>1. child'[r] = child[r]
      BY <1>1, <2>2 DEF MInv, IInv, TypeOK
    <3> QED BY <1>1, <2>2, <3>1, SMT DEF MInv, Forked
  <2> QED BY <2>1, <2>2
<1>4. NoEntries'
  <2> SUFFICES ASSUME NEW q \in Procs, NEW u \in Addrs PROVE NoEntry(q, u)'
    BY DEF NoEntries
  <2>1. NoEntry(q, u) /\ (Alone(q, u) => Alone(q, u)')
    BY <1>1, PagesStay DEF MInv, NoEntries
  <2>2. pc[q] \in {"write", "copy"} => pc'[q] = pc[q] /\ at'[q] = at[q]
    BY <1>1
  <2> QED BY <1>1, <2>1, <2>2, NoEntrySame
<1>5. \A q \in Procs, u \in Addrs : Memory(q, u)' = Memory(q, u)
  BY <1>1, MemorySame
<1> QED BY <1>1, <1>2, <1>3, <1>4, <1>5 DEF Sees, SeesSame

\* The child that an area and a page are copied to sees nothing yet.
LEMMA ShareSees ==
  ASSUME MInv, NEW p \in Procs, Share(p)
  PROVE  Sees' /\ SeesSame
<1>1. PICK v \in Addrs, c \in Procs :
        v = at[p] /\ c = child[p] /\ pc[p] = "share" /\ p \in live /\ c \notin live
  BY NoneAssumption, SMT DEF Share, Run, MInv, IInv, Lives, TypeOK
<1>2. p # c /\ child[p] # None /\ mapping[c][v] = None /\ pte[c][v] = None
  <2>1. child[p] # None
    BY <1>1, NoneAssumption
  <2>2. area[c][v] = None
    BY <1>1, <2>1 DEF MInv, IInv, Spaces, SpaceOK, Unused
  <2> QED BY <1>1, <2>1, <2>2, Mapped, NoneAssumption DEF MInv
<1>3. /\ area' = [area EXCEPT ![c][v] = area[p][v]] /\ mapping' = [mapping EXCEPT ![c][v] = mapping[p][v]]
      /\ UNCHANGED <<pte, pages, data, leaked, live, at, child>>
      /\ pc'[p] = "protect" /\ \A r \in Procs : r # p => pc'[r] = pc[r]
  BY <1>1 DEF Share, Run, MInv, IInv, TypeOK
<1>4. \A q \in Procs, u \in Addrs :
        IF q = c /\ u = v THEN area'[q][u] = area[p][v] /\ mapping'[q][u] = mapping[p][v]
        ELSE area'[q][u] = area[q][u] /\ mapping'[q][u] = mapping[q][u]
  BY <1>3 DEF MInv, IInv, TypeOK
<1>5. Frames'
  <2>1. ASSUME NEW h \in Pages, Free(h)' PROVE Free(h)
    BY <1>2, <1>3, <1>4, <2>1, NoneAssumption, SMT DEF Free
  <2> QED BY <1>3, <2>1 DEF MInv, Frames
<1>6. Objects'
  <2>1. ASSUME NEW u \in Addrs, NEW w \in Addrs, pages[w] # None, pages[u] = pages[w] PROVE u = w
    BY <2>1 DEF MInv, Objects
  <2>2. ASSUME NEW q \in Procs, NEW u \in Addrs, NEW w \in Addrs, pages[w] # None,
               mapping'[q][u] = pages[w]
        PROVE  u = w
    BY <1>4, <2>2, SMT DEF MInv, Objects
  <2>3. ASSUME NEW q \in Procs, NEW u \in Addrs, area'[q][u] = "shared", mapping'[q][u] # None
        PROVE  mapping'[q][u] = pages[u]
    BY <1>4, <2>3, SMT DEF MInv, Objects
  <2> QED BY <1>3, <2>1, <2>2, <2>3, SMT DEF Objects
<1>7. Forked'
  <2> SUFFICES ASSUME NEW r \in Procs, NEW u \in Addrs, child[r] # None
               PROVE  /\ u < at[r] \/ (u = at[r] /\ pc'[r] = "protect")
                           => area'[child[r]][u] = area'[r][u]
                      /\ u < at[r] => /\ pte[child[r]][u] = pte[r][u]
                                      /\ mapping'[child[r]][u] = mapping'[r][u]
    BY <1>3, SMT DEF Forked
  <2>1. child[r] \in Procs /\ r # c /\ (child[r] = c => r = p)
    BY <1>1, <1>2 DEF MInv, IInv, Lives, TypeOK
  <2>2. CASE child[r] = c /\ u = v
    BY <1>1, <1>2, <1>4, <2>1, <2>2, SMT DEF Addrs
  <2>3. CASE ~(child[r] = c /\ u = v)
    <3>1. area'[child[r]][u] = area[child[r]][u] /\ mapping'[child[r]][u] = mapping[child[r]][u]
      BY <1>4, <2>1, <2>3
    <3>2. area'[r][u] = area[r][u] /\ mapping'[r][u] = mapping[r][u]
      BY <1>4, <2>1
    <3>3. u = at[r] => pc'[r] = pc[r]
      BY <1>1, <1>3, <2>3
    <3> QED BY <3>1, <3>2, <3>3, SMT DEF MInv, Forked
  <2> QED BY <2>2, <2>3
<1>8. NoEntries'
  <2> SUFFICES ASSUME NEW q \in Procs, NEW u \in Addrs, q \in live PROVE NoEntry(q, u)'
    BY <1>3, SMT DEF NoEntries, NoEntry
  <2>1. NoEntry(q, u) /\ area'[q][u] = area[q][u] /\ mapping'[q][u] = mapping[q][u]
    BY <1>1, <1>4 DEF MInv, NoEntries
  <2>2. pc[q] \in {"write", "copy"} => pc'[q] = pc[q]
    BY <1>1, <1>3
  <2>3. CASE p = q /\ u = v
    <3>1. pte[p][v] = None /\ mapping[p][v] # None => area[p][v] # "anon"
      BY <1>1, <2>1, <2>3 DEF NoEntry
    <3> QED BY <1>3, <2>1, <2>3, <3>1 DEF NoEntry
  <2>4. CASE ~(p = q /\ u = v)
    <3>1. ASSUME Alone(q, u) PROVE Alone(q, u)'
      <4>1. mapping[p][v] # mapping[q][u]
        BY <2>4, <3>1 DEF Alone
      <4>2. \A r \in Procs, w \in Addrs :
              mapping'[r][w] = mapping[r][w] \/ mapping'[r][w] # mapping[q][u]
        BY <1>4, <4>1
      <4> QED BY <1>3, <2>1, <3>1, <4>2, AloneSame
    <3> QED BY <1>3, <2>1, <2>2, <3>1, NoEntrySame
  <2> QED BY <2>3, <2>4
<1>9. ASSUME NEW q \in Procs, NEW u \in Addrs PROVE Memory(q, u)' = Memory(q, u)
  <2>1. CASE q = c
    BY <1>1, <1>3, <2>1 DEF Memory
  <2>2. CASE q # c
    BY <1>3, <1>4, <2>2, MemorySame
  <2> QED BY <2>1, <2>2
<1>10. \A u \in Addrs : Obj(u)' = Obj(u)
  BY <1>3 DEF Obj
<1> QED BY <1>3, <1>5, <1>6, <1>7, <1>8, <1>9, <1>10 DEF Sees, SeesSame

\* An entry that loses the right to write reads as before.
LEMMA ProtectSees ==
  ASSUME MInv, NEW p \in Procs, Protect(p)
  PROVE  Sees' /\ SeesSame
<1>1. PICK v \in Addrs, c \in Procs :
        v = at[p] /\ c = child[p] /\ pc[p] = "protect" /\ p \in live /\ c \notin live
  BY NoneAssumption DEF Protect, Run, MInv, IInv, Lives, TypeOK
<1>2. PICK g \in Pages \union {None} : g = mapping[p][v]
  BY SMT DEF MInv, IInv, TypeOK
<1>3. p # c /\ child[p] # None /\ mapping[c][v] = g /\ area[c][v] = area[p][v]
  BY <1>1, <1>2, NoneAssumption DEF MInv, IInv, ChildReads, Forked
<1>4. /\ UNCHANGED <<area, mapping, pages, data, leaked, live, child>>
      /\ at'[p] = v + 1 /\ pc'[p] = "share"
      /\ \A r \in Procs : r # p => pc'[r] = pc[r] /\ at'[r] = at[r]
  BY <1>1 DEF Protect, memory, Run, MInv, IInv, TypeOK
<1>5. pte' = IF g = None THEN pte
             ELSE [pte EXCEPT ![p][v] = [pg |-> g, w |-> FALSE], ![c][v] = [pg |-> g, w |-> FALSE]]
  BY <1>1, <1>2 DEF Protect
<1>6. \A q \in Procs, u \in Addrs : ~(q \in {p, c} /\ u = v) => pte'[q][u] = pte[q][u]
  BY <1>5 DEF MInv, IInv, TypeOK
<1>8. \/ g = None /\ pte'[p][v] = None /\ pte'[c][v] = None /\ pte' = pte
      \/ /\ g # None /\ pte'[p][v] = pte'[c][v] /\ pte'[p][v] # None
         /\ pte'[p][v].pg = g
  <2>1. CASE g = None
    <3>1. mapping[p][v] \notin Pages /\ mapping[c][v] \notin Pages
      BY <1>2, <1>3, <2>1, NoneAssumption
    <3>2. pte[p][v] = None /\ pte[c][v] = None
      BY <3>1, Mapped DEF MInv
    <3> QED BY <1>5, <2>1, <3>2
  <2>2. CASE g # None
    <3>1. pte'[p][v] = [pg |-> g, w |-> FALSE] /\ pte'[c][v] = [pg |-> g, w |-> FALSE]
      BY <1>3, <1>5, <2>2 DEF MInv, IInv, TypeOK
    <3>2. [pg |-> g, w |-> FALSE] # None
      BY <2>2, AnEntry
    <3> QED BY <2>2, <3>1, <3>2, SMT
  <2> QED BY <2>1, <2>2
<1>9. Frames' /\ Objects' /\ \A u \in Addrs : Obj(u)' = Obj(u)
  BY <1>4, PagesStay
<1>10. Forked'
  <2> SUFFICES ASSUME NEW r \in Procs, NEW u \in Addrs, child[r] # None
               PROVE  /\ u < at'[r] \/ (u = at'[r] /\ pc'[r] = "protect")
                           => area[child[r]][u] = area[r][u]
                      /\ u < at'[r] => /\ pte'[child[r]][u] = pte'[r][u]
                                       /\ mapping[child[r]][u] = mapping[r][u]
    BY <1>4 DEF Forked
  <2>1. child[r] \in Procs /\ r # c /\ child[r] # p /\ (child[r] = c => r = p)
    BY <1>1, <1>3 DEF MInv, IInv, Lives, TypeOK
  <2>2. CASE r = p /\ u = v
    BY <1>1, <1>2, <1>3, <1>8, <2>2
  <2>3. CASE r = p /\ u # v
    <3>1. u < at'[r] => u < at[r]
      BY <1>1, <1>4, <2>3, SMT DEF Addrs
    <3>2. pte'[child[r]][u] = pte[child[r]][u] /\ pte'[r][u] = pte[r][u]
      BY <1>6, <2>1, <2>3
    <3> QED BY <1>4, <2>3, <3>1, <3>2 DEF MInv, Forked
  <2>4. CASE r # p
    <3>1. pte'[child[r]][u] = pte[child[r]][u] /\ pte'[r][u] = pte[r][u]
      BY <1>6, <2>1, <2>4
    <3> QED BY <1>4, <2>4, <3>1, SMT DEF MInv, Forked
  <2> QED BY <2>2, <2>3, <2>4
<1>11. NoEntries'
  <2> SUFFICES ASSUME NEW q \in Procs, NEW u \in Addrs, q \in live PROVE NoEntry(q, u)'
    BY <1>4, SMT DEF NoEntries, NoEntry
  <2>1. NoEntry(q, u) /\ (Alone(q, u) => Alone(q, u)') /\ q # c
    BY <1>1, <1>4, PagesStay DEF MInv, NoEntries
  <2>2. CASE q = p /\ u = v
    BY <1>2, <1>4, <1>8, <2>2 DEF NoEntry
  <2>3. CASE ~(q = p /\ u = v)
    <3>1. pte'[q][u] = pte[q][u]
      BY <1>6, <2>1, <2>3
    <3>2. pc[q] \in {"write", "copy"} => pc'[q] = pc[q] /\ at'[q] = at[q]
      BY <1>1, <1>4
    <3> QED BY <1>4, <2>1, <3>1, <3>2, NoEntrySame
  <2> QED BY <2>2, <2>3
<1>12. ASSUME NEW q \in Procs, NEW u \in Addrs PROVE Memory(q, u)' = Memory(q, u)
  <2>1. CASE q = c
    BY <1>1, <1>4, <2>1 DEF Memory
  <2>2. CASE q = p /\ u = v /\ pte' # pte
    <3>1. g # None /\ pte'[p][v] # None /\ pte'[p][v].pg = g
      BY <1>8, <2>2
    <3>2. pte[p][v] # None => pte[p][v].pg = g
      BY <1>2, Mapped DEF MInv
    <3>3. pte[p][v] = None => area[p][v] # "anon" /\ (area[p][v] = "file" => g = pages[v])
      BY <1>1, <1>2, <3>1 DEF MInv, NoEntries, NoEntry
    <3>4. area[p][v] \in {"anon", "shared", "file"}
      BY <1>2, <3>1, Mapped DEF MInv
    <3> QED BY <1>4, <2>2, <3>1, <3>2, <3>3, <3>4 DEF Memory
  <2>3. CASE q # c /\ (~(q = p /\ u = v) \/ pte' = pte)
    <3>1. pte'[q][u] = pte[q][u]
      BY <1>6, <2>3
    <3> QED BY <1>4, <3>1, MemorySame
  <2> QED BY <2>1, <2>2, <2>3
<1> QED BY <1>4, <1>9, <1>10, <1>11, <1>12 DEF Sees, SeesSame

\* At the end of fork() the child has a copy of what its parent sees.
LEMMA ForkEndSees ==
  ASSUME MInv, NEW p \in Procs, ForkEnd(p)
  PROVE  Sees' /\ \E c \in Procs : Private!Fork(p, c)
<1>1. PICK c \in Procs : c = child[p] /\ pc[p] = "share" /\ p \in live /\ c \notin live
  BY NoneAssumption, SMT DEF ForkEnd, Run, MInv, IInv, Lives, TypeOK
<1>2. /\ live' = live \union {c} /\ child' = [child EXCEPT ![p] = None]
      /\ pc'[p] = "user" /\ \A r \in Procs : r # p => pc'[r] = pc[r] /\ at'[r] = at[r]
      /\ UNCHANGED <<area, mapping, pte, pages, data, leaked>>
  BY <1>1 DEF ForkEnd, memory, Run, MInv, IInv, TypeOK
<1>3. ASSUME NEW v \in Addrs
      PROVE  area[c][v] = area[p][v] /\ pte[c][v] = pte[p][v] /\ mapping[c][v] = mapping[p][v]
  <2>1. v < at[p]
    <3>1. at[p] \in 1..(NAddrs + 1) /\ at[p] \notin 1..NAddrs /\ v \in 1..NAddrs
      BY DEF ForkEnd, MInv, IInv, TypeOK, Addrs
    <3> QED BY <3>1, NAddrsAssumption, SMT
  <2> QED BY <1>1, <2>1, NoneAssumption DEF MInv, Forked
<1>4. Frames' /\ Objects' /\ \A u \in Addrs : Obj(u)' = Obj(u)
  BY <1>2, PagesStay
<1>5. Forked'
  <2>1. \A r \in Procs : child'[r] # None => r # p /\ child'[r] = child[r]
    BY <1>2 DEF MInv, IInv, TypeOK
  <2> QED BY <1>2, <2>1, SMT DEF MInv, Forked
<1>6. NoEntries'
  <2> SUFFICES ASSUME NEW q \in Procs, NEW u \in Addrs PROVE NoEntry(q, u)'
    BY DEF NoEntries
  <2>1. NoEntry(q, u) /\ NoEntry(p, u) /\ (Alone(q, u) => Alone(q, u)')
    BY <1>2, PagesStay DEF MInv, NoEntries
  <2>2. CASE q = c
    BY <1>1, <1>2, <1>3, <2>1, <2>2 DEF NoEntry
  <2>3. CASE q # c
    <3>1. pc[q] \in {"write", "copy"} => pc'[q] = pc[q] /\ at'[q] = at[q]
      BY <1>1, <1>2
    <3> QED BY <1>2, <2>1, <2>3, <3>1, NoEntrySame
  <2> QED BY <2>2, <2>3
<1>7. \A q \in Procs, u \in Addrs : q # c => Memory(q, u)' = Memory(q, u)
  BY <1>2, MemorySame
<1>8. \A u \in Addrs : Memory(c, u)' = Memory(p, u)
  BY <1>1, <1>2, <1>3, SMT DEF Memory
<1>9. Private!Fork(p, c)
  <2> DEFINE mem == [q \in Procs |-> [u \in Addrs |-> Memory(q, u)]]
  <2>1. mem' = [mem EXCEPT ![c] = mem[p]]
    BY <1>7, <1>8
  <2>2. UNCHANGED [u \in Addrs |-> IF pages[u] = None THEN Zero ELSE data[pages[u]]]
    BY <1>4, SameObjects
  <2> QED BY <1>1, <1>2, <2>1, <2>2 DEF Private!Fork
<1> QED BY <1>4, <1>5, <1>6, <1>9 DEF Sees

\* A process that exits sees nothing any more, whatever of its space is left.
LEMMA exitSees ==
  ASSUME MInv, NEW p \in Procs, exit(p)
  PROVE  Sees' /\ Private!Exit(p)
<1>1. /\ p \in live /\ live' = live \ {p} /\ pc[p] = "user"
      /\ \A r \in Procs : r # p => pc'[r] = pc[r] /\ at'[r] = at[r]
      /\ UNCHANGED <<area, mapping, pte, pages, data, leaked, child>>
  BY DEF exit, memory, Run, MInv, IInv, TypeOK
<1>2. Frames' /\ Objects' /\ \A u \in Addrs : Obj(u)' = Obj(u)
  BY <1>1, PagesStay
<1>3. Forked'
  BY <1>1, ForkedSame DEF MInv
<1>4. NoEntries'
  <2> SUFFICES ASSUME NEW q \in Procs, NEW u \in Addrs PROVE NoEntry(q, u)'
    BY DEF NoEntries
  <2>1. NoEntry(q, u) /\ (Alone(q, u) => Alone(q, u)')
    BY <1>1, PagesStay DEF MInv, NoEntries
  <2>2. pc[q] \in {"write", "copy"} => pc'[q] = pc[q] /\ at'[q] = at[q]
    BY <1>1
  <2> QED BY <1>1, <2>1, <2>2, NoEntrySame
<1>5. \A q \in Procs, u \in Addrs : q # p => Memory(q, u)' = Memory(q, u)
  BY <1>1, MemorySame
<1>6. \A u \in Addrs : Memory(p, u)' = "unmapped"
  BY <1>1 DEF Memory
<1>7. Private!Exit(p)
  <2> DEFINE mem == [q \in Procs |-> [u \in Addrs |-> Memory(q, u)]]
  <2>1. mem' = [mem EXCEPT ![p] = [u \in Addrs |-> "unmapped"]]
    BY <1>5, <1>6
  <2>2. UNCHANGED [u \in Addrs |-> IF pages[u] = None THEN Zero ELSE data[pages[u]]]
    BY <1>2, SameObjects
  <2> QED BY <1>1, <2>1, <2>2 DEF Private!Exit
<1> QED BY <1>2, <1>3, <1>4, <1>7 DEF Sees

\* ~area() destroys no page that somebody else sees.
LEMMA DropSees ==
  ASSUME MInv, NEW p \in Procs, Drop(p)
  PROVE  Sees' /\ SeesSame
<1>1. PICK v \in Addrs : v = at[p] /\ pc[p] = "drop" /\ p \notin live
  BY DEF Drop, MInv, IInv, Lives
<1>2. PICK g \in Pages \union {None} : g = mapping[p][v]
  BY SMT DEF MInv, IInv, TypeOK
<1>3. /\ area' = [area EXCEPT ![p][v] = None] /\ mapping' = [mapping EXCEPT ![p][v] = None]
      /\ pte' = [pte EXCEPT ![p][v] = None]
      /\ data' = IF g = None THEN data ELSE [data EXCEPT ![g] = After(g)]
      /\ UNCHANGED <<pages, leaked, live, child>>
  BY <1>1, <1>2 DEF Drop, memory
<1>4. \A r \in Procs : r # p => pc'[r] = pc[r] /\ at'[r] = at[r]
  BY DEF Drop, Run, MInv, IInv, TypeOK
<1>5. \A q \in Procs, u \in Addrs :
        IF q = p /\ u = v THEN area'[q][u] = None /\ mapping'[q][u] = None /\ pte'[q][u] = None
        ELSE area'[q][u] = area[q][u] /\ mapping'[q][u] = mapping[q][u] /\ pte'[q][u] = pte[q][u]
  BY <1>3 DEF MInv, IInv, TypeOK
<1>6. /\ g \in Pages => data'[g] = After(g)
      /\ \A h \in Pages : h # g => data'[h] = data[h]
  BY <1>3, NoneAssumption DEF MInv, Frames
<1>7. g \in Pages /\ After(g) # data[g] => Alone(p, v)
  BY <1>2, LastUser DEF MInv
<1>8. Frames'
  <2>1. g \in Pages => After(g) \in Values \union {Zero}
    BY DEF After, MInv, Frames
  <2>2. data' \in [Pages -> Values \union {Zero}]
    BY <1>3, <2>1 DEF MInv, Frames
  <2>3. ASSUME NEW h \in Pages, Free(h)' PROVE data'[h] = Zero
    <3>1. CASE h = g
      <4>1. Alone(p, v) /\ leaked[g] = 0
        BY <1>2, <1>3, <1>5, <2>3, <3>1, SMT DEF Alone, Free
      <4> QED BY <1>2, <1>6, <3>1, <4>1, LastUser DEF MInv
    <3>2. CASE h # g
      <4>1. Free(h)
        BY <1>2, <1>3, <1>5, <2>3, <3>2, SMT DEF Free
      <4> QED BY <1>6, <3>2, <4>1 DEF MInv, Frames
    <3> QED BY <3>1, <3>2
  <2> QED BY <2>2, <2>3 DEF Frames
<1>9. Objects'
  BY <1>3, <1>5, ObjectsSame DEF MInv
<1>10. \A r \in Procs : r # p => area'[r] = area[r] /\ mapping'[r] = mapping[r] /\ pte'[r] = pte[r]
  BY <1>3 DEF MInv, IInv, TypeOK
<1>11. Forked'
  BY <1>1, <1>3, <1>4, <1>10, ForkedSame DEF MInv
<1>12. NoEntries'
  <2> SUFFICES ASSUME NEW q \in Procs, NEW u \in Addrs, q # p PROVE NoEntry(q, u)'
    BY <1>1, <1>3, SMT DEF NoEntries, NoEntry
  <2>1. NoEntry(q, u)
    BY DEF MInv, NoEntries
  <2>2. ASSUME Alone(q, u) PROVE Alone(q, u)' /\ data'[mapping[q][u]] = data[mapping[q][u]]
    <3>1. mapping[q][u] \in Pages /\ mapping[q][u] # g /\ mapping[q][u] # None
      BY <1>2, <2>2, NoneAssumption DEF Alone
    <3>2. Alone(q, u)'
      BY <1>3, <1>5, <2>2, <3>1, AloneSame, SMT
    <3> QED BY <1>6, <3>1, <3>2
  <2> QED BY <1>3, <1>4, <1>5, <2>1, <2>2, NoEntrySame
<1>13. ASSUME NEW q \in Procs, NEW u \in Addrs PROVE Memory(q, u)' = Memory(q, u)
  <2>1. CASE q = p
    BY <1>1, <1>3, <2>1 DEF Memory
  <2>2. CASE q # p
    <3>1. ASSUME pte[q][u] # None PROVE data'[pte[q][u].pg] = data[pte[q][u].pg]
      <4>1. pte[q][u].pg = mapping[q][u] /\ mapping[q][u] \in Pages
        BY <3>1, Mapped DEF MInv
      <4>2. mapping[q][u] = g => After(g) = data[g]
        BY <1>2, <1>7, <2>2, <4>1 DEF Alone
      <4> QED BY <1>6, <4>1, <4>2
    <3> QED BY <1>3, <1>5, <2>2, <3>1, MemorySame
  <2> QED BY <2>1, <2>2
<1>14. \A u \in Addrs : Obj(u)' = Obj(u)
  <2> SUFFICES ASSUME NEW u \in Addrs, pages[u] # None PROVE data'[pages[u]] = data[pages[u]]
    BY <1>3 DEF Obj
  <2>1. pages[u] \in Pages /\ (pages[u] = g => After(g) = data[g])
    BY <1>2, <1>7 DEF MInv, IInv, TypeOK, Alone
  <2> QED BY <1>6, <2>1
<1> QED BY <1>3, <1>8, <1>9, <1>11, <1>12, <1>13, <1>14 DEF Sees, SeesSame

\* Look() copies no page of a shared area, and no area changes under a fault.
LEMMA CopiesNext ==
  ASSUME MInv, [Next]_vars
  PROVE  Copies'
<1> SUFFICES ASSUME NEW r \in Procs, pc'[r] = "copy" PROVE area'[r][at'[r]] # "shared"
  BY DEF Copies
<1>1. ASSUME pc[r] = "copy", at'[r] = at[r], area'[r] = area[r] PROVE area'[r][at'[r]] # "shared"
  BY <1>1 DEF MInv, Copies
<1>2. pc[r] = "copy" => r \in live /\ \A q \in Procs : child[q] # r
  BY NoneAssumption DEF MInv, IInv, Lives
<1>3. ASSUME NEW p \in Procs, Look(p) PROVE area'[r][at'[r]] # "shared"
  <2>1. UNCHANGED <<area, at>>
    BY <1>3 DEF Look
  <2>2. CASE r = p
    <3>1. area[p][at[p]] # "shared"
      BY <1>3, <2>2 DEF Look, Run, MInv, IInv, TypeOK
    <3> QED BY <2>1, <2>2, <3>1
  <2>3. CASE r # p
    <3>1. pc[r] = "copy"
      BY <1>3, <2>3 DEF Look, Run, MInv, IInv, TypeOK
    <3> QED BY <1>1, <2>1, <3>1
  <2> QED BY <2>2, <2>3
<1>4. ASSUME NEW p \in Procs, Populate(p) \/ Copy(p) PROVE area'[r][at'[r]] # "shared"
  <2>1. UNCHANGED <<area, at>>
    BY <1>4 DEF Populate, Copy
  <2>2. pc[r] = "copy"
    BY <1>4 DEF Populate, Copy, Run, MInv, IInv, TypeOK
  <2> QED BY <1>1, <2>1, <2>2
<1>5. ASSUME NEW p \in Procs, Share(p) PROVE area'[r][at'[r]] # "shared"
  <2>1. pc[r] = "copy" /\ at' = at
    BY <1>5 DEF Share, Run, MInv, IInv, TypeOK
  <2>2. child[p] # r
    BY <1>2, <2>1
  <2>3. area'[r] = area[r]
    BY <1>5, <2>2 DEF Share, MInv, IInv, TypeOK
  <2> QED BY <1>1, <2>1, <2>3
<1>6. ASSUME NEW p \in Procs, Protect(p) \/ ForkEnd(p) \/ exit(p) PROVE area'[r][at'[r]] # "shared"
  <2>1. area' = area
    BY <1>6 DEF Protect, ForkEnd, exit
  <2>2. pc[r] = "copy" /\ at'[r] = at[r]
    BY <1>6 DEF Protect, ForkEnd, exit, Run, MInv, IInv, TypeOK
  <2> QED BY <1>1, <2>1, <2>2
<1>7. ASSUME NEW p \in Procs, Drop(p) PROVE area'[r][at'[r]] # "shared"
  <2>1. pc[r] = "copy" /\ pc[p] = "drop"
    BY <1>7 DEF Drop, Run, MInv, IInv, TypeOK
  <2>2. at'[r] = at[r] /\ area'[r] = area[r]
    BY <1>7, <2>1 DEF Drop, MInv, IInv, TypeOK
  <2> QED BY <1>1, <2>1, <2>2
<1>8. ASSUME NEW p \in Procs, NEW c \in Procs, fork(p, c) PROVE area'[r][at'[r]] # "shared"
  <2>1. pc[r] = "copy" /\ at'[r] = at[r] /\ area' = area
    BY <1>8 DEF fork, Run, MInv, IInv, TypeOK
  <2> QED BY <1>1, <2>1
<1>9. ASSUME NEW p \in Procs, NEW v \in Addrs,
             \/ unmap(p, v) \/ \E x \in Values : Store(p, v, x)
             \/ \E kind \in Kinds : mmap(p, v, kind)
      PROVE  area'[r][at'[r]] # "shared"
  <2>1. pc' = pc /\ at' = at /\ pc[p] = "user" /\ \A q \in Procs : q # p => area'[q] = area[q]
    BY <1>9 DEF unmap, Store, mmap, MInv, IInv, TypeOK
  <2> QED BY <1>1, <2>1
<1>10. ASSUME NEW p \in Procs, NEW v \in Addrs, NEW write \in BOOLEAN, fault(p, v, write)
       PROVE  area'[r][at'[r]] # "shared"
  <2>1. pc[r] = "copy" /\ at'[r] = at[r] /\ area' = area
    BY <1>10 DEF fault, Run, MInv, IInv, TypeOK
  <2> QED BY <1>1, <2>1
<1>11. CASE UNCHANGED vars
  BY <1>1, <1>11 DEF vars
<1> QED BY <1>3, <1>4, <1>5, <1>6, <1>7, <1>8, <1>9, <1>10, <1>11 DEF Next

\* The invariant holds at first, and the processes see nothing.
LEMMA InitMInv == Init => MInv /\ Private!Init
<1> SUFFICES ASSUME Init PROVE MInv /\ Private!Init
  OBVIOUS
<1>1. IInv
  BY InitIInv
<1>2. /\ \A p \in Procs, v \in Addrs : area[p][v] = None /\ mapping[p][v] = None
      /\ \A v \in Addrs : pages[v] = None
  BY DEF Init, Empty
<1>3. Frames
  BY DEF Init, Frames
<1>4. Objects /\ NoEntries
  BY <1>2 DEF Objects, NoEntries, NoEntry
<1>5. Forked /\ Copies
  BY DEF Init, Forked, Copies
<1>6. \A p \in Procs, v \in Addrs : Memory(p, v) = "unmapped"
  BY <1>2 DEF Memory
<1>7. [p \in Procs |-> [v \in Addrs |-> Memory(p, v)]] = [p \in Procs |-> [v \in Addrs |-> "unmapped"]]
  BY <1>6
<1>8. [v \in Addrs |-> IF pages[v] = None THEN Zero ELSE data[pages[v]]] = [v \in Addrs |-> Zero]
  BY <1>2
<1>9. Private!Init
  BY <1>7, <1>8 DEF Init, Private!Init
<1> QED BY <1>1, <1>3, <1>4, <1>5, <1>9 DEF MInv

\* Every step keeps it, and is a step of the private memories or changes nothing.
LEMMA NextSees ==
  ASSUME MInv, [Next]_vars
  PROVE  Sees' /\ (Private!Next \/ UNCHANGED Private!vars)
<1>1. ASSUME NEW p \in Procs, Populate(p) \/ Look(p) \/ Share(p) \/ Protect(p) \/ Drop(p)
      PROVE  Sees' /\ UNCHANGED Private!vars
  BY <1>1, PopulateSees, LookSees, ShareSees, ProtectSees, DropSees, Stutters
<1>2. ASSUME NEW p \in Procs, Copy(p) PROVE Sees' /\ (Private!Next \/ UNCHANGED Private!vars)
  BY <1>2, CopySees, Stutters DEF Private!Next
<1>3. ASSUME NEW p \in Procs, ForkEnd(p) \/ exit(p) PROVE Sees' /\ Private!Next
  BY <1>3, ForkEndSees, exitSees DEF Private!Next
<1>4. ASSUME NEW p \in Procs, NEW c \in Procs, fork(p, c) PROVE Sees' /\ UNCHANGED Private!vars
  BY <1>4, forkSees, Stutters
<1>5. ASSUME NEW p \in Procs, NEW v \in Addrs, NEW x \in Values, Store(p, v, x)
      PROVE  Sees' /\ Private!Next
  BY <1>5, StoreSees DEF Private!Next
<1>6. ASSUME NEW p \in Procs, NEW v \in Addrs, NEW kind \in Kinds, mmap(p, v, kind)
      PROVE  Sees' /\ Private!Next
  BY <1>6, mmapSees DEF Private!Next
<1>7. ASSUME NEW p \in Procs, NEW v \in Addrs, unmap(p, v) PROVE Sees' /\ Private!Next
  BY <1>7, unmapSees DEF Private!Next
<1>8. ASSUME NEW p \in Procs, NEW v \in Addrs, NEW write \in BOOLEAN, fault(p, v, write)
      PROVE  Sees' /\ UNCHANGED Private!vars
  BY <1>8, faultSees, Stutters
<1>9. CASE UNCHANGED vars
  <2>1. UNCHANGED <<area, mapping, pte, pages, data, leaked, live, pc, at, child>>
    BY <1>9 DEF vars, memory
  <2>2. Frames' /\ Objects' /\ \A u \in Addrs : Obj(u)' = Obj(u)
    BY <2>1, PagesStay
  <2>3. NoEntries'
    <3> SUFFICES ASSUME NEW q \in Procs, NEW u \in Addrs PROVE NoEntry(q, u)'
      BY DEF NoEntries
    <3>1. NoEntry(q, u) /\ (Alone(q, u) => Alone(q, u)')
      BY <2>1, PagesStay DEF MInv, NoEntries
    <3> QED BY <2>1, <3>1, NoEntrySame
  <2>4. Forked'
    BY <2>1 DEF MInv, Forked
  <2>5. \A q \in Procs, u \in Addrs : Memory(q, u)' = Memory(q, u)
    BY <2>1, MemorySame
  <2> QED BY <2>1, <2>2, <2>3, <2>4, <2>5, Stutters DEF Sees, SeesSame
<1> QED BY <1>1, <1>2, <1>3, <1>4, <1>5, <1>6, <1>7, <1>8, <1>9 DEF Next

\* get_page_internal, fork, mmap, unmap, ~space: for any processes, addresses and
\* pages, every process sees a memory of its own, of which a fork gives the child a
\* copy, and the object where it maps one shared, whatever the faults, forks and
\* exits of those that share its pages.
THEOREM MemoryIsPrivate == Spec => ImplementsPrivateMemory
<1>1. MInv /\ [Next]_vars => MInv'
  BY NextIInv, CopiesNext, NextSees DEF MInv, Sees
<1>2. MInv /\ [Next]_vars => [Private!Next]_(Private!vars)
  BY NextSees
<1> QED BY <1>1, <1>2, InitMInv, PTL DEF Spec, ImplementsPrivateMemory, Private!Spec

-----------------------------------------------------------------------------
\* A set of natural numbers that is not empty has a least one.
LEMMA LeastOf ==
  ASSUME NEW T \in SUBSET Nat, T # {}
  PROVE  \E x \in T : \A y \in T : x <= y
<1>1. PICK x \in T : \A y \in T : ~(<<y, x>> \in OpToRel(<, Nat))
  BY NatLessThanWellFounded, WFMin
<1>2. ASSUME NEW y \in T PROVE x <= y
  <2>1. x \in Nat /\ y \in Nat
    OBVIOUS
  <2>2. y < x => <<y, x>> \in OpToRel(<, Nat)
    BY <2>1, SMT DEF OpToRel
  <2>3. ~(y < x)
    BY <1>1, <2>2
  <2> QED BY <2>1, <2>3, SMT
<1> QED BY <1>2

\* Where the elements of two sequences are in the one made of both.
LEMMA Joins ==
  ASSUME NEW B, NEW s \in Seq(B), NEW t \in Seq(B)
  PROVE  /\ s \o t \in Seq(B) /\ Len(s \o t) = Len(s) + Len(t)
         /\ \A j \in 1..(Len(s) + Len(t)) :
              (s \o t)[j] = IF j <= Len(s) THEN s[j] ELSE t[j - Len(s)]
<1>1. s \o t \in Seq(B) /\ Len(s \o t) = Len(s) + Len(t)
  BY SMT
<1>2. ASSUME NEW j \in 1..(Len(s) + Len(t))
      PROVE  (s \o t)[j] = IF j <= Len(s) THEN s[j] ELSE t[j - Len(s)]
  BY SMT
<1> QED BY <1>1, <1>2

\* m is l with r at the place k.
HasAt(m, l, k, r) ==
  /\ m \in Seq(Kmem!Block) /\ Len(m) = Len(l) + 1 /\ m[k] = r
  /\ \A j \in 1..(k-1) : m[j] = l[j]
  /\ \A j \in (k+1)..(Len(l) + 1) : m[j] = l[j-1]

\* Where the elements are after an insertion.
LEMMA InsertPlaces ==
  ASSUME NEW l \in Seq(Kmem!Block), NEW k \in 1..(Len(l) + 1), NEW r \in Kmem!Block
  PROVE  HasAt(Kmem!Link(l, k, r), l, k, r)
<1> DEFINE B == Kmem!Block  m == Kmem!Link(l, k, r)
           a == SubSeq(l, 1, k-1)  b == SubSeq(l, k, Len(l))  c == a \o <<r>>
<1>0. Len(l) \in Nat /\ k \in Nat /\ k >= 1 /\ k <= Len(l) + 1
  BY SMT
<1>1. a \in Seq(B) /\ Len(a) = k - 1 /\ \A j \in 1..(k-1) : a[j] = l[j]
  BY <1>0, SMT
<1>2. b \in Seq(B) /\ Len(b) = Len(l) + 1 - k /\ \A j \in 1..(Len(l) + 1 - k) : b[j] = l[k + j - 1]
  BY <1>0, SMT
<1> HIDE DEF a, b
<1>3. /\ c \in Seq(B) /\ Len(c) = k /\ c[k] = r /\ \A j \in 1..(k-1) : c[j] = a[j]
  BY <1>0, <1>1, SMT
<1> HIDE DEF c
<1>4. m = c \o b
  BY DEF Kmem!Link, a, b, c
<1> HIDE DEF m
<1>5. c \in Seq(B) /\ b \in Seq(B) /\ Len(c) = k /\ Len(b) = Len(l) + 1 - k
  BY <1>2, <1>3
<1>6. /\ m \in Seq(B) /\ Len(m) = Len(c) + Len(b)
      /\ \A j \in 1..(Len(c) + Len(b)) : m[j] = IF j <= Len(c) THEN c[j] ELSE b[j - Len(c)]
  <2>1. c \in Seq(B) /\ b \in Seq(B)
    BY <1>5
  <2>2. /\ c \o b \in Seq(B) /\ Len(c \o b) = Len(c) + Len(b)
        /\ \A j \in 1..(Len(c) + Len(b)) :
             (c \o b)[j] = IF j <= Len(c) THEN c[j] ELSE b[j - Len(c)]
    BY <2>1, Joins
  <2> QED BY <1>4, <2>2
<1>7. Len(m) = Len(l) + 1
  <2>1. Len(m) = Len(c) + Len(b)
    BY <1>6
  <2> QED BY <1>0, <1>5, <2>1, SMT
<1>8. m[k] = r
  <2>1. k \in 1..(Len(c) + Len(b)) /\ k <= Len(c)
    BY <1>0, <1>5, SMT
  <2> QED BY <1>3, <1>6, <2>1
<1>9. ASSUME NEW j \in 1..(k-1) PROVE m[j] = l[j]
  <2>1. j \in 1..(Len(c) + Len(b)) /\ j <= Len(c)
    BY <1>0, <1>5, SMT
  <2> QED BY <1>1, <1>3, <1>6, <2>1
<1>10. ASSUME NEW j \in (k+1)..(Len(l) + 1) PROVE m[j] = l[j-1]
  <2>1. /\ j \in 1..(Len(c) + Len(b)) /\ ~(j <= Len(c))
        /\ j - Len(c) \in 1..(Len(l) + 1 - k) /\ k + (j - Len(c)) - 1 = j - 1
    BY <1>0, <1>5, SMT
  <2>2. m[j] = b[j - Len(c)]
    BY <1>6, <2>1
  <2> QED BY <1>2, <2>1, <2>2
<1> QED BY <1>6, <1>7, <1>8, <1>9, <1>10 DEF HasAt, m

\* Where they are after a removal.
LEMMA RemovePlaces ==
  ASSUME NEW B, NEW l \in Seq(B), NEW k \in 1..Len(l), NEW m, m = Kmem!Unlink(l, k)
  PROVE  /\ m \in Seq(B) /\ Len(m) = Len(l) - 1
         /\ \A j \in 1..(k-1) : m[j] = l[j]
         /\ \A j \in k..(Len(l) - 1) : m[j] = l[j+1]
<1> DEFINE a == SubSeq(l, 1, k-1)  b == SubSeq(l, k + 1, Len(l))
<1>0. Len(l) \in Nat /\ k \in Nat /\ k >= 1 /\ k <= Len(l)
  BY SMT
<1>1. a \in Seq(B) /\ Len(a) = k - 1 /\ \A j \in 1..(k-1) : a[j] = l[j]
  BY <1>0, SMT
<1>2. b \in Seq(B) /\ Len(b) = Len(l) - k /\ \A j \in 1..(Len(l) - k) : b[j] = l[k + j]
  BY <1>0, SMT
<1> HIDE DEF a, b
<1>4. m = a \o b
  BY DEF Kmem!Unlink, a, b
<1>5. a \in Seq(B) /\ b \in Seq(B) /\ Len(a) = k - 1 /\ Len(b) = Len(l) - k
  BY <1>1, <1>2
<1>6. /\ m \in Seq(B) /\ Len(m) = Len(a) + Len(b)
      /\ \A j \in 1..(Len(a) + Len(b)) : m[j] = IF j <= Len(a) THEN a[j] ELSE b[j - Len(a)]
  <2>1. a \in Seq(B) /\ b \in Seq(B)
    BY <1>5
  <2>2. /\ a \o b \in Seq(B) /\ Len(a \o b) = Len(a) + Len(b)
        /\ \A j \in 1..(Len(a) + Len(b)) :
             (a \o b)[j] = IF j <= Len(a) THEN a[j] ELSE b[j - Len(a)]
    BY <2>1, Joins
  <2> QED BY <1>4, <2>2
<1>7. Len(m) = Len(l) - 1
  <2>1. Len(m) = Len(a) + Len(b)
    BY <1>6
  <2> QED BY <1>0, <1>5, <2>1, SMT
<1>8. ASSUME NEW j \in 1..(k-1) PROVE m[j] = l[j]
  <2>1. j \in 1..(Len(a) + Len(b)) /\ j <= Len(a)
    BY <1>0, <1>5, SMT
  <2> QED BY <1>1, <1>6, <2>1
<1>9. ASSUME NEW j \in k..(Len(l) - 1) PROVE m[j] = l[j+1]
  <2>1. /\ j \in 1..(Len(a) + Len(b)) /\ ~(j <= Len(a))
        /\ j - Len(a) \in 1..(Len(l) - k) /\ k + (j - Len(a)) = j + 1
    BY <1>0, <1>5, SMT
  <2>2. m[j] = b[j - Len(a)]
    BY <1>6, <2>1
  <2> QED BY <1>2, <2>1, <2>2
<1> QED BY <1>6, <1>7, <1>8, <1>9

\* The pages of a list's blocks.
PagesIn(l) == UNION {Kmem!PagesOf(l[i]) : i \in DOMAIN l}

\* No page is in two blocks of a list.
Apart(l) ==
  \A i, j \in DOMAIN l, pg \in Nat : pg \in Kmem!PagesOf(l[i]) /\ pg \in Kmem!PagesOf(l[j]) => i = j

\* The pages of the blocks that alloc() has given out.
UsedPages == UNION {Kmem!PagesOf(b) : b \in allocated}

\* The pages of the free list and those given out are apart, each in one block,
\* they are what boot has handed over, and nfree counts those of the list.
KmemInv ==
  /\ freelist \in Seq(Kmem!Block) /\ allocated \in SUBSET Kmem!Block
  /\ booted \in 0..Len(Ranges)
  /\ Apart(freelist)
  /\ \A b, c \in allocated, pg \in Nat : pg \in Kmem!PagesOf(b) /\ pg \in Kmem!PagesOf(c) => b = c
  /\ PagesIn(freelist) \intersect UsedPages = {}
  /\ PagesIn(freelist) \union UsedPages = Kmem!Given
  /\ IsFiniteSet(PagesIn(freelist)) /\ nfree = Cardinality(PagesIn(freelist))

\* The pages of a block are natural numbers, as many as its length.
LEMMA PagesCount ==
  ASSUME NEW b \in Kmem!Block
  PROVE  /\ Kmem!PagesOf(b) \subseteq Nat
         /\ IsFiniteSet(Kmem!PagesOf(b)) /\ Cardinality(Kmem!PagesOf(b)) = b.len
         /\ b.start \in Nat /\ b.len \in Nat /\ b.len > 0
<1> DEFINE e == b.start + b.len - 1
<1>1. b.start \in Nat /\ b.len \in Nat /\ b.len > 0
  BY SMT DEF Kmem!Block
<1>2. b.start \in Int /\ e \in Int /\ ~(b.start > e) /\ e - b.start + 1 = b.len
  BY <1>1, SMT
<1>3. Kmem!PagesOf(b) = b.start .. e /\ b.start .. e \subseteq Nat
  BY <1>1, SMT DEF Kmem!PagesOf
<1> HIDE DEF e
<1>4. /\ IsFiniteSet(b.start .. e)
      /\ Cardinality(b.start .. e) = IF b.start > e THEN 0 ELSE e - b.start + 1
  BY <1>2, FS_Interval
<1> QED BY <1>1, <1>2, <1>3, <1>4

\* A page is in a block between its start and its end.
LEMMA PagesAre ==
  ASSUME NEW b \in Kmem!Block, NEW pg
  PROVE  pg \in Kmem!PagesOf(b) <=> pg \in Nat /\ b.start <= pg /\ pg < b.start + b.len
BY SMT DEF Kmem!Block, Kmem!PagesOf

\* A page of a list is in a block of it.
LEMMA InPages ==
  ASSUME NEW l, NEW pg
  PROVE  pg \in PagesIn(l) <=> \E i \in DOMAIN l : pg \in Kmem!PagesOf(l[i])
BY DEF PagesIn

\* Link: the list has the pages of the block too.
LEMMA Inserted ==
  ASSUME NEW l \in Seq(Kmem!Block), NEW k \in 1..(Len(l) + 1), NEW r \in Kmem!Block,
         Apart(l), PagesIn(l) \intersect Kmem!PagesOf(r) = {}
  PROVE  /\ Kmem!Link(l, k, r) \in Seq(Kmem!Block) /\ Apart(Kmem!Link(l, k, r))
         /\ PagesIn(Kmem!Link(l, k, r)) = PagesIn(l) \union Kmem!PagesOf(r)
<1> DEFINE m == Kmem!Link(l, k, r)
           From(j) == IF j < k THEN j ELSE j - 1
           To(i) == IF i < k THEN i ELSE i + 1
<1>0. /\ m \in Seq(Kmem!Block) /\ Len(m) = Len(l) + 1 /\ m[k] = r
      /\ \A j \in 1..(k - 1) : m[j] = l[j]
      /\ \A j \in (k + 1)..(Len(l) + 1) : m[j] = l[j - 1]
  <2>1. HasAt(Kmem!Link(l, k, r), l, k, r)
    BY InsertPlaces
  <2> QED BY <2>1 DEF HasAt
<1> HIDE DEF m
<1>1. /\ k \in DOMAIN m /\ m[k] = r /\ m \in Seq(Kmem!Block)
      /\ \A j \in DOMAIN m : j # k => From(j) \in DOMAIN l /\ m[j] = l[From(j)]
      /\ \A i \in DOMAIN l : To(i) \in DOMAIN m /\ m[To(i)] = l[i]
  <2>1. /\ DOMAIN l = 1..Len(l) /\ DOMAIN m = 1..(Len(l) + 1) /\ Len(l) \in Nat
        /\ k \in Nat /\ k >= 1 /\ k <= Len(l) + 1
    <3>1. m \in Seq(Kmem!Block) /\ Len(m) = Len(l) + 1
      BY <1>0
    <3> QED BY <3>1, SMT
  <2>2. ASSUME NEW j \in DOMAIN m, j # k PROVE From(j) \in DOMAIN l /\ m[j] = l[From(j)]
    <3>1. CASE j < k
      <4>1. j \in 1..(k - 1) /\ j \in DOMAIN l
        BY <2>1, <2>2, <3>1, SMT
      <4> QED BY <1>0, <3>1, <4>1
    <3>2. CASE ~(j < k)
      <4>1. j \in (k + 1)..(Len(l) + 1) /\ j - 1 \in DOMAIN l
        BY <2>1, <2>2, <3>2, SMT
      <4> QED BY <1>0, <3>2, <4>1
    <3> QED BY <3>1, <3>2
  <2>3. ASSUME NEW i \in DOMAIN l PROVE To(i) \in DOMAIN m /\ m[To(i)] = l[i]
    <3>1. CASE i < k
      <4>1. i \in 1..(k - 1) /\ i \in DOMAIN m
        BY <2>1, <3>1, SMT
      <4> QED BY <1>0, <3>1, <4>1
    <3>2. CASE ~(i < k)
      <4>1. PICK y \in (k + 1)..(Len(l) + 1) : y = i + 1 /\ y \in DOMAIN m /\ y - 1 = i
        BY <2>1, <3>2, SMT
      <4>2. m[y] = l[y - 1]
        BY <1>0
      <4> QED BY <3>2, <4>1, <4>2
    <3> QED BY <3>1, <3>2
  <2>4. k \in DOMAIN m
    BY <2>1, SMT
  <2> QED BY <1>0, <2>2, <2>3, <2>4
<1>2. \A i, j \in DOMAIN m : i # k /\ j # k /\ From(i) = From(j) => i = j
  <2>1. DOMAIN m \subseteq Nat /\ k \in Nat
    <3>1. m \in Seq(Kmem!Block)
      BY <1>0
    <3> QED BY <3>1, SMT
  <2> QED BY <2>1, SMT
<1> HIDE DEF From, To
<1>3. \A pg : pg \in PagesIn(m) <=> pg \in PagesIn(l) \/ pg \in Kmem!PagesOf(r)
  <2>1. \A pg : pg \in PagesIn(m) => pg \in PagesIn(l) \/ pg \in Kmem!PagesOf(r)
    <3> SUFFICES ASSUME NEW pg, pg \in PagesIn(m), pg \notin Kmem!PagesOf(r)
                 PROVE  pg \in PagesIn(l)
      OBVIOUS
    <3>1. PICK j \in DOMAIN m : pg \in Kmem!PagesOf(m[j])
      BY InPages
    <3>2. From(j) \in DOMAIN l /\ pg \in Kmem!PagesOf(l[From(j)])
      BY <1>1, <3>1
    <3> QED BY <3>2, InPages
  <2>2. \A pg : pg \in PagesIn(l) \/ pg \in Kmem!PagesOf(r) => pg \in PagesIn(m)
    BY <1>1, InPages
  <2> QED BY <2>1, <2>2
<1>4. Apart(m)
  <2> SUFFICES ASSUME NEW i \in DOMAIN m, NEW j \in DOMAIN m, NEW pg \in Nat,
                      pg \in Kmem!PagesOf(m[i]), pg \in Kmem!PagesOf(m[j])
               PROVE  i = j
    BY DEF Apart
  <2>1. CASE i = k
    BY <2>1, <1>1, InPages
  <2>2. CASE j = k
    BY <2>2, <1>1, InPages
  <2>3. CASE i # k /\ j # k
    BY <2>3, <1>1, <1>2 DEF Apart
  <2> QED BY <2>1, <2>2, <2>3
<1> QED BY <1>1, <1>3, <1>4 DEF m

\* Unlink: the pages of the block are gone.
LEMMA Removed ==
  ASSUME NEW l \in Seq(Kmem!Block), NEW k \in DOMAIN l, Apart(l)
  PROVE  /\ Kmem!Unlink(l, k) \in Seq(Kmem!Block) /\ Apart(Kmem!Unlink(l, k))
         /\ PagesIn(Kmem!Unlink(l, k)) = PagesIn(l) \ Kmem!PagesOf(l[k])
<1> DEFINE m == Kmem!Unlink(l, k)
           From(j) == IF j < k THEN j ELSE j + 1
           To(i) == IF i < k THEN i ELSE i - 1
<1>0. /\ m \in Seq(Kmem!Block) /\ Len(m) = Len(l) - 1
      /\ \A j \in 1..(k - 1) : m[j] = l[j]
      /\ \A j \in k..(Len(l) - 1) : m[j] = l[j + 1]
  <2>1. k \in 1..Len(l)
    BY SMT
  <2> QED BY <2>1, RemovePlaces
<1> HIDE DEF m
<1>1. /\ \A j \in DOMAIN m : From(j) \in DOMAIN l /\ From(j) # k /\ m[j] = l[From(j)]
      /\ \A i \in DOMAIN l : i # k => To(i) \in DOMAIN m /\ m[To(i)] = l[i]
  <2>1. /\ DOMAIN l = 1..Len(l) /\ DOMAIN m = 1..(Len(l) - 1) /\ Len(l) \in Nat
        /\ k \in Nat /\ k >= 1 /\ k <= Len(l)
    <3>1. m \in Seq(Kmem!Block) /\ Len(m) = Len(l) - 1
      BY <1>0
    <3> QED BY <3>1, SMT
  <2>2. ASSUME NEW j \in DOMAIN m
        PROVE  From(j) \in DOMAIN l /\ From(j) # k /\ m[j] = l[From(j)]
    <3>1. CASE j < k
      <4>1. j \in 1..(k - 1) /\ j \in DOMAIN l /\ j # k
        BY <2>1, <3>1, SMT
      <4> QED BY <1>0, <3>1, <4>1
    <3>2. CASE ~(j < k)
      <4>1. j \in k..(Len(l) - 1) /\ j + 1 \in DOMAIN l /\ j + 1 # k
        BY <2>1, <3>2, SMT
      <4> QED BY <1>0, <3>2, <4>1
    <3> QED BY <3>1, <3>2
  <2>3. ASSUME NEW i \in DOMAIN l, i # k PROVE To(i) \in DOMAIN m /\ m[To(i)] = l[i]
    <3>1. CASE i < k
      <4>1. i \in 1..(k - 1) /\ i \in DOMAIN m
        BY <2>1, <3>1, SMT
      <4> QED BY <1>0, <3>1, <4>1
    <3>2. CASE ~(i < k)
      <4>1. PICK y \in k..(Len(l) - 1) : y = i - 1 /\ y \in DOMAIN m /\ y + 1 = i
        BY <2>1, <2>3, <3>2, SMT
      <4>2. m[y] = l[y + 1]
        BY <1>0
      <4> QED BY <3>2, <4>1, <4>2
    <3> QED BY <3>1, <3>2
  <2> QED BY <2>2, <2>3
<1>2. \A i, j \in DOMAIN m : From(i) = From(j) => i = j
  <2>1. DOMAIN m \subseteq Nat /\ k \in Nat
    <3>1. m \in Seq(Kmem!Block)
      BY <1>0
    <3> QED BY <3>1, SMT
  <2> QED BY <2>1, SMT
<1> HIDE DEF From, To
<1>3. \A i \in DOMAIN l : \A pg : pg \in Kmem!PagesOf(l[i]) => pg \in Nat
  <2>1. \A i \in DOMAIN l : l[i] \in Kmem!Block
    BY SMT
  <2> QED BY <2>1, PagesCount
<1>4. \A pg : pg \in PagesIn(m) <=> pg \in PagesIn(l) /\ pg \notin Kmem!PagesOf(l[k])
  <2>1. \A pg : pg \in PagesIn(m) => pg \in PagesIn(l) /\ pg \notin Kmem!PagesOf(l[k])
    <3> SUFFICES ASSUME NEW pg, pg \in PagesIn(m)
                 PROVE  pg \in PagesIn(l) /\ pg \notin Kmem!PagesOf(l[k])
      OBVIOUS
    <3>1. PICK j \in DOMAIN m : pg \in Kmem!PagesOf(m[j])
      BY InPages
    <3>2. From(j) \in DOMAIN l /\ From(j) # k /\ pg \in Kmem!PagesOf(l[From(j)])
      BY <1>1, <3>1
    <3> QED BY <1>3, <3>2, InPages DEF Apart
  <2>2. \A pg : pg \in PagesIn(l) /\ pg \notin Kmem!PagesOf(l[k]) => pg \in PagesIn(m)
    BY <1>1, InPages
  <2> QED BY <2>1, <2>2
<1>5. Apart(m)
  BY <1>1, <1>2 DEF Apart
<1> QED BY <1>0, <1>4, <1>5 DEF m

\* A block that gets shorter loses pages.
LEMMA Replaced ==
  ASSUME NEW l \in Seq(Kmem!Block), NEW k \in DOMAIN l, NEW b \in Kmem!Block, Apart(l),
         Kmem!PagesOf(b) \subseteq Kmem!PagesOf(l[k])
  PROVE  /\ [l EXCEPT ![k] = b] \in Seq(Kmem!Block) /\ Apart([l EXCEPT ![k] = b])
         /\ PagesIn([l EXCEPT ![k] = b]) =
              PagesIn(l) \ (Kmem!PagesOf(l[k]) \ Kmem!PagesOf(b))
<1> DEFINE m == [l EXCEPT ![k] = b]
<1>1. /\ m \in Seq(Kmem!Block) /\ DOMAIN m = DOMAIN l /\ m[k] = b
      /\ \A i \in DOMAIN l : i # k => m[i] = l[i]
  BY SMT
<1> HIDE DEF m
<1>2. \A i \in DOMAIN l : \A pg : pg \in Kmem!PagesOf(l[i]) => pg \in Nat
  <2>1. \A i \in DOMAIN l : l[i] \in Kmem!Block
    BY SMT
  <2> QED BY <2>1, PagesCount
<1>3. \A pg : pg \in PagesIn(m) <=>
        pg \in PagesIn(l) /\ ~(pg \in Kmem!PagesOf(l[k]) /\ pg \notin Kmem!PagesOf(b))
  <2>1. ASSUME NEW pg, pg \in PagesIn(m)
        PROVE  pg \in PagesIn(l) /\ ~(pg \in Kmem!PagesOf(l[k]) /\ pg \notin Kmem!PagesOf(b))
    <3>1. PICK i \in DOMAIN l : pg \in Kmem!PagesOf(m[i])
      BY <1>1, <2>1, InPages
    <3> QED BY <1>1, <1>2, <3>1, InPages DEF Apart
  <2>2. ASSUME NEW pg, pg \in PagesIn(l), ~(pg \in Kmem!PagesOf(l[k]) /\ pg \notin Kmem!PagesOf(b))
        PROVE  pg \in PagesIn(m)
    <3>1. PICK i \in DOMAIN l : pg \in Kmem!PagesOf(l[i])
      BY <2>2, InPages
    <3> QED BY <1>1, <2>2, <3>1, InPages
  <2> QED BY <2>1, <2>2
<1>4. Apart(m)
  BY <1>1 DEF Apart
<1> QED BY <1>1, <1>3, <1>4 DEF m
------------------------------------------------------------------------------
(* The loop "patch up" *)

\* The recursion of Visits has a solution.
LEMMA VisitsAre ==
  ASSUME NEW l \in Seq(Kmem!Block), NEW k, k = Kmem!Visits(l)
  PROVE  /\ DOMAIN k = DOMAIN l /\ k = [n \in DOMAIN l |-> k[n]]
         /\ \A n \in DOMAIN l : k[n] = IF n = 1 THEN 1 ELSE Kmem!After(l, k[n - 1])
<1> DEFINE Step(g, n) == IF n = 1 THEN 1 ELSE Kmem!After(l, g[n - 1])
           T == {m \in Nat : ~\E g : g = [n \in 1..m |-> Step(g, n)]}
<1>1. T = {}
  <2> SUFFICES ASSUME T # {} PROVE FALSE
    OBVIOUS
  <2>1. PICK m \in T : \A y \in T : m <= y
    BY LeastOf
  <2>2. m \in Nat /\ ~\E g : g = [n \in 1..m |-> Step(g, n)]
    OBVIOUS
  <2>3. CASE m = 0
    <3>1. 1..m = {}
      BY <2>3, SMT
    <3> DEFINE g == [n \in 1..m |-> 0]
    <3>2. g = [n \in 1..m |-> Step(g, n)]
      BY <3>1
    <3> QED BY <2>2, <3>2
  <2>4. CASE m # 0
    <3>1. m - 1 \in Nat /\ m - 1 \notin T
      <4> HIDE DEF T
      <4>1. m - 1 \in Nat /\ ~(m <= m - 1)
        BY <2>2, <2>4, SMT
      <4> QED BY <2>1, <4>1
    <3>2. PICK g : g = [n \in 1..(m - 1) |-> Step(g, n)]
      BY <3>1
    <3> DEFINE h == [n \in 1..m |-> IF n = m THEN Step(g, m) ELSE g[n]]
    <3>3. h = [n \in 1..m |-> h[n]] /\ \A n \in 1..m : h[n] = IF n = m THEN Step(g, m) ELSE g[n]
      OBVIOUS
    <3> HIDE DEF h
    <3>4. ASSUME NEW n \in 1..m PROVE h[n] = Step(h, n)
      <4>1. n # 1 => n - 1 \in 1..m /\ n - 1 # m
        BY <2>2, SMT
      <4>2. n # m => n \in 1..(m - 1)
        BY <2>2, SMT
      <4>3. n # 1 => h[n - 1] = g[n - 1]
        BY <3>3, <4>1
      <4>4. Step(h, n) = Step(g, n)
        <5>1. CASE n = 1
          BY <5>1
        <5>2. CASE n # 1
          BY <4>3, <5>2
        <5> QED BY <5>1, <5>2
      <4>5. n # m => g[n] = Step(g, n)
        <5> HIDE DEF Step
        <5> QED BY <3>2, <4>2
      <4> HIDE DEF Step
      <4> QED BY <3>3, <4>4, <4>5
    <3>5. h = [n \in 1..m |-> Step(h, n)]
      <4> HIDE DEF Step
      <4> QED BY <3>3, <3>4
    <3> QED BY <2>2, <3>5
  <2> QED BY <2>3, <2>4
<1>2. DOMAIN l = 1..Len(l) /\ Len(l) \in Nat
  BY SMT
<1>3. \E g : g = [n \in 1..Len(l) |-> Step(g, n)]
  BY <1>1, <1>2
<1>4. \E g : g = [n \in DOMAIN l |-> Step(g, n)]
  BY <1>2, <1>3
<1>5. k = [n \in DOMAIN l |-> Step(k, n)]
  BY <1>4 DEF Kmem!Visits
<1> HIDE DEF Step
<1>6. DOMAIN k = DOMAIN l /\ k = [n \in DOMAIN l |-> k[n]] /\ \A n \in DOMAIN l : k[n] = Step(k, n)
  BY <1>5
<1> QED BY <1>6 DEF Step

\* The places it visits go up, and over a successor that is taken in.
LEMMA VisitsGoUp ==
  ASSUME NEW l \in Seq(Kmem!Block), NEW k, k = Kmem!Visits(l)
  PROVE  /\ k \in [DOMAIN l -> Nat] /\ \A n \in DOMAIN l : n <= k[n]
         /\ \A m, n \in DOMAIN l : m < n => Kmem!After(l, k[m]) <= k[n]
<1>1. /\ k = [n \in DOMAIN l |-> k[n]]
      /\ \A n \in DOMAIN l : k[n] = IF n = 1 THEN 1 ELSE Kmem!After(l, k[n - 1])
  BY VisitsAre
<1>2. \A i \in Nat : Kmem!After(l, i) \in Nat /\ Kmem!After(l, i) > i
  BY SMT DEF Kmem!After
<1>3. DOMAIN l \in SUBSET Nat /\ \A n \in DOMAIN l : n >= 1 /\ (n = 1 \/ n - 1 \in DOMAIN l)
  BY SMT
<1>4. ASSUME NEW n \in DOMAIN l PROVE k[n] \in Nat /\ n <= k[n]
  <2> DEFINE T == {y \in DOMAIN l : ~(k[y] \in Nat /\ y <= k[y])}
  <2> SUFFICES ASSUME n \in T PROVE FALSE
    OBVIOUS
  <2>1. T \in SUBSET Nat
    BY <1>3
  <2>2. PICK y \in T : \A z \in T : y <= z
    BY <2>1, LeastOf
  <2>3. y \in DOMAIN l /\ y \in Nat /\ y - 1 \notin T
    <3> HIDE DEF T
    <3>1. y \in Nat
      BY <2>1
    <3>2. y - 1 \in Nat => ~(y <= y - 1)
      BY <3>1, SMT
    <3> QED BY <2>1, <2>2, <3>1, <3>2 DEF T
  <2>4. y # 1
    <3>1. 1 \in Nat /\ 1 <= 1
      BY SMT
    <3>2. y = 1 => k[y] = 1
      BY <1>1, <2>3
    <3> QED BY <3>1, <3>2
  <2>5. k[y - 1] \in Nat /\ y - 1 <= k[y - 1] /\ k[y] = Kmem!After(l, k[y - 1])
    BY <1>1, <1>3, <2>3, <2>4
  <2>6. k[y] \in Nat /\ k[y] > k[y - 1]
    BY <1>2, <2>5
  <2>7. y <= k[y]
    BY <2>3, <2>5, <2>6, SMT
  <2> QED BY <2>6, <2>7
<1>5. ASSUME NEW m \in DOMAIN l, NEW n \in DOMAIN l, m < n
      PROVE  Kmem!After(l, k[m]) <= k[n]
  <2> DEFINE T == {y \in DOMAIN l : m < y /\ ~(Kmem!After(l, k[m]) <= k[y])}
  <2> SUFFICES ASSUME n \in T PROVE FALSE
    BY <1>5
  <2>1. T \in SUBSET Nat
    BY <1>3
  <2>2. PICK y \in T : \A z \in T : y <= z
    BY <2>1, LeastOf
  <2>3. y \in DOMAIN l /\ y \in Nat /\ m \in Nat /\ m >= 1 /\ m < y /\ y - 1 \notin T
    <3> HIDE DEF T
    <3>1. y \in Nat /\ m \in Nat /\ m >= 1
      BY <1>3, <2>1
    <3>2. y - 1 \in Nat => ~(y <= y - 1)
      BY <3>1, SMT
    <3> QED BY <2>1, <2>2, <3>1, <3>2 DEF T
  <2>4. y # 1 /\ (y - 1 # m => m < y - 1)
    BY <2>3, SMT
  <2>5. y - 1 \in DOMAIN l /\ k[y] = Kmem!After(l, k[y - 1])
    BY <1>1, <1>3, <2>3, <2>4
  <2>6. /\ Kmem!After(l, k[m]) \in Nat /\ Kmem!After(l, k[y - 1]) \in Nat
        /\ k[y - 1] \in Nat /\ Kmem!After(l, k[y - 1]) > k[y - 1]
    BY <1>2, <1>4, <2>5
  <2>7. CASE y - 1 = m
    <3>1. Kmem!After(l, k[m]) <= k[y]
      BY <2>5, <2>6, <2>7, SMT
    <3> QED BY <3>1
  <2>8. CASE y - 1 # m
    <3>1. Kmem!After(l, k[m]) <= k[y - 1]
      BY <2>3, <2>4, <2>5, <2>8
    <3>2. Kmem!After(l, k[m]) <= k[y]
      BY <2>5, <2>6, <3>1, SMT
    <3> QED BY <3>2
  <2> QED BY <2>7, <2>8
<1>6. k \in [DOMAIN l -> Nat]
  BY <1>1, <1>4
<1> QED BY <1>4, <1>5, <1>6

\* It comes by every block: it visits it, or its predecessor takes it in.
LEMMA VisitsMeetAll ==
  ASSUME NEW l \in Seq(Kmem!Block), NEW k, k = Kmem!Visits(l)
  PROVE  \A i \in DOMAIN l : \E n \in DOMAIN l :
           k[n] <= Len(l) /\ (k[n] = i \/ (Kmem!Touches(l, k[n]) /\ k[n] + 1 = i))
<1> DEFINE Meets(n, i) == k[n] <= Len(l) /\ (k[n] = i \/ (Kmem!Touches(l, k[n]) /\ k[n] + 1 = i))
           T == {i \in DOMAIN l : ~\E n \in DOMAIN l : Meets(n, i)}
<1> SUFFICES ASSUME T # {} PROVE FALSE
  OBVIOUS
<1>1. /\ k \in [DOMAIN l -> Nat] /\ \A n \in DOMAIN l : n <= k[n]
      /\ \A n \in DOMAIN l : k[n] = IF n = 1 THEN 1 ELSE Kmem!After(l, k[n - 1])
  BY VisitsGoUp, VisitsAre
<1>2. T \in SUBSET Nat /\ DOMAIN l = 1..Len(l) /\ Len(l) \in Nat
  BY SMT
<1>3. PICK i \in T : \A y \in T : i <= y
  BY <1>2, LeastOf
<1>4. i \in DOMAIN l /\ i \in Nat /\ i - 1 \notin T /\ (i # 1 => i - 1 \in DOMAIN l) /\ i <= Len(l)
  BY <1>2, <1>3, SMT
<1>5. \A n \in DOMAIN l : ~Meets(n, i)
  OBVIOUS
<1>6. i # 1
  <2>1. i = 1 => k[1] = 1 /\ 1 \in DOMAIN l /\ 1 <= Len(l)
    BY <1>1, <1>4
  <2> QED BY <1>5, <2>1
<1>7. PICK n \in DOMAIN l : Meets(n, i - 1)
  BY <1>4, <1>6
<1>8. k[n] \in Nat /\ n <= k[n] /\ n \in Nat /\ n >= 1
  BY <1>1, <1>2, SMT
<1>9. Kmem!After(l, k[n]) = i
  <2>1. k[n] = i - 1 => k[n] + 1 = i /\ k[n] <= Len(l)
    BY <1>4, <1>8, SMT
  <2>2. ~(Kmem!Touches(l, k[n]) /\ k[n] = i - 1)
    BY <1>5, <2>1
  <2>3. k[n] = i - 1 \/ (Kmem!Touches(l, k[n]) /\ k[n] + 1 = i - 1)
    BY <1>7
  <2>4. CASE k[n] = i - 1
    BY <1>4, <2>1, <2>2, <2>4 DEF Kmem!After
  <2>5. CASE Kmem!Touches(l, k[n]) /\ k[n] + 1 = i - 1
    BY <1>4, <1>8, <2>5, SMT DEF Kmem!After
  <2> QED BY <2>3, <2>4, <2>5
<1>10. n < i
  BY <1>4, <1>8, <1>9, SMT DEF Kmem!After
<1>11. n + 1 \in DOMAIN l /\ n + 1 # 1 /\ n + 1 - 1 = n
  BY <1>2, <1>4, <1>8, <1>10, SMT
<1>12. k[n + 1] = i
  <2>1. \A j \in DOMAIN l : j # 1 => k[j] = Kmem!After(l, k[j - 1])
    BY <1>1
  <2>2. PICK y \in DOMAIN l : y = n + 1 /\ y # 1 /\ y - 1 = n
    BY <1>2, <1>4, <1>8, <1>10, SMT
  <2>3. k[y] = Kmem!After(l, k[n])
    BY <2>1, <2>2
  <2> QED BY <1>9, <2>2, <2>3
<1> QED BY <1>4, <1>5, <1>11, <1>12

\* The loop changes the blocks and not their pages.
LEMMA PatchedSame ==
  ASSUME NEW l \in Seq(Kmem!Block), Apart(l), NEW m, m = Kmem!Patched(l)
  PROVE  m \in Seq(Kmem!Block) /\ Apart(m) /\ PagesIn(m) = PagesIn(l)
<1> DEFINE k == Kmem!Visits(l)
           Has(n, i) == i = k[n] \/ (Kmem!Touches(l, k[n]) /\ i = k[n] + 1)
           D == {n \in DOMAIN l : k[n] <= Len(l)}
           Joined(i) == [l[i] EXCEPT !.len = @ + l[i + 1].len]
<1>0. m = [n \in D |-> IF Kmem!Touches(l, k[n]) THEN Joined(k[n]) ELSE l[k[n]]]
  BY DEF Kmem!Patched
<1>1. /\ k \in [DOMAIN l -> Nat] /\ \A n \in DOMAIN l : n <= k[n]
      /\ \A a, b \in DOMAIN l : a < b => Kmem!After(l, k[a]) <= k[b]
  BY VisitsGoUp
<1>2. \A i \in DOMAIN l : \E n \in D : Has(n, i)
  <2> SUFFICES ASSUME NEW i \in DOMAIN l PROVE \E n \in D : Has(n, i)
    OBVIOUS
  <2>1. PICK n \in DOMAIN l :
          k[n] <= Len(l) /\ (k[n] = i \/ (Kmem!Touches(l, k[n]) /\ k[n] + 1 = i))
    BY VisitsMeetAll
  <2> QED BY <2>1
<1> HIDE DEF k
<1>3. DOMAIN l = 1..Len(l) /\ Len(l) \in Nat /\ DOMAIN m = D
  BY <1>0, SMT
<1>4. PICK top \in Nat : D = 1..top
  <2> DEFINE T == {n \in Nat : n > 0 /\ n \notin D}
  <2>1. Len(l) + 1 \in T
    BY <1>3, SMT
  <2>2. PICK n \in T : \A y \in T : n <= y
    BY <2>1, LeastOf
  <2>3. n \in Nat /\ n > 0 /\ n \notin D
    BY <2>2
  <2>4. \A j \in D : j < n
    <3> SUFFICES ASSUME NEW j \in D PROVE j < n
      OBVIOUS
    <3>1. j \in DOMAIN l /\ k[j] <= Len(l) /\ j \in Nat /\ j # n
      BY <1>3, <2>3, SMT
    <3>2. CASE n \in DOMAIN l
      <4>1. k[n] \in Nat /\ k[j] \in Nat /\ ~(k[n] <= Len(l))
        BY <1>1, <2>3, <3>1, <3>2
      <4>2. n < j => Kmem!After(l, k[n]) <= k[j]
        BY <1>1, <3>1, <3>2
      <4>3. Kmem!After(l, k[n]) \in Nat /\ Kmem!After(l, k[n]) > k[n]
        BY <4>1, SMT DEF Kmem!After
      <4> QED BY <1>3, <2>3, <3>1, <4>1, <4>2, <4>3, SMT
    <3>3. CASE n \notin DOMAIN l
      BY <1>3, <2>3, <3>1, <3>3, SMT
    <3> QED BY <3>2, <3>3
  <2>5. \A j \in Nat : j > 0 /\ j < n => j \in D
    <3> SUFFICES ASSUME NEW j \in Nat, j > 0, j < n, j \notin D PROVE FALSE
      OBVIOUS
    <3>1. n <= j
      BY <2>2
    <3> QED BY <2>3, <3>1, SMT
  <2>6. D \subseteq Nat /\ \A j \in D : j > 0
    BY <1>3, SMT
  <2> HIDE DEF D
  <2>7. n - 1 \in Nat /\ \A j : j \in 1..(n - 1) <=> j \in Nat /\ j > 0 /\ j < n
    BY <2>3, SMT
  <2>8. D = 1..(n - 1)
    BY <2>4, <2>5, <2>6, <2>7
  <2> QED BY <2>7, <2>8
<1>5. ASSUME NEW n \in D
      PROVE  /\ m[n] \in Kmem!Block
             /\ \A i : Has(n, i) => i \in DOMAIN l
             /\ \A pg : pg \in Kmem!PagesOf(m[n]) <=>
                          \E i \in DOMAIN l : Has(n, i) /\ pg \in Kmem!PagesOf(l[i])
  <2>1. k[n] \in DOMAIN l /\ l[k[n]] \in Kmem!Block
    <3>1. n \in Nat /\ n >= 1 /\ n <= k[n] /\ k[n] \in Nat /\ k[n] <= Len(l)
      BY <1>1, <1>3, SMT
    <3>2. k[n] \in DOMAIN l
      BY <1>3, <3>1, SMT
    <3> QED BY <3>2, SMT
  <2>2. CASE ~Kmem!Touches(l, k[n])
    BY <1>0, <2>1, <2>2
  <2>3. CASE Kmem!Touches(l, k[n])
    <3>1. k[n] + 1 \in DOMAIN l /\ l[k[n]].start + l[k[n]].len = l[k[n] + 1].start
      BY <1>3, <2>1, <2>3, SMT DEF Kmem!Touches
    <3>2. l[k[n] + 1] \in Kmem!Block
      BY <3>1, SMT
    <3> DEFINE b == l[k[n]]  c == l[k[n] + 1]
    <3>3. m[n] = [b EXCEPT !.len = @ + c.len]
      BY <1>0, <2>3
    <3>4. b \in Kmem!Block /\ c \in Kmem!Block /\ c.start = b.start + b.len
      BY <2>1, <3>1, <3>2
    <3> HIDE DEF b, c
    <3>5. m[n] \in Kmem!Block /\ m[n].start = b.start /\ m[n].len = b.len + c.len
      <4> DEFINE x == b.len + c.len
      <4>1. x \in Nat \ {0}
        BY <3>4, PagesCount, SMT
      <4>2. b \in [start : Nat, len : Nat \ {0}]
        BY <3>4 DEF Kmem!Block
      <4>3. m[n] = [b EXCEPT !.len = x]
        BY <3>3
      <4> HIDE DEF x
      <4>4. /\ [b EXCEPT !.len = x] \in [start : Nat, len : Nat \ {0}]
            /\ [b EXCEPT !.len = x].start = b.start /\ [b EXCEPT !.len = x].len = x
        BY <4>1, <4>2, SMT
      <4> QED BY <4>3, <4>4 DEF x, Kmem!Block
    <3>6. \A pg : pg \in Kmem!PagesOf(m[n]) <=> pg \in Kmem!PagesOf(b) \/ pg \in Kmem!PagesOf(c)
      <4> TAKE pg
      <4>1. b.start \in Nat /\ b.len \in Nat /\ c.len \in Nat
        BY <3>4, PagesCount
      <4>2. /\ pg \in Kmem!PagesOf(m[n]) <=>
                 pg \in Nat /\ m[n].start <= pg /\ pg < m[n].start + m[n].len
            /\ pg \in Kmem!PagesOf(b) <=> pg \in Nat /\ b.start <= pg /\ pg < b.start + b.len
            /\ pg \in Kmem!PagesOf(c) <=> pg \in Nat /\ c.start <= pg /\ pg < c.start + c.len
        BY <3>4, <3>5, PagesAre
      <4> QED BY <3>4, <3>5, <4>1, <4>2, SMT
    <3>7. \A i : Has(n, i) => i \in DOMAIN l
      BY <2>1, <3>1
    <3> QED BY <2>1, <2>3, <3>1, <3>5, <3>6, <3>7 DEF b, c
  <2> QED BY <2>2, <2>3
<1>6. \A a, b \in D : \A i : Has(a, i) /\ Has(b, i) => a = b
  <2>1. ASSUME NEW a \in D, NEW b \in D, a < b, NEW i, Has(a, i), Has(b, i)
        PROVE  FALSE
    <3>1. Kmem!After(l, k[a]) <= k[b] /\ k[a] \in Nat /\ k[b] \in Nat
      BY <1>1, <2>1
    <3> QED BY <2>1, <3>1, SMT DEF Kmem!After
  <2>2. \A a, b \in D : a < b \/ b < a \/ a = b
    BY <1>3, SMT
  <2> QED BY <2>1, <2>2
<1>7. m \in Seq(Kmem!Block)
  <2>1. m = [n \in 1..top |-> m[n]]
    BY <1>0, <1>4
  <2>2. \A n \in 1..top : m[n] \in Kmem!Block
    BY <1>4, <1>5
  <2> QED BY <2>1, <2>2, SMT
<1> HIDE DEF Has, D
<1>8. \A pg : pg \in PagesIn(m) <=> pg \in PagesIn(l)
  BY <1>2, <1>3, <1>5, InPages
<1>9. Apart(m)
  <2> SUFFICES ASSUME NEW a \in DOMAIN m, NEW b \in DOMAIN m, NEW pg \in Nat,
                      pg \in Kmem!PagesOf(m[a]), pg \in Kmem!PagesOf(m[b])
               PROVE  a = b
    BY DEF Apart
  <2>1. PICK i \in DOMAIN l : Has(a, i) /\ pg \in Kmem!PagesOf(l[i])
    BY <1>3, <1>5
  <2>2. PICK j \in DOMAIN l : Has(b, j) /\ pg \in Kmem!PagesOf(l[j])
    BY <1>3, <1>5
  <2>3. i = j
    BY <2>1, <2>2 DEF Apart
  <2> QED BY <1>3, <1>6, <2>1, <2>2, <2>3
<1> QED BY <1>7, <1>8, <1>9
------------------------------------------------------------------------------
(* The operations *)

\* nfree counts the pages still when those of a block come to the list.
LEMMA GainPages ==
  ASSUME NEW S, IsFiniteSet(S), NEW b \in Kmem!Block, S \intersect Kmem!PagesOf(b) = {}
  PROVE  /\ IsFiniteSet(S \union Kmem!PagesOf(b))
         /\ Cardinality(S \union Kmem!PagesOf(b)) = Cardinality(S) + b.len
<1>1. IsFiniteSet(Kmem!PagesOf(b)) /\ Cardinality(Kmem!PagesOf(b)) = b.len
  BY PagesCount
<1>2. /\ IsFiniteSet(S \union Kmem!PagesOf(b))
      /\ Cardinality(S \union Kmem!PagesOf(b)) =
           Cardinality(S) + Cardinality(Kmem!PagesOf(b)) - Cardinality(S \intersect Kmem!PagesOf(b))
  BY <1>1, FS_Union
<1>3. Cardinality(S \intersect Kmem!PagesOf(b)) = 0 /\ Cardinality(S) \in Nat /\ b.len \in Nat
  BY FS_EmptySet, FS_CardinalityType, PagesCount
<1> QED BY <1>1, <1>2, <1>3, SMT

\* nfree counts the pages still when some of them leave the list.
LEMMA LosePages ==
  ASSUME NEW S, IsFiniteSet(S), NEW b \in Kmem!Block, Kmem!PagesOf(b) \subseteq S
  PROVE  /\ IsFiniteSet(S \ Kmem!PagesOf(b))
         /\ Cardinality(S \ Kmem!PagesOf(b)) = Cardinality(S) - b.len
<1>1. S \intersect Kmem!PagesOf(b) = Kmem!PagesOf(b)
  OBVIOUS
<1>2. /\ IsFiniteSet(S \ Kmem!PagesOf(b))
      /\ Cardinality(S \ Kmem!PagesOf(b)) = Cardinality(S) - Cardinality(S \intersect Kmem!PagesOf(b))
  BY FS_Difference
<1> QED BY <1>1, <1>2, PagesCount

\* A block that is cut in two.
LEMMA CutPages ==
  ASSUME NEW a \in Kmem!Block, NEW b \in Kmem!Block, NEW c \in Kmem!Block, NEW n \in Nat,
         n > 0, b.len >= n, a.start = b.start + b.len - n, a.len = n,
         c.start = b.start, c.len = b.len - n
  PROVE  \A pg : /\ pg \in Kmem!PagesOf(c) => pg \in Kmem!PagesOf(b)
                 /\ pg \in Kmem!PagesOf(a) <=> pg \in Kmem!PagesOf(b) /\ pg \notin Kmem!PagesOf(c)
<1> TAKE pg
<1>1. /\ pg \in Kmem!PagesOf(a) <=> pg \in Nat /\ a.start <= pg /\ pg < a.start + a.len
      /\ pg \in Kmem!PagesOf(b) <=> pg \in Nat /\ b.start <= pg /\ pg < b.start + b.len
      /\ pg \in Kmem!PagesOf(c) <=> pg \in Nat /\ c.start <= pg /\ pg < c.start + c.len
  BY PagesAre
<1>2. b.start \in Nat /\ b.len \in Nat
  BY PagesCount
<1> QED BY <1>1, <1>2, SMT

\* Boot: nothing has been handed over.
LEMMA KmemStarts ==
  ASSUME Kmem!Init
  PROVE  KmemInv
<1>1. freelist = <<>> /\ nfree = 0 /\ booted = 0 /\ allocated = {}
  BY DEF Kmem!Init
<1>2. freelist \in Seq(Kmem!Block) /\ DOMAIN freelist = {} /\ booted \in 0..Len(Ranges)
      /\ 1..booted = {}
  BY <1>1, RangesAssumption, SMT
<1>3. PagesIn(freelist) = {} /\ Apart(freelist)
  BY <1>2 DEF PagesIn, Apart
<1>4. UsedPages = {} /\ Kmem!Given = {}
  BY <1>1, <1>2 DEF UsedPages, Kmem!Given
<1> QED BY <1>1, <1>2, <1>3, <1>4, FS_EmptySet DEF KmemInv

\* free_range: the pages of the range are new.
LEMMA free_rangeStep ==
  ASSUME KmemInv, Kmem!free_range
  PROVE  KmemInv'
<1> DEFINE r == Ranges[booted + 1]
<1>1. /\ booted \in Nat /\ booted + 1 \in DOMAIN Ranges /\ r \in Kmem!Block
      /\ booted' \in 0..Len(Ranges) /\ 1..booted' = (1..booted) \union {booted + 1}
      /\ 1..booted \subseteq DOMAIN Ranges /\ booted + 1 \notin 1..booted
  BY RangesAssumption, SMT DEF KmemInv, Kmem!free_range
<1>2. /\ freelist' = IF freelist = <<>> THEN <<r>> ELSE Kmem!Link(freelist, 2, r)
      /\ nfree' = nfree + r.len /\ allocated' = allocated
  BY DEF Kmem!free_range
<1> HIDE DEF r
<1>3. Kmem!Given' = Kmem!Given \union Kmem!PagesOf(r)
  BY <1>1 DEF Kmem!Given, r
<1>4. Kmem!Given \intersect Kmem!PagesOf(r) = {}
  <2> SUFFICES ASSUME NEW pg, pg \in Kmem!Given, pg \in Kmem!PagesOf(r) PROVE FALSE
    OBVIOUS
  <2>1. PICK i \in 1..booted : pg \in Kmem!PagesOf(Ranges[i])
    BY DEF Kmem!Given
  <2>2. i \in DOMAIN Ranges /\ i # booted + 1
    BY <1>1, <2>1
  <2>3. Kmem!PagesOf(Ranges[i]) \intersect Kmem!PagesOf(Ranges[booted + 1]) = {}
    BY <1>1, <2>2, RangesAssumption
  <2> QED BY <2>1, <2>3 DEF r
<1>5. PagesIn(freelist) \intersect Kmem!PagesOf(r) = {} /\ UsedPages \intersect Kmem!PagesOf(r) = {}
  BY <1>4 DEF KmemInv
<1>6. /\ freelist' \in Seq(Kmem!Block) /\ Apart(freelist')
      /\ PagesIn(freelist') = PagesIn(freelist) \union Kmem!PagesOf(r)
  <2>1. CASE freelist = <<>>
    <3>1. freelist' = <<r>>
      BY <1>2, <2>1
    <3>2. freelist' \in Seq(Kmem!Block) /\ DOMAIN freelist' = {1} /\ freelist'[1] = r /\ DOMAIN freelist = {}
      BY <1>1, <2>1, <3>1, SMT
    <3> QED BY <3>2 DEF PagesIn, Apart
  <2>2. CASE freelist # <<>>
    <3>1. 2 \in 1..(Len(freelist) + 1)
      BY <2>2, SMT DEF KmemInv
    <3> QED BY <1>1, <1>2, <1>5, <2>2, <3>1, Inserted DEF KmemInv
  <2> QED BY <2>1, <2>2
<1>7. UsedPages' = UsedPages
  BY <1>2 DEF UsedPages
<1>8. IsFiniteSet(PagesIn(freelist')) /\ nfree' = Cardinality(PagesIn(freelist'))
  <2>1. /\ IsFiniteSet(PagesIn(freelist)) /\ nfree = Cardinality(PagesIn(freelist))
    BY DEF KmemInv
  <2>2. /\ IsFiniteSet(PagesIn(freelist) \union Kmem!PagesOf(r))
        /\ Cardinality(PagesIn(freelist) \union Kmem!PagesOf(r)) = Cardinality(PagesIn(freelist)) + r.len
    BY <1>1, <1>5, <2>1, GainPages
  <2> QED BY <1>2, <1>6, <2>1, <2>2
<1> QED BY <1>1, <1>2, <1>3, <1>5, <1>6, <1>7, <1>8 DEF KmemInv

\* alloc: the last pages of the block are used now.
LEMMA allocStep ==
  ASSUME KmemInv, NEW n \in Sizes, Kmem!alloc(n)
  PROVE  KmemInv'
<1> DEFINE fits == {i \in DOMAIN freelist : freelist[i].len >= n}
           i == CHOOSE x \in fits : \A j \in fits : x <= j
           b == freelist[i]
           a == [start |-> b.start + b.len - n, len |-> n]
<1>1. /\ fits # {} /\ freelist' = Kmem!Taken(i, n) /\ allocated' = allocated \union {a}
      /\ nfree' = nfree - n /\ booted' = booted
  BY DEF Kmem!alloc
<1>2. n \in Nat /\ n > 0 /\ fits \in SUBSET Nat
  BY RangesAssumption, SMT DEF KmemInv
<1>3. i \in fits
  BY <1>1, <1>2, LeastOf
<1>4. i \in DOMAIN freelist /\ b \in Kmem!Block /\ b.len >= n
  BY <1>3, SMT DEF KmemInv
<1> HIDE DEF fits, i
<1>5. a \in Kmem!Block /\ b.start \in Nat /\ b.len \in Nat
  BY <1>2, <1>4, SMT DEF Kmem!Block
<1>6. /\ freelist' \in Seq(Kmem!Block) /\ Apart(freelist')
      /\ PagesIn(freelist') = PagesIn(freelist) \ Kmem!PagesOf(a)
  <2>1. CASE b.len = n
    <3>1. \A pg : pg \in Kmem!PagesOf(a) <=> pg \in Kmem!PagesOf(b)
      BY <1>2, <1>4, <1>5, <2>1, PagesAre, SMT
    <3>2. freelist' = Kmem!Unlink(freelist, i)
      BY <1>1, <2>1 DEF Kmem!Taken
    <3> QED BY <1>4, <3>1, <3>2, Removed DEF KmemInv
  <2>2. CASE b.len # n
    <3> DEFINE c == [b EXCEPT !.len = @ - n]
    <3>1. c \in Kmem!Block /\ c.start = b.start /\ c.len = b.len - n
      BY <1>2, <1>4, <2>2, SMT DEF Kmem!Block
    <3>2. freelist' = [freelist EXCEPT ![i] = c]
      BY <1>1, <2>2 DEF Kmem!Taken
    <3> HIDE DEF c
    <3>3. \A pg : /\ pg \in Kmem!PagesOf(c) => pg \in Kmem!PagesOf(b)
                  /\ pg \in Kmem!PagesOf(a) <=> pg \in Kmem!PagesOf(b) /\ pg \notin Kmem!PagesOf(c)
      <4>1. a.start = b.start + b.len - n /\ a.len = n
        OBVIOUS
      <4> HIDE DEF a, b
      <4> QED BY <1>2, <1>4, <1>5, <3>1, <4>1, CutPages
    <3>4. Kmem!PagesOf(c) \subseteq Kmem!PagesOf(freelist[i])
      BY <3>3
    <3>5. freelist \in Seq(Kmem!Block) /\ Apart(freelist)
      BY DEF KmemInv
    <3>6. /\ freelist' \in Seq(Kmem!Block) /\ Apart(freelist')
          /\ PagesIn(freelist') =
               PagesIn(freelist) \ (Kmem!PagesOf(freelist[i]) \ Kmem!PagesOf(c))
      BY <1>4, <3>1, <3>2, <3>4, <3>5, Replaced
    <3>7. Kmem!PagesOf(freelist[i]) \ Kmem!PagesOf(c) = Kmem!PagesOf(a)
      <4> HIDE DEF a
      <4> QED BY <3>3
    <3> QED BY <3>6, <3>7
  <2> QED BY <2>1, <2>2
<1>7. Kmem!PagesOf(a) \subseteq PagesIn(freelist)
  <2>1. \A pg : pg \in Kmem!PagesOf(a) => pg \in Kmem!PagesOf(b)
    BY <1>2, <1>4, <1>5, PagesAre, SMT
  <2> QED BY <1>4, <2>1, InPages
<1> HIDE DEF a, b
<1>8. UsedPages' = UsedPages \union Kmem!PagesOf(a)
  BY <1>1 DEF UsedPages
<1>9. \A c, d \in allocated', pg \in Nat : pg \in Kmem!PagesOf(c) /\ pg \in Kmem!PagesOf(d) => c = d
  <2>1. \A c \in allocated : \A pg : pg \in Kmem!PagesOf(c) => pg \notin Kmem!PagesOf(a)
    BY <1>7 DEF KmemInv, UsedPages
  <2> QED BY <1>1, <2>1 DEF KmemInv
<1>10. IsFiniteSet(PagesIn(freelist')) /\ nfree' = Cardinality(PagesIn(freelist'))
  <2>1. a.len = n
    BY DEF a
  <2>2. /\ IsFiniteSet(PagesIn(freelist)) /\ nfree = Cardinality(PagesIn(freelist))
    BY DEF KmemInv
  <2>3. /\ IsFiniteSet(PagesIn(freelist) \ Kmem!PagesOf(a))
        /\ Cardinality(PagesIn(freelist) \ Kmem!PagesOf(a)) = Cardinality(PagesIn(freelist)) - a.len
    BY <1>5, <1>7, <2>2, LosePages
  <2> QED BY <1>1, <1>6, <2>1, <2>2, <2>3
<1>11. Kmem!Given' = Kmem!Given
  BY <1>1 DEF Kmem!Given
<1>12. allocated' \in SUBSET Kmem!Block
  BY <1>1, <1>5 DEF KmemInv
<1> QED BY <1>1, <1>6, <1>7, <1>8, <1>9, <1>10, <1>11, <1>12 DEF KmemInv

\* free: wherever the block is linked, and whatever is joined, its pages are free.
LEMMA freeStep ==
  ASSUME KmemInv, NEW r \in allocated, Kmem!free(r)
  PROVE  KmemInv'
<1> DEFINE l == Kmem!Linked(r)
<1>1. freelist' = Kmem!Patched(l)
  BY DEF Kmem!free
<1>2. nfree' = nfree + r.len /\ allocated' = allocated \ {r} /\ booted' = booted
  BY DEF Kmem!free
<1>3. r \in Kmem!Block /\ Kmem!PagesOf(r) \subseteq UsedPages
  BY DEF KmemInv, UsedPages
<1>4. PagesIn(freelist) \intersect Kmem!PagesOf(r) = {}
  BY <1>3 DEF KmemInv
<1>5. /\ l \in Seq(Kmem!Block) /\ Apart(l)
      /\ PagesIn(l) = PagesIn(freelist) \union Kmem!PagesOf(r)
  <2>1. CASE freelist = <<>>
    <3>1. l = <<r>>
      BY <2>1 DEF Kmem!Linked
    <3> HIDE DEF l
    <3>2. l \in Seq(Kmem!Block) /\ DOMAIN l = {1} /\ l[1] = r /\ DOMAIN freelist = {}
      BY <1>3, <2>1, <3>1, SMT
    <3> QED BY <3>2 DEF PagesIn, Apart
  <2>2. CASE freelist # <<>>
    <3> DEFINE below == {i \in DOMAIN freelist :
                           i = Len(freelist) \/ freelist[i + 1].start > r.start}
               pos == CHOOSE i \in below : \A j \in below : i <= j
    <3>1. l = Kmem!Link(freelist, 1 + pos, r)
      BY <2>2 DEF Kmem!Linked
    <3>2. Len(freelist) \in below /\ below \in SUBSET Nat
      BY <2>2, SMT DEF KmemInv
    <3>3. pos \in below
      BY <3>2, LeastOf
    <3>4. pos \in DOMAIN freelist
      BY <3>3
    <3> HIDE DEF below, pos, l
    <3>5. 1 + pos \in 1..(Len(freelist) + 1)
      BY <3>4, SMT DEF KmemInv
    <3> QED BY <1>3, <1>4, <3>1, <3>5, Inserted DEF KmemInv
  <2> QED BY <2>1, <2>2
<1> HIDE DEF l
<1>6. /\ freelist' \in Seq(Kmem!Block) /\ Apart(freelist')
      /\ PagesIn(freelist') = PagesIn(freelist) \union Kmem!PagesOf(r)
  BY <1>1, <1>5, PatchedSame
<1>7. UsedPages' = UsedPages \ Kmem!PagesOf(r)
  <2>1. \A b \in allocated, pg \in Nat :
          pg \in Kmem!PagesOf(b) /\ pg \in Kmem!PagesOf(r) => b = r
    BY DEF KmemInv
  <2>2. \A b \in allocated : \A pg : pg \in Kmem!PagesOf(b) => pg \in Nat
    BY PagesCount DEF KmemInv
  <2>3. \A pg : pg \in UsedPages <=> \E b \in allocated : pg \in Kmem!PagesOf(b)
    BY DEF UsedPages
  <2>4. \A pg : pg \in UsedPages' <=> \E b \in allocated : b # r /\ pg \in Kmem!PagesOf(b)
    BY <1>2 DEF UsedPages
  <2>5. \A pg : pg \in UsedPages' <=> pg \in UsedPages /\ pg \notin Kmem!PagesOf(r)
    BY <2>1, <2>2, <2>3, <2>4
  <2> QED BY <2>5
<1>8. IsFiniteSet(PagesIn(freelist')) /\ nfree' = Cardinality(PagesIn(freelist'))
  <2>1. /\ IsFiniteSet(PagesIn(freelist)) /\ nfree = Cardinality(PagesIn(freelist))
    BY DEF KmemInv
  <2>2. /\ IsFiniteSet(PagesIn(freelist) \union Kmem!PagesOf(r))
        /\ Cardinality(PagesIn(freelist) \union Kmem!PagesOf(r)) = Cardinality(PagesIn(freelist)) + r.len
    BY <1>3, <1>4, <2>1, GainPages
  <2> QED BY <1>2, <1>6, <2>1, <2>2
<1>9. Kmem!Given' = Kmem!Given
  BY <1>2 DEF Kmem!Given
<1>10. PagesIn(freelist') \intersect UsedPages' = {} /\ PagesIn(freelist') \union UsedPages' = Kmem!Given'
  BY <1>3, <1>6, <1>7, <1>9 DEF KmemInv
<1> QED BY <1>2, <1>6, <1>8, <1>10 DEF KmemInv

\* The invariant is what EveryPageOnce says in numbers.
LEMMA KmemIsOnce ==
  ASSUME KmemInv
  PROVE  EveryPageOnce
<1>0. /\ freelist \in Seq(Kmem!Block) /\ allocated \in SUBSET Kmem!Block
      /\ Apart(freelist) /\ PagesIn(freelist) \intersect UsedPages = {}
      /\ PagesIn(freelist) \union UsedPages = Kmem!Given
      /\ \A b, c \in allocated, pg \in Nat : pg \in Kmem!PagesOf(b) /\ pg \in Kmem!PagesOf(c) => b = c
      /\ \A i \in DOMAIN freelist : freelist[i] \in Kmem!Block
  <2>1. freelist \in Seq(Kmem!Block)
    BY DEF KmemInv
  <2>2. \A i \in DOMAIN freelist : freelist[i] \in Kmem!Block
    BY <2>1, SMT
  <2> QED BY <2>2 DEF KmemInv
<1>1. ASSUME NEW pg \in Kmem!Given
      PROVE  Cardinality(Kmem!FreeIn(pg)) + Cardinality(Kmem!UsedIn(pg)) = 1
  <2>0. pg \in Nat
    <3>1. CASE pg \in PagesIn(freelist)
      BY <1>0, <3>1, InPages, PagesCount
    <3>2. CASE pg \in UsedPages
      <4>1. PICK b \in allocated : pg \in Kmem!PagesOf(b)
        BY <3>2 DEF UsedPages
      <4> QED BY <1>0, <4>1, PagesCount
    <3> QED BY <1>0, <3>1, <3>2
  <2>1. CASE pg \in PagesIn(freelist)
    <3>1. PICK i \in DOMAIN freelist : pg \in Kmem!PagesOf(freelist[i])
      BY <2>1, InPages
    <3>2. Kmem!FreeIn(pg) = {i}
      BY <1>0, <2>0, <3>1 DEF Apart, Kmem!FreeIn
    <3>3. Kmem!UsedIn(pg) = {}
      <4>1. pg \notin UsedPages
        BY <1>0, <2>1
      <4> QED BY <4>1 DEF UsedPages, Kmem!UsedIn
    <3>4. Cardinality(Kmem!FreeIn(pg)) = 1 /\ Cardinality(Kmem!UsedIn(pg)) = 0
      BY <3>2, <3>3, FS_Singleton, FS_EmptySet
    <3> QED BY <3>4, SMT
  <2>2. CASE pg \notin PagesIn(freelist)
    <3>1. PICK b \in allocated : pg \in Kmem!PagesOf(b)
      <4>1. pg \in UsedPages
        BY <1>0, <2>2
      <4> QED BY <4>1 DEF UsedPages
    <3>2. Kmem!UsedIn(pg) = {b}
      BY <1>0, <2>0, <3>1 DEF Kmem!UsedIn
    <3>3. Kmem!FreeIn(pg) = {}
      BY <2>2, InPages DEF Kmem!FreeIn
    <3>4. Cardinality(Kmem!FreeIn(pg)) = 0 /\ Cardinality(Kmem!UsedIn(pg)) = 1
      BY <3>2, <3>3, FS_Singleton, FS_EmptySet
    <3> QED BY <3>4, SMT
  <2> QED BY <2>1, <2>2
<1>2. ASSUME NEW b \in {freelist[i] : i \in DOMAIN freelist} \union allocated
      PROVE  b \in Kmem!Block /\ Kmem!PagesOf(b) \subseteq Kmem!Given
  <2>1. CASE b \in allocated
    BY <1>0, <2>1 DEF UsedPages
  <2>2. CASE b \in {freelist[i] : i \in DOMAIN freelist}
    <3>1. PICK i \in DOMAIN freelist : b = freelist[i]
      BY <2>2
    <3>2. b \in Kmem!Block
      BY <1>0, <3>1
    <3> QED BY <1>0, <3>1, <3>2 DEF PagesIn
  <2> QED BY <2>1, <2>2
<1>3. {pg \in Kmem!Given : Kmem!FreeIn(pg) # {}} = PagesIn(freelist)
  <2>1. \A pg : Kmem!FreeIn(pg) # {} <=> pg \in PagesIn(freelist)
    <3> TAKE pg
    <3>1. pg \in PagesIn(freelist) <=> \E i \in DOMAIN freelist : pg \in Kmem!PagesOf(freelist[i])
      BY InPages
    <3> QED BY <3>1 DEF Kmem!FreeIn
  <2>2. PagesIn(freelist) \subseteq Kmem!Given
    BY <1>0
  <2> QED BY <2>1, <2>2
<1>4. nfree = Cardinality(PagesIn(freelist))
  BY DEF KmemInv
<1>5. nfree = Cardinality({pg \in Kmem!Given : Kmem!FreeIn(pg) # {}})
  BY <1>3, <1>4
<1>6. \A S : Kmem!Cardinality(S) = Cardinality(S)
  BY DEF Kmem!Cardinality, Cardinality, Kmem!IsFiniteSet, IsFiniteSet
<1>7. Kmem!EveryPageOnce
  BY <1>1, <1>2, <1>5, <1>6 DEF Kmem!EveryPageOnce
<1> QED BY <1>7 DEF EveryPageOnce

\* phys::alloc, phys::free, phys::free_range: for any ranges that boot hands over and
\* any sizes asked for, every page handed over is in one block, free or allocated,
\* and nfree counts the free ones.
THEOREM FramesAreExact == Kmem!Spec => []EveryPageOnce
<1>1. KmemInv /\ [Kmem!Next]_Kmem!vars => KmemInv'
  <2> SUFFICES ASSUME KmemInv, [Kmem!Next]_Kmem!vars PROVE KmemInv'
    OBVIOUS
  <2>1. CASE UNCHANGED Kmem!vars
    <3>1. freelist' = freelist /\ nfree' = nfree /\ booted' = booted /\ allocated' = allocated
      BY <2>1 DEF Kmem!vars
    <3>2. UsedPages' = UsedPages /\ Kmem!Given' = Kmem!Given
      BY <3>1 DEF UsedPages, Kmem!Given
    <3> QED BY <3>1, <3>2 DEF KmemInv
  <2> QED BY <2>1, free_rangeStep, allocStep, freeStep DEF Kmem!Next
<1> QED BY <1>1, KmemStarts, KmemIsOnce, PTL DEF Kmem!Spec
=============================================================================
