-------------------------------- MODULE Cow --------------------------------
(***************************************************************************)
(* Copy on write (kernel/mm/space.cpp, kernel/mm/area.cpp and the page and *)
(* page_mapping of include/chariot/mm.h): page faults, fork, mmap, unmap   *)
(* and the end of an address space, with processes sharing pages.          *)
(*                                                                         *)
(* Every area is one page long, at its own address; the object behind an   *)
(* area is the same for all processes (a file, an mshare region). A        *)
(* process has one thread, so that space::lock and area::lock, which only  *)
(* that thread takes, are not modelled; the lock of a page is.             *)
(***************************************************************************)
EXTENDS Integers, FiniteSets

CONSTANTS
  Procs,
  NAddrs,      \* the addresses, in the order fork() goes over the areas
  Values,      \* what a process stores
  Zero,        \* what a new page holds
  Pages,       \* struct page, with the frame it owns
  Kinds,       \* the areas made: "anon" (MAP_PRIVATE), "shared" (MAP_SHARED,
               \* with an object), "file" (MAP_PRIVATE of a file)
  MaxLeaks,    \* bound: the mappings of a page that unmap() leaves behind
  None

Addrs == 1..NAddrs
ASSUME ProcsAssumption == IsFiniteSet(Procs)
ASSUME NAddrsAssumption == NAddrs \in Nat \ {0}
ASSUME KindsAssumption == Kinds \subseteq {"anon", "shared", "file"}
ASSUME NoneAssumption ==
  None \notin Pages \union Procs \union Kinds \union [pg : Pages, w : BOOLEAN]

VARIABLES
  area,        \* area[p][v]: the kind of the area there, or None
  mapping,     \* mapping[p][v]: the area's page_mapping
  pte,         \* pte[p][v]: what the page table says, [pg, w] or None
  pages,       \* pages[v]: the object's page, or None
  data,        \* data[pg]: what the frame holds
  m_users,     \* page::m_users
  m_lock,      \* page::m_lock
  leaked,      \* leaked[g]: mappings of g in areas that unmap() took out
  live,        \* the processes
  pc,          \* pc[p]: where p is in the kernel
  at,          \* at[p]: the address a fault or a loop is about
  child        \* child[p]: the space fork() is making

memory == <<data, m_users>>
vars == <<area, mapping, pte, pages, memory, m_lock, leaked, live, pc, at, child>>

Empty == [v \in Addrs |-> None]

Init ==
  /\ area = [p \in Procs |-> Empty] /\ mapping = area /\ pte = area
  /\ pages = Empty
  /\ data = [g \in Pages |-> Zero] /\ m_users = [g \in Pages |-> 0]
  /\ m_lock = [g \in Pages |-> None]
  /\ leaked = m_users
  /\ \E p \in Procs : live = {p}
  /\ pc = [p \in Procs |-> "user"]
  /\ at = [p \in Procs |-> 1]
  /\ child = [p \in Procs |-> None]

Run(p, from, to) == pc[p] = from /\ pc' = [pc EXCEPT ![p] = to]

\* A page nobody refers to any more has been destroyed and its frame freed.
Free(g) ==
  /\ leaked[g] = 0
  /\ \A v \in Addrs : pages[v] # g /\ \A p \in Procs : mapping[p][v] # g

\* page::~page, with the last mapping: what the frame held is lost.
After(g) == IF m_users[g] = 1 /\ \A v \in Addrs : pages[v] # g THEN Zero ELSE data[g]

\* pagetable::add_mapping
add_mapping(p, v, g, w) == pte' = [pte EXCEPT ![p][v] = [pg |-> g, w |-> w]]

------------------------------------------------------------------------------
\* In user mode: a store through the page table; mmap; unmap, which takes the
\* area out of the tree and does not delete it.

Store(p, v, x) ==
  /\ p \in live /\ pc[p] = "user"
  /\ pte[p][v] # None /\ pte[p][v].w
  /\ data' = [data EXCEPT ![pte[p][v].pg] = x]
  /\ UNCHANGED <<area, mapping, pte, pages, m_users, m_lock, leaked, live, pc, at, child>>

mmap(p, v, kind) ==
  /\ p \in live /\ pc[p] = "user" /\ area[p][v] = None
  /\ area' = [area EXCEPT ![p][v] = kind]
  /\ UNCHANGED <<mapping, pte, pages, memory, m_lock, leaked, live, pc, at, child>>

unmap(p, v) ==
  /\ p \in live /\ pc[p] = "user" /\ area[p][v] # None
  /\ area' = [area EXCEPT ![p][v] = None]
  /\ mapping' = [mapping EXCEPT ![p][v] = None]
  /\ pte' = [pte EXCEPT ![p][v] = None]
  /\ leaked' = [g \in Pages |-> IF g = mapping[p][v] THEN leaked[g] + 1 ELSE leaked[g]]
  /\ \A g \in Pages : leaked'[g] <= MaxLeaks
  /\ UNCHANGED <<pages, memory, m_lock, live, pc, at, child>>

------------------------------------------------------------------------------
\* space::pagefault and get_page_internal

\* The processor faults on what the page table does not allow.
fault(p, v, write) ==
  /\ p \in live /\ Run(p, "user", IF write THEN "write" ELSE "read")
  /\ area[p][v] # None
  /\ pte[p][v] # None => write /\ ~pte[p][v].w
  /\ at' = [at EXCEPT ![p] = v]
  /\ UNCHANGED <<area, mapping, pte, pages, memory, m_lock, leaked, live, child>>

\* The page a null mapping gets: the object's, which get_shared() makes on the
\* first call, or a zeroed one of its own.
Populate(p) ==
  LET v == at[p] IN
  /\ pc[p] \in {"read", "write"} /\ mapping[p][v] = None
  /\ \E g \in Pages :
       /\ IF area[p][v] = "anon"
          THEN Free(g) /\ UNCHANGED pages
          ELSE IF pages[v] # None
          THEN g = pages[v] /\ UNCHANGED pages
          ELSE Free(g) /\ pages' = [pages EXCEPT ![v] = g]
       /\ m_users' = [m_users EXCEPT ![g] = @ + 1]
       /\ mapping' = [mapping EXCEPT ![p][v] = g]
       /\ IF pc[p] = "read"
          THEN Run(p, "read", "user") /\ add_mapping(p, v, g, area[p][v] = "anon")
          ELSE UNCHANGED <<pc, pte>>
  /\ UNCHANGED <<area, data, m_lock, leaked, live, at, child>>

\* Mutant of MustCopy: the private page of a file is not copied.
MustCopyUsers(p, v) == m_users[mapping[p][v]] > 1

\* old_page->users() > 1 || r.fd
MustCopy(p, v) == m_users[mapping[p][v]] > 1 \/ area[p][v] = "file"

\* A write to a page that is there, in an area that may be written to.
Look(p) ==
  LET v == at[p] g == mapping[p][v] IN
  /\ pc[p] = "write" /\ g # None
  /\ \/ /\ area[p][v] = "shared"
        /\ Run(p, "write", "user") /\ add_mapping(p, v, g, TRUE)
        /\ UNCHANGED m_lock
     \/ /\ area[p][v] # "shared" /\ m_lock[g] = None
        /\ IF MustCopy(p, v)
           THEN /\ Run(p, "write", "copy") /\ m_lock' = [m_lock EXCEPT ![g] = p]
                /\ UNCHANGED pte
           ELSE /\ Run(p, "write", "user") /\ add_mapping(p, v, g, TRUE)
                /\ UNCHANGED m_lock
  /\ UNCHANGED <<area, mapping, pages, memory, leaked, live, at, child>>

\* The copy takes the page's place in the mapping, with the page locked.
Copy(p) ==
  LET v == at[p] g == mapping[p][v] IN
  /\ Run(p, "copy", "user")
  /\ \E np \in Pages :
       /\ Free(np)
       /\ data' = [data EXCEPT ![np] = data[g], ![g] = After(g)]
       /\ m_users' = [m_users EXCEPT ![np] = @ + 1, ![g] = @ - 1]
       /\ mapping' = [mapping EXCEPT ![p][v] = np]
       /\ add_mapping(p, v, np, TRUE)
  /\ m_lock' = [m_lock EXCEPT ![g] = None]
  /\ UNCHANGED <<area, pages, leaked, live, at, child>>

------------------------------------------------------------------------------
\* space::fork, which takes no page's lock

fork(p, q) ==
  /\ p \in live /\ Run(p, "user", "share")
  /\ q \notin live /\ pc[q] = "user" /\ \A r \in Procs : child[r] # q
  /\ child' = [child EXCEPT ![p] = q]
  /\ at' = [at EXCEPT ![p] = 1]
  /\ UNCHANGED <<area, mapping, pte, pages, memory, m_lock, leaked, live>>

\* The area is copied, and its page gets one more user.
Share(p) ==
  LET v == at[p] g == mapping[p][v] IN
  /\ v \in Addrs /\ Run(p, "share", "protect")
  /\ area' = [area EXCEPT ![child[p]][v] = area[p][v]]
  /\ mapping' = [mapping EXCEPT ![child[p]][v] = g]
  /\ m_users' = IF g = None THEN m_users ELSE [m_users EXCEPT ![g] = @ + 1]
  /\ UNCHANGED <<pte, pages, data, m_lock, leaked, live, at, child>>

\* Mutant of Protect: the parent keeps its page table entry.
ProtectChild(p) ==
  LET v == at[p] g == mapping[p][v] IN
  /\ Run(p, "protect", "share")
  /\ pte' = IF g = None THEN pte
            ELSE [pte EXCEPT ![child[p]][v] = [pg |-> g, w |-> FALSE]]
  /\ at' = [at EXCEPT ![p] = v + 1]
  /\ UNCHANGED <<area, mapping, pages, memory, m_lock, leaked, live, child>>

\* Both page tables lose the right to write, for shared mappings too.
Protect(p) ==
  LET v == at[p] g == mapping[p][v] IN
  /\ Run(p, "protect", "share")
  /\ pte' = IF g = None THEN pte
            ELSE [pte EXCEPT ![p][v] = [pg |-> g, w |-> FALSE],
                             ![child[p]][v] = [pg |-> g, w |-> FALSE]]
  /\ at' = [at EXCEPT ![p] = v + 1]
  /\ UNCHANGED <<area, mapping, pages, memory, m_lock, leaked, live, child>>

ForkEnd(p) ==
  /\ at[p] \notin Addrs /\ Run(p, "share", "user")
  /\ live' = live \union {child[p]}
  /\ child' = [child EXCEPT ![p] = None]
  /\ at' = [at EXCEPT ![p] = 1]
  /\ UNCHANGED <<area, mapping, pte, pages, memory, m_lock, leaked>>

------------------------------------------------------------------------------
\* space::~space and area::~area, when the process is gone

exit(p) ==
  /\ p \in live /\ Run(p, "user", "drop")
  /\ live' = live \ {p}
  /\ at' = [at EXCEPT ![p] = 1]
  /\ UNCHANGED <<area, mapping, pte, pages, memory, m_lock, leaked, child>>

\* The page's lock is taken and released before the mapping lets go of it.
Drop(p) ==
  LET v == at[p] g == mapping[p][v] IN
  /\ pc[p] = "drop"
  /\ g # None => m_lock[g] = None
  /\ area' = [area EXCEPT ![p][v] = None]
  /\ mapping' = [mapping EXCEPT ![p][v] = None]
  /\ pte' = [pte EXCEPT ![p][v] = None]
  /\ IF g = None THEN UNCHANGED memory
     ELSE m_users' = [m_users EXCEPT ![g] = @ - 1] /\ data' = [data EXCEPT ![g] = After(g)]
  /\ IF v < NAddrs THEN at' = [at EXCEPT ![p] = v + 1] /\ UNCHANGED pc
                   ELSE at' = [at EXCEPT ![p] = 1] /\ Run(p, "drop", "user")
  /\ UNCHANGED <<pages, m_lock, leaked, live, child>>

------------------------------------------------------------------------------
Next ==
  \/ \E p \in Procs :
       \/ Populate(p) \/ Look(p) \/ Copy(p) \/ Share(p) \/ Protect(p) \/ ForkEnd(p)
       \/ exit(p) \/ Drop(p) \/ \E q \in Procs : fork(p, q)
  \/ \E p \in Procs, v \in Addrs :
       \/ unmap(p, v) \/ \E x \in Values : Store(p, v, x)
       \/ \E kind \in Kinds : mmap(p, v, kind)
       \/ \E write \in BOOLEAN : fault(p, v, write)

Spec == Init /\ [][Next]_vars
------------------------------------------------------------------------------
Users(g) == {pv \in Procs \X Addrs : mapping[pv[1]][pv[2]] = g}

\* page_mapping: m_users is exactly the mappings of the page, those of areas
\* that unmap() left behind included, whatever faults, forks and exits race.
UsersCounted == \A g \in Pages : m_users[g] = Cardinality(Users(g)) + leaked[g]

\* get_page_internal and fork: a page that a process may write to without a
\* fault is in no other mapping, and is not the object's, unless it is mapped
\* shared. A race of faults, forks and exits of the sharers changes nothing.
WritableIsOwn ==
  \A p \in live, v \in Addrs :
    (pte[p][v] # None /\ pte[p][v].w /\ area[p][v] # "shared")
      => \/ pc[p] = "protect" /\ at[p] = v
         \/ /\ Users(pte[p][v].pg) = {<<p, v>>}
            /\ \A u \in Addrs : pages[u] # pte[p][v].pg

\* What a process reads at v, through its page table where it has an entry.
Memory(p, v) ==
  IF p \notin live \/ area[p][v] = None THEN "unmapped"
  ELSE IF area[p][v] = "shared" THEN "shared"
  ELSE IF pte[p][v] # None /\ pte[p][v].pg # pages[v] THEN data[pte[p][v].pg]
  ELSE IF area[p][v] = "file" THEN "backed" ELSE Zero

Private == INSTANCE PrivateMemory WITH
  mem <- [p \in Procs |-> [v \in Addrs |-> Memory(p, v)]],
  obj <- [v \in Addrs |-> IF pages[v] = None THEN Zero ELSE data[pages[v]]],
  Unmapped <- "unmapped", Shared <- "shared", Backed <- "backed"

\* fork and pagefault: processes see private memories, and an object where
\* they map it shared.
ImplementsPrivateMemory == Private!Spec
=============================================================================
