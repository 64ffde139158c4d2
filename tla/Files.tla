------------------------------- MODULE Files -------------------------------
(***************************************************************************)
(* Descriptors, open files and inodes: the system calls open, close, dup,  *)
(* dup2, read and unlink (kernel/syscalls), fork and the end of a process  *)
(* as far as they concern open_files (kernel/proc.cpp), the references to  *)
(* an inode and the entries of a directory (kernel/fs/fs.cpp), and the     *)
(* files of a tmpfs (fs/tmpfs).                                            *)
(*                                                                         *)
(* There is one directory. Its lookups take no lock (the calls are there,  *)
(* as comments), so a lookup finds an entry in one step and reads it in    *)
(* another. tmpfs makes one entry for an inode: the inode stands for both. *)
(* A thread that reads an entry after it was deleted does anything from    *)
(* then on, and is not followed any further ("undefined").                 *)
(***************************************************************************)
EXTENDS Integers, FiniteSets

CONSTANTS
  Procs,
  Threads,
  Owner,      \* Owner[t]: the process of thread t
  Names,
  NInodes,    \* bound: inodes ever made
  NFiles,     \* bound: files open at a time
  NFds,       \* bound: descriptors of a process
  None

Inodes == 1..NInodes
Files == 1..NFiles
Fds == 0..(NFds - 1)
Null == 0     \* the ref of no file, which dup() of a bad descriptor adds

VARIABLES
  name,       \* name[i]: what inode i was made as, or None before
  dir,        \* the inodes that have an entry
  rc,         \* inode::rc
  deleted,    \* the inodes that release() deleted
  file,       \* file[f]: the inode of an open file, or None
  fds,        \* process::open_files: a file, Null, or None
  live,       \* the processes
  call,       \* call[t]: where t is, with which arguments, and the entry or
              \* inode that it has a pointer to
  held,       \* held[t]: the ref to a file that t holds
  early       \* history: inodes whose entry was removed before
              \* register_direntry() had acquired it

inodes == <<name, dir, rc, deleted, early>>
files == <<file, fds, held>>
vars == <<inodes, files, live, call>>

\* A thread that is at `at` in a call, with name n, inode i and descriptor d.
Doing(at, n, i, d) == [at |-> at, name |-> n, ino |-> i, newfd |-> d]
Idle == Doing("user", None, None, None)

Init ==
  /\ name = [i \in Inodes |-> None] /\ dir = {} /\ deleted = {} /\ early = {}
  /\ rc = [i \in Inodes |-> 0]
  /\ file = [f \in Files |-> None]
  /\ fds = [p \in Procs |-> [d \in Fds |-> None]]
  /\ \E t \in Threads : live = {Owner[t]}
  /\ call = [t \in Threads |-> Idle] /\ held = [t \in Threads |-> None]

At(t, at) == call[t].at = at
Goto(t, to) == call' = [call EXCEPT ![t].at = to]
Return(t) == call' = [call EXCEPT ![t] = Idle]
\* A thread in user mode makes a call.
Calls(t) == Owner[t] \in live /\ At(t, "user")
Table(t) == fds[Owner[t]]
\* The least of a set of numbers, if there is one.
Lowest(S) == {i \in S : \A j \in S : i <= j}

\* inode::release, for a bag of references: n[i] of them to inode i.
release(n) ==
  /\ rc' = [i \in Inodes |-> rc[i] - n[i]]
  /\ deleted' = deleted \union {i \in Inodes : n[i] > 0 /\ rc'[i] = 0}

\* Descriptors and threads hold refs to files; ~file() releases the inode.
DropFiles(table, refs) ==
  LET used(f) == \/ \E p \in Procs, d \in Fds : table[p][d] = f
                 \/ \E t \in Threads : refs[t] = f
      gone == {f \in Files : file[f] # None /\ ~used(f)}
  IN  /\ fds' = table /\ held' = refs
      /\ file' = [f \in Files |-> IF f \in gone THEN None ELSE file[f]]
      /\ release([i \in Inodes |-> Cardinality({f \in gone : file[f] = i})])

------------------------------------------------------------------------------
\* open and unlink: namei and get_direntry

Entries(n) == {i \in dir : name[i] = n}

\* get_direntry for name n: an entry, and t goes on at `found`, or at `missing`.
get_direntry(t, n, found, missing) ==
  /\ \/ \E i \in Entries(n) :
          call' = [call EXCEPT ![t] = Doing(found, n, i, None)]
     \/ Entries(n) = {} /\ missing = "user" /\ Return(t)
     \/ /\ Entries(n) = {} /\ missing # "user"
        /\ call' = [call EXCEPT ![t] = Doing(missing, n, None, None)]
  /\ UNCHANGED <<inodes, files, live>>

get_direntry_ino(t, entry, to) ==
  /\ At(t, entry) /\ Goto(t, IF call[t].ino \in dir THEN to ELSE "undefined")
  /\ UNCHANGED <<inodes, files, live>>

\* open looks for the name, and with O_CREAT creates it and looks once more.
open(t, n, creat) ==
  Calls(t) /\ get_direntry(t, n, "found", IF creat THEN "create" ELSE "user")

namei(t) ==
  \/ At(t, "open") /\ get_direntry(t, call[t].name, "found", "user")
  \/ get_direntry_ino(t, "found", "file")

unlink(t, n) == Calls(t) /\ get_direntry(t, n, "victim", "user")

\* Mutant of create_inode: it returns the inode as it is.
create_inodeBare(i) == rc' = [rc EXCEPT ![i] = 0]

create_inode(i) == rc' = [rc EXCEPT ![i] = 1]

\* tmpfs_create as far as the unlock in register_direntry: the name may have been
\* taken meanwhile, which it does not notice.
tmpfs_create(t) ==
  /\ At(t, "create")
  /\ \E i \in Lowest({j \in Inodes : name[j] = None}) :
       /\ name' = [name EXCEPT ![i] = call[t].name]
       /\ create_inode(i)
       /\ \/ /\ Entries(call[t].name) = {} /\ dir' = dir \union {i}
             /\ call' = [call EXCEPT ![t] = Doing("acquire", @.name, i, None)]
          \/ Entries(call[t].name) # {} /\ Goto(t, "open") /\ UNCHANGED dir
  /\ UNCHANGED <<deleted, early, files, live>>

\* The end of register_direntry, which reads the entry again ("do this after").
register_direntry(t) ==
  /\ At(t, "acquire")
  /\ IF call[t].ino \in dir
     THEN /\ rc' = [rc EXCEPT ![call[t].ino] = @ + 1]
          /\ call' = [call EXCEPT ![t] = Doing("open", @.name, None, None)]
     ELSE Goto(t, "undefined") /\ UNCHANGED rc
  /\ UNCHANGED <<name, dir, deleted, early, files, live>>

\* file::create, with the inode that namei() found and did not acquire
create(t) ==
  /\ At(t, "file")
  /\ rc' = [rc EXCEPT ![call[t].ino] = @ + 1]
  /\ \E f \in Lowest({g \in Files : file[g] = None}) :
       file' = [file EXCEPT ![f] = call[t].ino] /\ held' = [held EXCEPT ![t] = f]
  /\ call' = [call EXCEPT ![t] = Doing("add_fd", None, None, None)]
  /\ UNCHANGED <<name, dir, deleted, early, fds, live>>

\* vfs::unlink looks at the inode, and remove_direntry for the name once more.
remove_direntry(t) ==
  /\ At(t, "remove") /\ Return(t)
  /\ \/ Entries(call[t].name) = {} /\ UNCHANGED inodes
     \/ \E i \in Entries(call[t].name) :
          /\ dir' = dir \ {i}
          /\ release([j \in Inodes |-> IF j = i THEN 1 ELSE 0])
          /\ early' = IF \E u \in Threads : At(u, "acquire") /\ call[u].ino = i
                      THEN early \union {i} ELSE early
          /\ UNCHANGED name
  /\ UNCHANGED <<files, live>>

Path(t) ==
  \/ namei(t) \/ tmpfs_create(t) \/ register_direntry(t) \/ create(t)
  \/ get_direntry_ino(t, "victim", "remove") \/ remove_direntry(t)

------------------------------------------------------------------------------
\* Descriptors; each of these steps is one section under file_lock

add_fd(t) ==
  /\ At(t, "add_fd") /\ Return(t)
  /\ \E d \in Lowest({e \in Fds : Table(t)[e] = None}) :
       fds' = [fds EXCEPT ![Owner[t]][d] = held[t]]
  /\ held' = [held EXCEPT ![t] = None]
  /\ UNCHANGED <<inodes, file, live>>

\* get_fd, first in read, dup and dup2
get_fd(t, d, to) ==
  /\ Calls(t) /\ call' = [call EXCEPT ![t] = to]
  /\ held' = [held EXCEPT ![t] = IF Table(t)[d] = None THEN Null ELSE Table(t)[d]]
  /\ UNCHANGED <<inodes, file, fds, live>>

read(t, d) == get_fd(t, d, Doing("read", None, None, None))
dup(t, d) == get_fd(t, d, Doing("add_fd", None, None, None))
dup2(t, d, newfd) == get_fd(t, d, Doing("dup2", None, None, newfd))

\* The ref goes when read() or a dup2() without a file returns.
Drop(t) ==
  /\ At(t, "read") \/ (At(t, "dup2") /\ held[t] = Null)
  /\ Return(t) /\ DropFiles(fds, [held EXCEPT ![t] = None])
  /\ UNCHANGED <<name, dir, early, live>>

\* dup2 closes newfd in one section and sets it in the next.
Dup2Close(t) ==
  /\ At(t, "dup2") /\ held[t] # Null /\ Goto(t, "set")
  /\ DropFiles([fds EXCEPT ![Owner[t]][call[t].newfd] = None], held)
  /\ UNCHANGED <<name, dir, early, live>>

Dup2Set(t) ==
  /\ At(t, "set") /\ Return(t)
  /\ DropFiles([fds EXCEPT ![Owner[t]][call[t].newfd] = held[t]], [held EXCEPT ![t] = None])
  /\ UNCHANGED <<name, dir, early, live>>

close(t, d) ==
  /\ Calls(t) /\ Table(t)[d] # None
  /\ DropFiles([fds EXCEPT ![Owner[t]][d] = None], held)
  /\ UNCHANGED <<name, dir, early, live, call>>

\* do_spawn_proc with SPAWN_FORK, and ~process
fork(t, q) ==
  /\ Calls(t) /\ q \notin live
  /\ live' = live \union {q} /\ fds' = [fds EXCEPT ![q] = Table(t)]
  /\ UNCHANGED <<inodes, file, held, call>>

exit(p) ==
  /\ p \in live /\ \A t \in Threads : Owner[t] = p => At(t, "user")
  /\ live' = live \ {p}
  /\ DropFiles([fds EXCEPT ![p] = [d \in Fds |-> None]], held)
  /\ UNCHANGED <<name, dir, early, call>>

Next ==
  \/ \E t \in Threads :
       \/ Path(t) \/ add_fd(t) \/ Drop(t) \/ Dup2Close(t) \/ Dup2Set(t)
       \/ \E n \in Names : unlink(t, n) \/ \E creat \in BOOLEAN : open(t, n, creat)
       \/ \E d \in Fds : read(t, d) \/ dup(t, d) \/ close(t, d) \/ \E e \in Fds : dup2(t, d, e)
       \/ \E q \in Procs : fork(t, q)
  \/ \E p \in Procs : exit(p)

Spec == Init /\ [][Next]_vars
------------------------------------------------------------------------------
\* open, unlink, close, inode::acquire and release: whatever open() is about to
\* acquire, unlink() to look at, or a file, a name or a descriptor leads to has
\* not been deleted, though lookups acquire nothing; unless a name was removed
\* before register_direntry() had counted it.
InodeIsThere ==
  /\ \A t \in Threads : call[t].at \in {"file", "remove"} => call[t].ino \notin deleted \ early
  /\ \A f \in Files : file[f] # None => file[f] \notin deleted \ early
  /\ \A p \in Procs, d \in Fds : fds[p][d] \in Files => file[fds[p][d]] # None
  /\ dir \intersect deleted \subseteq early
=============================================================================
