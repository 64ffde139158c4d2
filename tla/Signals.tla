------------------------------ MODULE Signals ------------------------------
(***************************************************************************)
(* Delivery of signals to the first thread of a process, the only one      *)
(* send_signal() of a process tries: kernel/thread.cpp, kernel/proc.cpp,   *)
(* sched::claim_next_signal (kernel/sched/core.cpp) on the way back to     *)
(* user space (arch/x86/irq.cpp), and kernel/syscalls/signal.cpp.          *)
(*                                                                         *)
(* sig.pending is a word that sender and thread update without a lock or   *)
(* an atomic instruction: a load, then a store of what was loaded with one *)
(* bit changed. A bit that is set in sig.mask lets its signal through.     *)
(***************************************************************************)
EXTENDS Integers

CONSTANTS
  Senders,
  NSigs,       \* signals are 0..NSigs-1; 0 is no signal anybody sends
  IgnoredSigs, \* those whose default action is SIGACT_IGNO; the rest terminate
  Handlers,    \* what a program registers
  SIG_DFL

Sigs == 0..(NSigs - 1)

None == -1

VARIABLES
  pending, mask,   \* thread::sig.pending and sig.mask, as sets
  handling,        \* thread::sig.handling
  handlers,        \* process::sig.handlers
  loaded,          \* what each sender, or the thread, has loaded of pending
  sending,         \* the signal each sender sends, or None
  claimed,         \* the signal being claimed, or None
  alive,
  done             \* history: the last signal acted on, how, and what was registered

vars == <<pending, mask, handling, handlers, loaded, sending, claimed, alive, done>>
user == alive /\ claimed = None

Init ==
  /\ pending = {} /\ mask = {}
  /\ handling = None /\ claimed = None
  /\ handlers = [s \in Sigs |-> SIG_DFL]
  /\ sending = [p \in Senders |-> None]
  /\ loaded = [p \in Senders \union {"self"} |-> {}]
  /\ alive = TRUE
  /\ done = [sig |-> None, act |-> SIG_DFL, registered |-> SIG_DFL]

default_signal_action(s) == IF s \in IgnoredSigs THEN "SIGACT_IGNO" ELSE "SIGACT_TERM"

\* thread::send_signal: pending |= pend
Load(p, s) ==
  /\ sending[p] = None
  /\ sending' = [sending EXCEPT ![p] = s]
  /\ loaded' = [loaded EXCEPT ![p] = pending]
  /\ UNCHANGED <<pending, mask, handling, handlers, claimed, alive, done>>

Store(p) ==
  /\ sending[p] # None
  /\ pending' = loaded[p] \union {sending[p]}
  /\ sending' = [sending EXCEPT ![p] = None]
  /\ loaded' = [loaded EXCEPT ![p] = {}]
  /\ UNCHANGED <<mask, handling, handlers, claimed, alive, done>>

Act(s, what) == done' = [sig |-> s, act |-> what, registered |-> handlers[s]]

\* claim_next_signal, the scan: the lowest signal that the mask lets through, or
\* that terminates by default and is blocked.
Scan(s) ==
  /\ user /\ handling = None /\ s \in pending
  /\ s \in mask \/ default_signal_action(s) = "SIGACT_TERM"
  /\ \A i \in pending : i < s => i \notin mask /\ default_signal_action(i) # "SIGACT_TERM"
  /\ IF s \in mask
     THEN /\ claimed' = s /\ loaded' = [loaded EXCEPT !["self"] = pending]
          /\ UNCHANGED <<alive, done>>
     ELSE alive' = FALSE /\ Act(s, "terminate") /\ UNCHANGED <<claimed, loaded>>
  /\ UNCHANGED <<pending, mask, handling, handlers, sending>>

\* pending is written back, and the action looked up: in handlers[sig], where
\* sig is still the caller's 0 and not the signal that was claimed.
Claim ==
  /\ claimed # None
  /\ pending' = loaded["self"] \ {claimed}
  /\ loaded' = [loaded EXCEPT !["self"] = {}]
  /\ claimed' = None
  /\ IF handlers[0] = SIG_DFL
     THEN alive' = FALSE /\ Act(claimed, "terminate") /\ UNCHANGED handling
     ELSE handling' = claimed /\ Act(claimed, handlers[0]) /\ UNCHANGED alive
  /\ UNCHANGED <<mask, handlers, sending>>

sigaction(s, h) ==
  /\ user /\ handlers' = [handlers EXCEPT ![s] = h]
  /\ UNCHANGED <<pending, mask, handling, loaded, sending, claimed, alive, done>>

\* SIG_BLOCK clears bits, SIG_UNBLOCK sets them.
sigprocmask(set) ==
  /\ user /\ mask' \in {mask \ set, mask \union set, set}
  /\ UNCHANGED <<pending, handling, handlers, loaded, sending, claimed, alive, done>>

sigreturn ==
  /\ user /\ handling # None /\ handling' = None
  /\ UNCHANGED <<pending, mask, handlers, loaded, sending, claimed, alive, done>>

Next ==
  \/ \E p \in Senders : Store(p) \/ \E s \in Sigs \ {0} : Load(p, s)
  \/ \E s \in Sigs : Scan(s) \/ \E h \in Handlers : sigaction(s, h)
  \/ \E set \in SUBSET Sigs : sigprocmask(set)
  \/ Claim \/ sigreturn

Spec == Init /\ [][Next]_vars
------------------------------------------------------------------------------
\* signal() and claim_next_signal: a signal that has a handler is handled by
\* that handler, and does not end the process.
HandlerIsRun ==
  done.registered # SIG_DFL => done.act = done.registered
=============================================================================
