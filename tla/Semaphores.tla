------------------------------ MODULE Semaphores ------------------------------
(***************************************************************************)
(* Semaphores as values, for the components whose processes wait on them.  *)
(* Kernel models the calls themselves with the scheduler; here a process   *)
(* that is taken off the queue is one that may run, and what it does next  *)
(* is a step of its component.                                             *)
(***************************************************************************)
EXTENDS Integers, SequencesExt

NewSem(n) == [ok |-> TRUE, count |-> n, queue |-> <<>>]

\* What semcreate returns when there is no entry left, or an entry that was
\* deleted: wait, signal, semreset and semdelete refuse it.
BadSem == [ok |-> FALSE, count |-> 0, queue |-> <<>>]

Waits(s, p) == [s EXCEPT !.count = @ - 1, !.queue = IF s.count <= 0 THEN Append(@, p) ELSE @]

\* The first n processes of the queue are let go, as many as there are.
SignaledN(s, n) ==
  IF s.ok THEN [s EXCEPT !.count = @ + n,
                         !.queue = SubSeq(@, (IF n < Len(@) THEN n ELSE Len(@)) + 1, Len(@))]
  ELSE s
Signaled(s) == SignaledN(s, 1)

Emptied(s, n) == IF s.ok THEN NewSem(n) ELSE s

Queued(s, p) == p \in ToSet(s.queue)

\* The units that a process may still take without waiting.
Avail(s) == IF s.count < 0 THEN 0 ELSE s.count
===============================================================================
