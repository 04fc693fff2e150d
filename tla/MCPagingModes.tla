----------------------------- MODULE MCPagingModes -----------------------------
(***************************************************************************)
(* The instance of Paging for two processes.  Each behaviour is of one of  *)
(* two kinds, told apart by the contents memory starts with, so that the   *)
(* sizes of the two do not multiply:                                       *)
(*   all d1: everything that can happen to tables and frames, in pages     *)
(*           that all look alike;                                          *)
(*   all d2: pages with different contents, of processes that live on; it  *)
(*           becomes one of the first kind where all pages got to hold d1. *)
(* TLC takes the steps of Paging that satisfy OneQuestion.                 *)
(***************************************************************************)
EXTENDS MCPaging, PagingRefinement

CONSTANTS
  d1, d2,    \* what stores write
  MaxPages   \* pages allocated at once where contents matter

\* The contents that somebody can still see are all d1.
Alike == \A x \in Fss \cup {s \in Swap : ~swapAvail[s]} : data[x] = d1

\* Among different contents nobody faults on a page it does not have, or dies.
LiveOn ==
  /\ \A p \in Proc : pc[p] # "dying" /\ (pc[p] = "fault" => cr2 \in Owned(p))
  /\ \A k \in Thread : victim[k] = None
  /\ Cardinality({<<p, w>> \in Proc \X HeapPage : Contents(p, w) # Unmapped}) <= MaxPages

OneQuestion == IF Alike THEN Alike' ELSE LiveOn'

\* Where pages look alike, it is all the same which frame or slot a page is in, as
\* long as every one of them belongs to one entry.
Paged(e) == IF e.base \in Fss \cup Swap THEN [e EXCEPT !.base = "page"] ELSE e
AlikeView ==
  <<[a \in Addr |-> Paged(ent[a])], pdptAvail, pdptUsed, fssUsed, swapUsed, allHeap,
    [p \in Live |-> <<pdbr[p], blocks[p], Counters(p)>>], pc, victim, currpid, Loaded, Faulted,
    FrameOwnership /\ SwapOwnership>>

ModesView == IF Alike THEN AlikeView ELSE View
===============================================================================
