------------------------------- MODULE MCPaging -------------------------------
(***************************************************************************)
(* Instances of Paging for TLC.                                            *)
(***************************************************************************)
EXTENDS PagingInvariant, TLC

\* The slots of proctab are interchangeable.
Symmetry == Permutations(Proc)

\* States that differ only in values that are overwritten before they are read
\* are the same: the pte_addr of an available frame, the fields of a free slot
\* of proctab, an available swap slot, the heap counters of a process that
\* exits, cr3 when the current process will not return to its program before
\* resched loads it, cr2 when no process that faulted has a table for it (where
\* there is none, the handler kills whatever the address).
Counters(p) == IF pc[p] = "dying" THEN None ELSE <<vAdd[p], avail[p]>>
Loaded == IF pc[currpid] = "dying" \/ victim[currpid] # None THEN None ELSE cr3
Faulted == IF \E p \in Proc : pc[p] = "fault" /\ ent[<<pdbr[p], cr2[1]>>].pres THEN cr2 ELSE None

View ==
  <<tabVars, fssAvail, [f \in {g \in Fss : ~fssAvail[g]} |-> fssPte[f]], swapVars, fssUsed, allHeap,
    [x \in {y \in Fss \cup Swap : y \in Fss \/ ~swapAvail[y]} |-> data[x]],
    [p \in Live |-> <<pdbr[p], blocks[p], Counters(p)>>], pc, victim, currpid, Loaded, Faulted>>
==============================================================================
