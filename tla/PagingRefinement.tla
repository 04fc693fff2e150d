--------------------------- MODULE PagingRefinement ---------------------------
(***************************************************************************)
(* Paging implements AddressSpace: whatever is evicted, brought back or    *)
(* switched, a process finds in its blocks what it stored there.           *)
(***************************************************************************)
EXTENDS PagingProperties

CONSTANTS Unmapped, Fresh

ASSUME RefinementAssumption == Unmapped # Fresh /\ Unmapped \notin Data

\* Page w is one of block b.
InBlock(w, b) == (NEnt * (w[1] - b[1][1]) + w[2] - b[1][2]) % Top < b[2]

\* What page w of process p holds, read through the process's own tables.
Contents(p, w) ==
  LET e == ent[PteAddr(pdbr[p], w)]
  IN  IF ~alive[p] \/ (\A b \in blocks[p] : ~InBlock(w, b)) THEN Unmapped
      ELSE IF e.pres \/ e.swap THEN data[e.base]
      ELSE Fresh

HeapPage == {w \in Idx \X Idx : w[1] >= HeapIdx}

Abstract == INSTANCE AddressSpace WITH
  Page <- HeapPage,
  live <- Live,
  mem  <- [p \in Proc |-> [w \in HeapPage |-> Contents(p, w)]]

\* Every step of the paging code is a step of AddressSpace or invisible to it:
\* no page of a block changes but by a store of its owner, and none is lost.
KeepsMemory == Abstract!Spec
==============================================================================
