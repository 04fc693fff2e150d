--------------------------- MODULE PagingProperties ---------------------------
(***************************************************************************)
(* What the trackers, the tables and the processes of Paging must agree on.*)
(***************************************************************************)
EXTENDS Paging

Live == {p \in Proc : alive[p]}

\* The directory entries of live processes that name a page table, the table
\* each names, and the entries of those tables.
UserPdes   == {x \in Live \X (Idx \ Kernel) : ent[<<pdbr[x[1]], x[2]>>].pres}
TableOf(x) == ent[<<pdbr[x[1]], x[2]>>].base
UserPtes   == {TableOf(x) : x \in UserPdes} \X Idx

\* Every variable keeps its type: in particular the unsigned counters do.
TypeOK ==
  /\ ent \in [Addr -> Entry]
  /\ pdptAvail \in [Pdpt -> BOOLEAN] /\ pdptUsed \in Nat
  /\ fssAvail \in [Fss -> BOOLEAN] /\ fssUsed \in Nat
  /\ fssPte \in [Fss -> Base \X Idx]
  /\ swapAvail \in [Swap -> BOOLEAN] /\ swapUsed \in Nat
  /\ allHeap \in 0 .. Word - 1
  /\ data \in [Fss \cup Swap -> Data]
  /\ alive \in [Proc -> BOOLEAN] /\ pdbr \in [Proc -> Pdpt]
  /\ vAdd \in [Proc -> 0 .. Top - 1] /\ avail \in [Proc -> Nat]
  /\ blocks \in [Proc -> SUBSET ((Idx \X Idx) \X Sizes)]
  /\ pc \in [Thread -> {"user", "fault", "dying"}]
  /\ victim \in [Thread -> Proc \cup {None}]
  /\ currpid \in Thread /\ cr3 \in Pdpt /\ cr2 \in Idx \X Idx

\* A frame of the PDPT region that is in use is one golden frame, one live
\* process's directory or one table of one directory entry, and those are in
\* use: vcreate, vmalloc, vfree and kill neither leak nor share a frame.
TableOwnership ==
  /\ \A t \in Golden : ~pdptAvail[t]
  /\ \A p \in Live : pdbr[p] \in Pdpt \ Golden /\ ~pdptAvail[pdbr[p]]
  /\ \A x \in UserPdes : TableOf(x) \in Pdpt \ Golden /\ ~pdptAvail[TableOf(x)]
  /\ \A p, q \in Live : pdbr[p] = pdbr[q] => p = q
  /\ \A x, y \in UserPdes : TableOf(x) = TableOf(y) => x = y
  /\ \A x \in UserPdes, p \in Live : TableOf(x) # pdbr[p]
  /\ \A t \in Pdpt : ~pdptAvail[t] =>
       t \in Golden \/ (\E p \in Live : pdbr[p] = t) \/ (\E x \in UserPdes : TableOf(x) = t)

\* The frame a present entry names is in use and remembers that entry, and a
\* frame in use is named by the entry it remembers: what eviction relies on
\* when it rewrites the entry found in fss_free_track.
FrameOwnership ==
  /\ \A a \in UserPtes : ent[a].pres =>
       ent[a].base \in Fss /\ ~fssAvail[ent[a].base] /\ fssPte[ent[a].base] = a
  /\ \A f \in Fss : ~fssAvail[f] =>
       fssPte[f] \in UserPtes /\ ent[fssPte[f]].pres /\ ent[fssPte[f]].base = f

\* A slot in use holds the page of exactly one entry whose swap bit is set.
SwapOwnership ==
  /\ \A a \in UserPtes : ent[a].swap =>
       ~ent[a].pres /\ ent[a].base \in Swap /\ ~swapAvail[ent[a].base]
  /\ \A a, b \in UserPtes : ent[a].swap /\ ent[b].swap /\ ent[a].base = ent[b].base => a = b
  /\ \A s \in Swap : ~swapAvail[s] => \E a \in UserPtes : ent[a].swap /\ ent[a].base = s

\* The entries of the pages of a process's blocks are validated, and no other
\* entry of its tables maps anything: vmalloc validates, vfree clears, and the
\* handler maps, the pages of the very block that was asked for.
BlocksMapped ==
  \A p \in Live :
    /\ \A w \in Owned(p) : ent[<<pdbr[p], w[1]>>].pres /\ ent[PteAddr(pdbr[p], w)].valid
    /\ \A d \in Idx \ Kernel, i \in Idx : ent[<<pdbr[p], d>>].pres =>
         LET e == ent[PteAddr(pdbr[p], <<d, i>>)] IN e.pres \/ e.swap => <<d, i>> \in Owned(p)

\* The used counters, which decide between free frame and eviction, count the
\* pages in use (that of the PDPT region, those beyond the golden ones).
CountersExact ==
  /\ fssUsed = Cardinality({f \in Fss : ~fssAvail[f]})
  /\ swapUsed = Cardinality({s \in Swap : ~swapAvail[s]})
  /\ pdptUsed = Cardinality({t \in Pdpt : ~pdptAvail[t]}) - (NGold + 1)

\* Every directory maps the kernel through the golden tables, which map it.
KernelMapIntact ==
  /\ \A d \in 0 .. NGold - 1 : ent[<<GoldenPd, d>>] = Mapping(d + 2)
  /\ \A t \in Golden \ {GoldenPd}, i \in Idx : ent[<<t, i>>] = Mapping(0)
  /\ \A p \in Live, d \in Kernel : ent[<<pdbr[p], d>>] = ent[<<GoldenPd, d>>]

\* "if pt_pres bit is 1, page fault shouldn't have been raised"
\* (pagefault_handler.c:54): the handler never serves a page that is present.
NoResidentFault ==
  \A p \in Proc : currpid = p /\ pc[p] = "fault" => ~Resident(pdbr[p], cr2)

\* "at this point the pte entry must have been validated in vmalloc()"
\* (pagefault_handler.c:53): so is the entry of every fault the handler serves.
FaultsOnValidated ==
  \A p \in Proc : Faulting(p) => ent[FaultPte(p)].valid

\* "return free page base address from requesting region" (paging.c:134):
\* when is_pdpt_full says there is room, a frame of the region is free.
PdptFullIsTold == ~PdptFull => \E t \in Pdpt : pdptAvail[t]

\* The handler evicts without asking is_swap_full: a slot must be there.
SwapHasRoom ==
  \A p \in Proc : Faulting(p) /\ ~ent[FaultPte(p)].swap /\ FssFull =>
    \E s \in Swap : swapAvail[s]

\* MAX_HEAP_SIZE is the "max number of frames for virtual heap" (paging.h:76).
HeapCap == Cardinality({x \in Live \X (Idx \X Idx) : x[2] \in Owned(x[1])}) <= MaxHeap
==============================================================================
