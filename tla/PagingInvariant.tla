---------------------------- MODULE PagingInvariant ----------------------------
(***************************************************************************)
(* The inductive invariant behind TableOwnership, FrameOwnership and       *)
(* KernelMapIntact, for programs that stay clear of the uses that break    *)
(* them.                                                                   *)
(***************************************************************************)
EXTENDS PagingProperties

\* Hazards under which the ownership of tables and frames is lost: those left out.
Disciplined == Hazards \subseteq {"badfree", "straddle"}

User         == Idx \ Kernel
Pde(p, d)    == ent[<<pdbr[p], d>>]
Linear(w)    == NEnt * w[1] + w[2]

\* Process p has a table for directory entry d; the table; an entry of it.
Has(p, d)    == alive[p] /\ Pde(p, d).pres
Tab(p, d)    == Pde(p, d).base
Pte(p, d, i) == ent[<<Tab(p, d), i>>]

\* The process on the processor exists; it is the one whose fault is being
\* served; a process that is about to be removed exists, is off the processor
\* and has one killer, who is neither dying nor faulting.
Control ==
  /\ currpid \in Proc => alive[currpid]
  /\ \A q \in Thread : pc[q] # "user" => q \in Proc /\ alive[q] /\ victim[q] = None
  /\ \A p \in Proc : pc[p] = "fault" => currpid = p
  /\ \A k \in Thread : victim[k] # None => alive[victim[k]] /\ victim[k] # currpid
  /\ \A j, k \in Thread : victim[j] = victim[k] /\ victim[j] # None => j = k

\* Blocks lie in the heap, below the counter.
Heap ==
  /\ \A p \in Proc : ~alive[p] => blocks[p] = {}
  /\ \A p \in Live : NEnt * HeapIdx <= vAdd[p]
  /\ \A p \in Live : \A b \in blocks[p] :
       NEnt * HeapIdx <= Linear(b[1]) /\ Linear(b[1]) + b[2] <= vAdd[p]

\* The page whose fault is served was allocated and is not present.
FaultServed ==
  \A p \in Proc : pc[p] = "fault" /\ Pde(p, cr2[1]).pres =>
    cr2[1] \in User /\ Linear(cr2) < vAdd[p] /\ ~ent[FaultPte(p)].pres

\* A directory has the golden entries for the kernel; another entry is valid
\* when it is present and zero when it is not; those of a free frame, which
\* vcreate does not reset, are clear.
Directories ==
  /\ \A d \in 0 .. NGold - 1 : ent[<<GoldenPd, d>>] = Mapping(d + 2)
  /\ \A t \in Golden \ {GoldenPd}, i \in Idx : ent[<<t, i>>] = Mapping(0)
  /\ \A p \in Proc : alive[p] =>
       /\ \A d \in Kernel : Pde(p, d) = ent[<<GoldenPd, d>>]
       /\ \A d \in User : Pde(p, d).valid = Pde(p, d).pres
       /\ \A d \in User : ~Pde(p, d).pres => Pde(p, d).base = 0
  /\ \A t \in Pdpt, d \in User : pdptAvail[t] => ~ent[<<t, d>>].valid /\ ~ent[<<t, d>>].pres

\* TableOwnership, spelled out.
Tables ==
  /\ \A t \in Golden : ~pdptAvail[t]
  /\ \A p \in Proc : alive[p] => pdbr[p] \in Pdpt \ Golden /\ ~pdptAvail[pdbr[p]]
  /\ \A p \in Proc, d \in User : Has(p, d) =>
       Tab(p, d) \in Pdpt \ Golden /\ ~pdptAvail[Tab(p, d)]
  /\ \A p, q \in Proc : alive[p] /\ alive[q] /\ pdbr[p] = pdbr[q] => p = q
  /\ \A p, q \in Proc, d, e \in User :
       Has(p, d) /\ Has(q, e) /\ Tab(p, d) = Tab(q, e) => p = q /\ d = e
  /\ \A p, q \in Proc, d \in User : Has(p, d) /\ alive[q] => Tab(p, d) # pdbr[q]
  /\ \A t \in Pdpt : ~pdptAvail[t] =>
       \/ t \in Golden
       \/ \E p \in Proc : alive[p] /\ pdbr[p] = t
       \/ \E p \in Proc, d \in User : Has(p, d) /\ Tab(p, d) = t

\* FrameOwnership, spelled out; moreover what is present is not swapped out,
\* and nothing at or above the counter is present.
Frames ==
  /\ \A p \in Proc, d \in User, i \in Idx : Has(p, d) /\ Pte(p, d, i).pres =>
       /\ Pte(p, d, i).base \in Fss /\ ~Pte(p, d, i).swap
       /\ ~fssAvail[Pte(p, d, i).base] /\ fssPte[Pte(p, d, i).base] = <<Tab(p, d), i>>
       /\ NEnt * d + i < vAdd[p]
  /\ \A f \in Fss : ~fssAvail[f] =>
       \E p \in Proc, d \in User, i \in Idx :
         /\ Has(p, d) /\ Pte(p, d, i).pres /\ Pte(p, d, i).base = f
         /\ fssPte[f] = <<Tab(p, d), i>>

FramesCounted == fssUsed = Cardinality({f \in Fss : ~fssAvail[f]})

\* Every step keeps all of this: a table, a frame and the entry that maps it
\* change hands together, in vcreate, vmalloc, vfree, kill and the handler.
OwnershipInv ==
  Control /\ Heap /\ FaultServed /\ Directories /\ Tables /\ Frames /\ FramesCounted

(***************************************************************************)
(* The invariant behind SwapOwnership, BlocksMapped and CountersExact.  A  *)
(* program may make vfree refuse, but frees no block whose pages are not   *)
(* where the walk of vfree looks for them.                                 *)
(***************************************************************************)
Careful == Hazards \subseteq {"badfree"}

\* Page w is a page of a block of process p.
Allocated(p, w) ==
  \E b \in blocks[p] : Linear(b[1]) <= Linear(w) /\ Linear(w) < Linear(b[1]) + b[2]

\* Two blocks of a process have no page in common.
Apart ==
  \A p \in Live : \A b, c \in blocks[p] :
    b = c \/ Linear(b[1]) + b[2] <= Linear(c[1]) \/ Linear(c[1]) + c[2] <= Linear(b[1])

\* BlocksMapped, spelled out.
Mapped ==
  /\ \A p \in Proc, d, i \in Idx : alive[p] /\ Allocated(p, <<d, i>>) =>
       d \in User /\ Has(p, d) /\ Pte(p, d, i).valid
  /\ \A p \in Proc, d \in User, i \in Idx :
       Has(p, d) /\ (Pte(p, d, i).pres \/ Pte(p, d, i).swap) => Allocated(p, <<d, i>>)

\* A served fault is on a page of a block.  It is what makes a page that is
\* swapped out one that vfree and kill find: they look at the valid bit, and
\* the handler does not set it.
FaultAllocated ==
  \A p \in Proc : pc[p] = "fault" /\ Pde(p, cr2[1]).pres => Allocated(p, cr2)

\* SwapOwnership, spelled out; moreover only tables of processes have swap bits:
\* vmalloc keeps the bit of the entries of a frame it makes a table.
Slots ==
  /\ \A a \in Addr : ent[a].swap =>
       /\ \E p \in Proc, d \in User : Has(p, d) /\ Tab(p, d) = a[1]
       /\ ~ent[a].pres /\ ent[a].base \in Swap /\ ~swapAvail[ent[a].base]
  /\ \A a, b \in Addr : ent[a].swap /\ ent[b].swap /\ ent[a].base = ent[b].base => a = b
  /\ \A s \in Swap : ~swapAvail[s] => \E a \in Addr : ent[a].swap /\ ent[a].base = s

SlotsCounted  == swapUsed = Cardinality({s \in Swap : ~swapAvail[s]})
TablesCounted == pdptUsed = Cardinality({t \in Pdpt \ Golden : ~pdptAvail[t]})

PagesInv == Apart /\ Mapped /\ FaultAllocated /\ Slots /\ SlotsCounted
==============================================================================
