-------------------------------- MODULE Paging --------------------------------
(***************************************************************************)
(* Demand paging: page directories and page tables as the raw memory the   *)
(* code keeps in the PDPT region, the trackers of the PDPT, FSS and swap   *)
(* regions, vcreate, vmalloc, vfree, kill and the page-fault handler, run  *)
(* by user processes that are switched in and out.                         *)
(*                                                                         *)
(* Physical pages are numbered: 0 stands for the whole kernel region, then *)
(* come the PDPT, FSS and swap regions, one after the other as in memory.  *)
(* A virtual page is the pair <<page directory index, page table index>>.  *)
(* Hazards names the legal or erroneous uses this code does not survive; a *)
(* configuration enables those it wants to study and excludes the others.  *)
(***************************************************************************)
EXTENDS Integers, FiniteSets

CONSTANTS
  Proc,      \* slots of proctab filled by vcreate
  Sys,       \* every process that create() made: it runs on the golden PD
  NEnt,      \* entries of a directory or table (1024)
  NKern,     \* directory entries vcreate copies from the golden PD (8)
  NGold,     \* directory entries of the golden PD (15)
  HeapIdx,   \* directory index where a process's heap starts (16)
  NPdpt,     \* frames of the PDPT region (MAX_PT_SIZE)
  NFss,      \* frames of the FSS region (MAX_FSS_SIZE)
  NSwap,     \* slots of the swap region (MAX_SWAP_SIZE)
  HSize,     \* hsize passed to vcreate
  MaxHeap,   \* MAX_HEAP_SIZE
  Word,      \* 2^32: ALL_HEAP_SIZE is unsigned
  Sizes,     \* block sizes, in pages, that programs ask for
  Data,      \* contents of a page
  Hazards,   \* uses admitted beyond the disciplined ones
  None       \* no process

ASSUME PagingAssumption ==
  /\ Sys \notin Proc /\ None \notin Proc \cup {Sys} /\ Data # {}
  /\ NEnt \in Nat /\ NKern \in 1 .. NGold /\ NGold \in 1 .. HeapIdx
  /\ HeapIdx \in 1 .. NEnt - 1
  /\ NPdpt \in Nat /\ NPdpt > NGold /\ NFss \in Nat \ {0} /\ NSwap \in Nat
  /\ HSize \in Nat /\ MaxHeap \in Nat /\ Word \in Nat /\ Word > MaxHeap
  /\ Sizes \subseteq Nat \ {0}

VARIABLES
  ent,       \* entries of every PDPT frame: valid, present and swap bits, base
  pdptAvail, pdptUsed,            \* pdpt_free_track, pdpt_used_size
  fssAvail, fssPte, fssUsed,      \* fss_free_track (with pte_addr), fss_used_size
  swapAvail, swapUsed,            \* swap_free_track, swap_used_size
  allHeap,   \* ALL_HEAP_SIZE
  data,      \* contents of the FSS frames and swap slots
  alive, pdbr, vAdd, avail,       \* proctab: not PR_FREE, pdbr, v_add_counter, avail_v_heap
  blocks,    \* <<first page, pages>> of what vmalloc returned and vfree did not get
  pc,        \* where a process is: "user", "fault" (in the dispatcher), "dying" (in kill)
  victim,    \* the process that kill() of another is about to remove
  currpid, cr3, cr2

tabVars  == <<ent, pdptAvail, pdptUsed>>
fssVars  == <<fssAvail, fssPte, fssUsed>>
swapVars == <<swapAvail, swapUsed>>
heapVars == <<vAdd, avail, blocks, allHeap>>
procVars == <<alive, pdbr>>
ctlVars  == <<pc, victim, currpid, cr3, cr2>>
vars == <<tabVars, fssVars, swapVars, heapVars, procVars, ctlVars, data>>

Idx      == 0 .. NEnt - 1
Kernel   == 0 .. NKern - 1
Released_AlsoKernel == 0 .. NEnt - 1
Released == NKern .. NEnt - 1  \* entries kill takes apart, from index 8 on
Thread   == Proc \cup {Sys}
GoldenPd == 1
Golden   == 1 .. NGold + 1
Pdpt     == 1 .. NPdpt
Fss      == NPdpt + 1 .. NPdpt + NFss
Swap     == NPdpt + NFss + 1 .. NPdpt + NFss + NSwap
Base     == 0 .. NPdpt + NFss + NSwap
Addr     == Pdpt \X Idx
Entry    == [valid : BOOLEAN, pres : BOOLEAN, swap : BOOLEAN, base : Base]
Zero     == [valid |-> FALSE, pres |-> FALSE, swap |-> FALSE, base |-> 0]
Mapping(b) == [valid |-> TRUE, pres |-> TRUE, swap |-> FALSE, base |-> b]

\* Entry e once its page is in frame f, or in swap slot s.
Present(e, f) == [e EXCEPT !.pres = TRUE, !.swap = FALSE, !.base = f]
Swapped(e, s) == [e EXCEPT !.pres = FALSE, !.swap = TRUE, !.base = s]

\* Pages are counted linearly by v_add_counter, whose 32 bits wrap at Top.
Top      == NEnt * NEnt
VPage(k) == <<k \div NEnt, k % NEnt>>
Run(k, n) == {VPage(j % Top) : j \in k .. k + n - 1}

\* The pages of the blocks of process p.
Owned(p) == UNION {Run(NEnt * b[1][1] + b[1][2], b[2]) : b \in blocks[p]}

\* The entry <<table, index>> of the table that directory pd names for page w.
PteAddr(pd, w) == <<ent[<<pd, w[1]>>].base, w[2]>>

\* What the hardware finds when it translates w under directory pd.
Resident(pd, w) == ent[<<pd, w[1]>>].pres /\ ent[PteAddr(pd, w)].pres

Pdbr(q) == IF q = Sys THEN GoldenPd ELSE pdbr[q]

Executing(p) == currpid = p /\ pc[p] = "user" /\ victim[p] = None

PdptFull == pdptUsed >= NPdpt
FssFull  == fssUsed >= NFss

(***************************************************************************)
(* The trackers.  A free page is the first available one; the scan has no  *)
(* bound, so a step that needs a page when none is left is not a step of   *)
(* the model (the properties PdptFullIsTold and SwapHasRoom are about it). *)
(***************************************************************************)
IsFirst(x, S, free) == x \in S /\ free[x] /\ \A y \in S : free[y] => x <= y

\* One free table for each directory entry in Need, in the order of the entries.
FirstFit(alloc, Need) ==
  /\ \A d \in Need : pdptAvail[alloc[d]]
  /\ \A d, e \in Need : d < e => alloc[d] < alloc[e]
  /\ \A t \in Pdpt, d \in Need :
       pdptAvail[t] /\ t < alloc[d] => \E e \in Need : alloc[e] = t

\* A used counter after k pages of its region were removed.
Less_OneMore(used, k) == used - (k + 1)
Less(used, k) == IF used < k THEN 0 ELSE used - k

\* The pages mapped by the table entries A go back to their regions; the
\* trackers keep the pte_addr of a frame that is available again.
Reclaim_FramesOnly(A) ==
  LET frames == {a \in A : ent[a].pres /\ ~ent[a].swap /\ ent[a].base \in Fss}
  IN  /\ fssAvail' = [f \in Fss |-> fssAvail[f] \/ \E a \in frames : ent[a].base = f]
      /\ fssUsed' = Less(fssUsed, Cardinality(frames))
      /\ UNCHANGED <<fssPte, swapVars, data>>
Reclaim(A) ==
  LET frames == {a \in A : ent[a].pres /\ ~ent[a].swap /\ ent[a].base \in Fss}
      slots  == {a \in A : ~ent[a].pres /\ ent[a].swap /\ ent[a].base \in Swap}
  IN  /\ fssAvail' = [f \in Fss |-> fssAvail[f] \/ \E a \in frames : ent[a].base = f]
      /\ fssUsed' = Less(fssUsed, Cardinality(frames))
      /\ swapAvail' = [s \in Swap |-> swapAvail[s] \/ \E a \in slots : ent[a].base = s]
      /\ swapUsed' = Less(swapUsed, Cardinality(slots))
      /\ UNCHANGED <<fssPte, data>>

DropTables_KeepFirst(T) ==
  /\ pdptAvail' = [t \in Pdpt |-> pdptAvail[t] \/ (t \in T /\ \E u \in T : u < t)]
  /\ pdptUsed' = Less(pdptUsed, Cardinality(T))
DropTables(T) ==
  /\ pdptAvail' = [t \in Pdpt |-> pdptAvail[t] \/ t \in T]
  /\ pdptUsed' = Less(pdptUsed, Cardinality(T))

\* The entries of freed tables are cleared with them.
Cleared(pdes, ptes) == [a \in Addr |-> IF a \in pdes \cup ptes THEN Zero ELSE ent[a]]

\* Everything reachable from directory pd beyond the kernel entries, and pd.
Release(pd) ==
  LET pdes   == {a \in Addr : a[1] = pd /\ a[2] \in Released /\ ent[a].valid}
      tables == {ent[a].base : a \in pdes}
      ptes   == {a \in Addr : a[1] \in tables /\ (ent[a].valid \/ ent[a].pres)}
  IN  /\ Reclaim(ptes)
      /\ DropTables(tables \cup {pd})
      /\ ent' = Cleared(pdes, ptes)
      /\ allHeap' = (allHeap - Cardinality(ptes)) % Word

(***************************************************************************)
(* Scheduling, as far as paging can tell: any process that exists may be   *)
(* given the processor when interrupts are enabled, and resched loads its  *)
(* directory.  The dispatcher is entered through a trap gate, so that a    *)
(* clock interrupt may also fall between the fault and the dispatcher's    *)
(* cli (hazard "stub").  A process that kill() is about to remove stays    *)
(* off the processor unless "killrace" is admitted.                        *)
(***************************************************************************)
MayRun(q) ==
  q # Sys => /\ alive[q]
             /\ "killrace" \in Hazards \/ \A k \in Thread : victim[k] # q

\* The processor goes to some process other than the ones in Except.
SwitchAway(Except) ==
  \E q \in Thread \ Except : MayRun(q) /\ currpid' = q /\ cr3' = Pdbr(q)

Preempt ==
  /\ \/ Executing(currpid)
     \/ pc[currpid] = "fault" /\ "stub" \in Hazards
  /\ SwitchAway({currpid})
  /\ UNCHANGED <<tabVars, fssVars, swapVars, heapVars, procVars, data, pc, victim, cr2>>

(***************************************************************************)
(* vcreate: a directory, with the kernel entries of the golden one.        *)
(* reset_pd leaves the valid bits of the frame as it finds them.           *)
(***************************************************************************)
Vcreate(p) ==
  /\ Executing(currpid) /\ ~alive[p] /\ ~PdptFull
  /\ \E t \in Pdpt :
       /\ IsFirst(t, Pdpt, pdptAvail)
       /\ pdptAvail' = [pdptAvail EXCEPT ![t] = FALSE]
       /\ pdbr' = [pdbr EXCEPT ![p] = t]
       /\ ent' = [a \in Addr |->
            IF a[1] # t THEN ent[a]
            ELSE IF a[2] \in Kernel THEN ent[<<GoldenPd, a[2]>>]
            ELSE [Zero EXCEPT !.valid = ent[a].valid]]
  /\ pdptUsed' = pdptUsed + 1
  /\ alive' = [alive EXCEPT ![p] = TRUE]
  /\ vAdd' = [vAdd EXCEPT ![p] = NEnt * HeapIdx]
  /\ avail' = [avail EXCEPT ![p] = HSize]
  /\ UNCHANGED <<fssVars, swapVars, ctlVars, allHeap, blocks, data>>

(***************************************************************************)
(* vmalloc.  Whether n more pages stay within MAX_HEAP_SIZE, and the       *)
(* directory entries of the n pages that start at the counter's value k.   *)
(***************************************************************************)
Fits_NotCounting(n) == allHeap <= MaxHeap
Fits(n) == (n + allHeap) % Word <= MaxHeap

Dirs_FirstOnly(k, n) == {k \div NEnt}
Dirs(k, n) == {k \div NEnt} \cup k \div NEnt .. ((k + n - 1) % Top) \div NEnt

\* vmalloc runs on the golden directory; the paths that return SYSERR leave the
\* processor there, and the second one also leaves the pages in ALL_HEAP_SIZE.
VmallocOverMaxHeap(p, n) ==
  /\ Executing(p) /\ ~Fits(n)
  /\ cr3' = GoldenPd
  /\ UNCHANGED <<tabVars, fssVars, swapVars, heapVars, procVars, data, pc, victim, currpid, cr2>>

VmallocOverProcHeap(p, n) ==
  /\ Executing(p) /\ Fits(n)
  /\ n > avail[p]
  /\ allHeap' = (n + allHeap) % Word
  /\ cr3' = GoldenPd
  /\ UNCHANGED <<tabVars, fssVars, swapVars, procVars, data, vAdd, avail, blocks,
                 pc, victim, currpid, cr2>>

\* The entries once directory pd names the tables alloc gives its missing ones,
\* reset but for their valid and swap bits, and the entries fresh are validated.
WithTables(pd, alloc, fresh) ==
  LET missing == DOMAIN alloc
      taken   == {alloc[d] : d \in missing}
      Reset(e)    == [e EXCEPT !.pres = FALSE, !.base = 0]
      Validate(e) == [e EXCEPT !.valid = TRUE, !.pres = FALSE, !.swap = FALSE]
      Table(a)    == IF a[1] \in taken THEN Reset(ent[a]) ELSE ent[a]
  IN  [a \in Addr |->
         IF a[1] = pd /\ a[2] \in missing THEN Mapping(alloc[a[2]])
         ELSE IF a \in fresh THEN Validate(Table(a)) ELSE Table(a)]

Vmalloc(p, n) ==
  LET dirs    == Dirs(vAdd[p], n)
      missing == {d \in dirs : ~ent[<<pdbr[p], d>>].pres}
      new     == {w \in dirs \X Idx : \E k \in vAdd[p] .. vAdd[p] + n - 1 : w = VPage(k)}
  IN
  /\ Executing(p) /\ Fits(n) /\ n <= avail[p]
  /\ "wrap" \in Hazards \/ vAdd[p] + n < Top
  /\ missing = {} \/ pdptUsed + Cardinality(missing) <= NPdpt
  /\ \E alloc \in [missing -> Pdpt] :
       LET table(d) == IF d \in missing THEN alloc[d] ELSE ent[<<pdbr[p], d>>].base
       IN  /\ FirstFit(alloc, missing)
           /\ pdptAvail' = [t \in Pdpt |->
                pdptAvail[t] /\ \A d \in missing : t # alloc[d]]
           /\ ent' = WithTables(pdbr[p], alloc, {<<table(w[1]), w[2]>> : w \in new})
  /\ pdptUsed' = pdptUsed + Cardinality(missing)
  /\ allHeap' = (n + allHeap) % Word
  /\ vAdd' = [vAdd EXCEPT ![p] = (@ + n) % Top]
  /\ avail' = [avail EXCEPT ![p] = @ - n]
  /\ blocks' = [blocks EXCEPT ![p] = @ \cup {<<VPage(vAdd[p]), n>>}]
  /\ UNCHANGED <<fssVars, swapVars, procVars, ctlVars, data>>

(***************************************************************************)
(* vfree of the block of n pages at w.  The pages are found by a walk that *)
(* starts at the same index in each of the ceil(n / NEnt) tables it visits *)
(* (hazard "straddle": a block for which that is not where its pages are). *)
(***************************************************************************)
VfreeRefused(p, n) ==
  /\ Executing(p)
  /\ "badfree" \in Hazards /\ n > HSize - avail[p]
  /\ allHeap' = (allHeap - n) % Word
  /\ cr3' = GoldenPd
  /\ UNCHANGED <<tabVars, fssVars, swapVars, procVars, data, vAdd, avail, blocks,
                 pc, victim, currpid, cr2>>

Vfree(p, w, n) ==
  LET dirs    == w[1] .. w[1] + (n + NEnt - 1) \div NEnt - 1
      walked  == {x \in dirs \X (w[2] .. NEnt - 1) :
                    (x[1] - w[1]) * (NEnt - w[2]) + x[2] - w[2] < n}
      ptes    == {PteAddr(pdbr[p], x) : x \in walked}
      emptied == {d \in dirs : \A i \in Idx :
                    LET a == PteAddr(pdbr[p], <<d, i>>)
                    IN  a \in ptes \/ (~ent[a].valid /\ ~ent[a].pres)}
      pdes    == {<<pdbr[p], d>> : d \in emptied}
  IN
  /\ Executing(p) /\ <<w, n>> \in blocks[p] /\ n <= HSize - avail[p]
  /\ "straddle" \in Hazards \/ w[2] = 0 \/ w[2] + n <= NEnt
  /\ \A d \in dirs : d \in Idx /\ ent[<<pdbr[p], d>>].base \in Pdpt
  /\ Reclaim(ptes)
  /\ DropTables({ent[a].base : a \in pdes})
  /\ ent' = Cleared(pdes, ptes)
  /\ allHeap' = (allHeap - n) % Word
  /\ avail' = [avail EXCEPT ![p] = @ + Cardinality(walked)]
  /\ blocks' = [blocks EXCEPT ![p] = @ \ {<<w, n>>}]
  /\ UNCHANGED <<procVars, ctlVars, vAdd>>

(***************************************************************************)
(* Memory accesses.  A disciplined program touches pages of its blocks, or *)
(* addresses for which its directory has no table, and does so under its   *)
(* own directory (hazards "wild" and "golden").                            *)
(***************************************************************************)
MayAccess(p, w) ==
  /\ \/ w \in Owned(p)
     \/ ~ent[<<pdbr[p], w[1]>>].pres
     \/ "wild" \in Hazards /\ w[1] >= HeapIdx
  /\ cr3 = pdbr[p] \/ "golden" \in Hazards

Store(p, w, x) ==
  /\ Executing(p) /\ MayAccess(p, w) /\ Resident(cr3, w)
  /\ data' = [data EXCEPT ![ent[PteAddr(cr3, w)].base] = x]
  /\ UNCHANGED <<tabVars, fssVars, swapVars, heapVars, procVars, ctlVars>>

Fault(p, w) ==
  /\ Executing(p) /\ MayAccess(p, w) /\ ~Resident(cr3, w)
  /\ pc' = [pc EXCEPT ![p] = "fault"]
  /\ cr2' = w
  /\ UNCHANGED <<tabVars, fssVars, swapVars, heapVars, procVars, data, victim, currpid, cr3>>

(***************************************************************************)
(* pagefault_handler: it takes the address from cr2 and the tables of the  *)
(* current process, whose entry is the faulting page's.                    *)
(***************************************************************************)
Faulting(p) ==
  /\ currpid = p /\ pc[p] = "fault"
  /\ ent[<<pdbr[p], cr2[1]>>].valid /\ ent[<<pdbr[p], cr2[1]>>].pres

FaultPte(p) == PteAddr(pdbr[p], cr2)

\* Entry a now maps frame f, in the entries E; the access is retried.
Install_KeepPteAddr(p, E, a, f) ==
  /\ ent' = [E EXCEPT ![a] = Present(@, f)]
  /\ fssPte' = IF FssFull THEN fssPte ELSE [fssPte EXCEPT ![f] = a]
  /\ pc' = [pc EXCEPT ![p] = "user"]
  /\ UNCHANGED <<pdptAvail, pdptUsed, heapVars, procVars, victim, currpid, cr3, cr2>>
Install(p, E, a, f) ==
  /\ ent' = [E EXCEPT ![a] = Present(@, f)]
  /\ fssPte' = [fssPte EXCEPT ![f] = a]
  /\ pc' = [pc EXCEPT ![p] = "user"]
  /\ UNCHANGED <<pdptAvail, pdptUsed, heapVars, procVars, victim, currpid, cr3, cr2>>

\* The entry that maps frame f says that its page is in slot s.
SwappedOut(f, s) ==
  [ent EXCEPT ![fssPte[f]] = Swapped(@, s)]

TakeFrame_NotCounted(f) ==
  /\ ~FssFull /\ IsFirst(f, Fss, fssAvail)
  /\ fssAvail' = [fssAvail EXCEPT ![f] = FALSE]
  /\ UNCHANGED fssUsed
TakeFrame(f) ==
  /\ ~FssFull /\ IsFirst(f, Fss, fssAvail)
  /\ fssAvail' = [fssAvail EXCEPT ![f] = FALSE]
  /\ fssUsed' = fssUsed + 1

FirstTouch(p, f) ==
  /\ Faulting(p) /\ ~ent[FaultPte(p)].swap
  /\ TakeFrame(f)
  /\ Install(p, ent, FaultPte(p), f)
  /\ UNCHANGED <<swapVars, data>>

FirstTouchEvict(p, f, s) ==
  /\ Faulting(p) /\ ~ent[FaultPte(p)].swap
  /\ FssFull /\ IsFirst(s, Swap, swapAvail)
  /\ swapAvail' = [swapAvail EXCEPT ![s] = FALSE]
  /\ swapUsed' = swapUsed + 1
  /\ data' = [data EXCEPT ![s] = data[f]]
  /\ Install(p, SwappedOut(f, s), FaultPte(p), f)
  /\ UNCHANGED <<fssAvail, fssUsed>>

SwapIn(p, f) ==
  LET s == ent[FaultPte(p)].base IN
  /\ Faulting(p) /\ ent[FaultPte(p)].swap /\ s \in Swap
  /\ TakeFrame(f)
  /\ data' = [data EXCEPT ![f] = data[s]]
  /\ swapAvail' = [swapAvail EXCEPT ![s] = TRUE]
  /\ swapUsed' = Less(swapUsed, 1)
  /\ Install(p, ent, FaultPte(p), f)

SwapInEvict(p, f) ==
  LET s == ent[FaultPte(p)].base IN
  /\ Faulting(p) /\ ent[FaultPte(p)].swap /\ s \in Swap
  /\ FssFull
  /\ data' = [data EXCEPT ![f] = data[s], ![s] = data[f]]
  /\ Install(p, SwappedOut(f, s), FaultPte(p), f)
  /\ UNCHANGED <<fssAvail, fssUsed, swapVars>>

(***************************************************************************)
(* kill.  The first thing it does is send the parent a message, which may  *)
(* switch to the parent before anything was taken from the process.        *)
(***************************************************************************)
EnterKill(p) ==
  /\ pc' = [pc EXCEPT ![p] = "dying"]
  /\ UNCHANGED <<tabVars, fssVars, swapVars, heapVars, procVars, data, victim, cr2>>

\* A process returns from its function (INITRET) or kills itself.
Exit(p) ==
  /\ Executing(p)
  /\ UNCHANGED <<currpid, cr3>> \/ SwitchAway({p})
  /\ EnterKill(p)

\* The directory entry of the address is not valid: the handler calls kill.
SegmentationFault(p) ==
  /\ currpid = p /\ pc[p] = "fault"
  /\ ~ent[<<pdbr[p], cr2[1]>>].valid \/ ~ent[<<pdbr[p], cr2[1]>>].pres
  /\ (UNCHANGED currpid /\ cr3' = GoldenPd) \/ SwitchAway({p})
  /\ EnterKill(p)

\* State, list and memory of p are gone; whatever it was doing is forgotten.
Bury(p) ==
  /\ alive' = [alive EXCEPT ![p] = FALSE]
  /\ blocks' = [blocks EXCEPT ![p] = {}]
  /\ pc' = [pc EXCEPT ![p] = "user"]
  /\ Release(pdbr[p])
  /\ UNCHANGED <<pdbr, vAdd, avail, cr2>>

FinishExit(p) ==
  /\ currpid = p /\ pc[p] = "dying"
  /\ Bury(p)
  /\ victim' = [victim EXCEPT ![p] = None]
  /\ SwitchAway({p})

KillOther(k, p) ==
  /\ Executing(k) /\ p # k /\ alive[p]
  /\ "killrace" \in Hazards \/ \A t \in Thread : victim[t] # p
  /\ victim' = [victim EXCEPT ![k] = p]
  /\ UNCHANGED <<currpid, cr3>> \/ SwitchAway(IF "killrace" \in Hazards THEN {k} ELSE {k, p})
  /\ UNCHANGED <<tabVars, fssVars, swapVars, heapVars, procVars, data, pc, cr2>>

FinishKillOther(k, p) ==
  /\ currpid = k /\ victim[k] = p
  /\ Bury(p)
  /\ victim' = [victim EXCEPT ![k] = None, ![p] = None]
  /\ cr3' = GoldenPd
  /\ UNCHANGED currpid

(***************************************************************************)
(* initialize_v_mappings takes the golden directory and its tables before  *)
(* sysinit sets the three used counters to zero.                           *)
(***************************************************************************)
Init ==
  /\ ent = [a \in Addr |->
       IF a[1] = GoldenPd THEN IF a[2] < NGold THEN Mapping(a[2] + 2) ELSE Zero
       ELSE IF a[1] \in Golden THEN Mapping(0) ELSE Zero]
  /\ pdptAvail = [t \in Pdpt |-> t \notin Golden] /\ pdptUsed = 0
  /\ fssAvail = [f \in Fss |-> TRUE] /\ fssUsed = 0
  /\ fssPte = [f \in Fss |-> <<0, 0>>]
  /\ swapAvail = [s \in Swap |-> TRUE] /\ swapUsed = 0
  /\ allHeap = 0
  /\ data \in {[x \in Fss \cup Swap |-> v] : v \in Data}
  /\ alive = [p \in Proc |-> FALSE] /\ pdbr = [p \in Proc |-> GoldenPd]
  /\ vAdd = [p \in Proc |-> 0] /\ avail = [p \in Proc |-> 0]
  /\ blocks = [p \in Proc |-> {}]
  /\ pc = [q \in Thread |-> "user"] /\ victim = [q \in Thread |-> None]
  /\ currpid = Sys /\ cr3 = GoldenPd /\ cr2 = <<0, 0>>

Next ==
  \/ Preempt
  \/ \E p \in Proc :
       \/ Vcreate(p)
       \/ \E n \in Sizes :
            \/ VmallocOverMaxHeap(p, n) \/ VmallocOverProcHeap(p, n) \/ Vmalloc(p, n)
            \/ VfreeRefused(p, n)
       \/ \E b \in blocks[p] : Vfree(p, b[1], b[2])
       \/ \E w \in Idx \X Idx : Fault(p, w) \/ \E x \in Data : Store(p, w, x)
       \/ \E f \in Fss :
            \/ FirstTouch(p, f) \/ SwapIn(p, f) \/ SwapInEvict(p, f)
            \/ \E s \in Swap : FirstTouchEvict(p, f, s)
       \/ Exit(p) \/ SegmentationFault(p) \/ FinishExit(p)
       \/ \E k \in Thread : KillOther(k, p) \/ FinishKillOther(k, p)

Spec == Init /\ [][Next]_vars
==============================================================================
