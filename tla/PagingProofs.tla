----------------------------- MODULE PagingProofs -----------------------------
(***************************************************************************)
(* Proofs about Paging, for every number of processes, tables, frames,     *)
(* slots and entries and every size of block: types are kept; tables and   *)
(* frames are neither leaked nor shared; the pages of blocks are mapped,   *)
(* slots of the swap region neither leaked nor shared; the used counters   *)
(* are exact; and Paging implements AddressSpace.                          *)
(***************************************************************************)
EXTENDS PagingInvariant, PagingRefinement, FiniteSetTheorems, TLAPS

-------------------------------------------------------------------------------
(***************************************************************************)
(* Numbers: pages of the three regions, and virtual pages counted linearly.*)
(***************************************************************************)

\* Every region lies in Base, and the regions are apart from each other.
LEMMA Regions ==
  /\ NEnt \in Nat /\ NEnt > 1 /\ NPdpt \in Nat /\ NFss \in Nat /\ NSwap \in Nat
  /\ 0 \in Base /\ 0 \in Idx /\ GoldenPd \in Pdpt /\ Golden \subseteq Pdpt
  /\ Pdpt \subseteq Base /\ Fss \subseteq Base /\ Swap \subseteq Base
  /\ Pdpt \cap Fss = {} /\ Fss \cap Swap = {} /\ Pdpt \cap Swap = {}
  /\ Base \subseteq Nat /\ Idx \subseteq Nat
  BY PagingAssumption DEF Base, Idx, GoldenPd, Pdpt, Fss, Swap, Golden

\* The two indices of a linear page number are indices.
LEMMA DivMod ==
  ASSUME NEW n \in Nat, n > 0, NEW a \in 0 .. n - 1, NEW b \in 0 .. n - 1
  PROVE  n * a + b \in 0 .. n * n - 1
<1>1. a * n <= (n - 1) * n
  BY SMT
<1> QED
  BY <1>1, SMT

LEMMA DivFacts ==
  ASSUME NEW n \in Nat, n > 0, NEW j \in Nat
  PROVE  /\ j \div n \in Nat /\ j % n \in 0 .. n - 1 /\ n * (j \div n) + (j % n) = j
         /\ \A h \in Nat : n * h <= j => h <= j \div n
<1>1. j \div n \in Nat /\ j % n \in 0 .. n - 1 /\ n * (j \div n) + (j % n) = j
  BY SMT
<1>2. ASSUME NEW h \in Nat, n * h <= j, j \div n < h
      PROVE  FALSE
  <2> DEFINE q == j \div n
  <2>1. q \in Nat /\ q + 1 <= h /\ j < n * q + n
    BY <1>1, <1>2
  <2> HIDE DEF q
  <2>2. PICK e \in Nat : h = q + 1 + e
    <3>1. h - q - 1 \in Nat /\ h = q + 1 + (h - q - 1)
      BY <2>1
    <3> QED
      BY <3>1
  <2>3. n * h = n * q + n + n * e /\ n * e >= 0
    BY <2>1, <2>2, SMT
  <2>4. n * q \in Nat /\ n * e \in Nat /\ n * h \in Nat
    BY <2>1, SMT
  <2> QED
    BY <1>2, <2>1, <2>3, <2>4
<1> QED
  BY <1>1, <1>2

LEMMA VPageType ==
  ASSUME NEW k \in 0 .. Top - 1
  PROVE  VPage(k) \in Idx \X Idx
<1>1. NEnt \in Nat /\ NEnt > 1
  BY Regions
<1>2. k \in Nat /\ k < NEnt * NEnt
  BY <1>1 DEF Top
<1>3. k \div NEnt \in 0 .. NEnt - 1
  BY <1>1, <1>2, SMT
<1>4. k % NEnt \in 0 .. NEnt - 1
  BY <1>1, <1>2, SMT
<1> QED
  BY <1>3, <1>4 DEF VPage, Idx

LEMMA DirsType ==
  ASSUME NEW k \in 0 .. Top - 1, NEW n \in Nat, n > 0
  PROVE  Dirs(k, n) \in SUBSET Idx
<1>1. Top \in Nat /\ Top > 0
  BY Regions DEF Top
<1>2. (k + n - 1) % Top \in 0 .. Top - 1
  BY <1>1
<1>3. k \div NEnt \in Idx /\ ((k + n - 1) % Top) \div NEnt \in Idx
  BY <1>2, VPageType DEF VPage
<1> QED
  BY <1>3, Regions DEF Dirs, Idx

\* The sets that the code counts are finite.
LEMMA Finite ==
  /\ IsFiniteSet(Idx) /\ IsFiniteSet(Pdpt) /\ IsFiniteSet(Fss) /\ IsFiniteSet(Swap)
  /\ IsFiniteSet(Addr) /\ IsFiniteSet(Base)
  /\ \A S : S \in SUBSET Addr => IsFiniteSet(S) /\ Cardinality(S) \in Nat
<1>1. /\ IsFiniteSet(Idx) /\ IsFiniteSet(Pdpt) /\ IsFiniteSet(Fss) /\ IsFiniteSet(Swap)
      /\ IsFiniteSet(Base)
  BY Regions, FS_Interval DEF Idx, Pdpt, Fss, Swap, Base
<1>2. IsFiniteSet(Addr)
  BY <1>1, FS_Product DEF Addr
<1>3. ASSUME NEW S \in SUBSET Addr
      PROVE  IsFiniteSet(S) /\ Cardinality(S) \in Nat
  BY <1>2, FS_Subset, FS_CardinalityType
<1> QED
  BY <1>1, <1>2, <1>3
-------------------------------------------------------------------------------
(***************************************************************************)
(* Types.                                                                  *)
(***************************************************************************)
LEMMA EntryType ==
  /\ Zero \in Entry /\ \A b \in Base : Mapping(b) \in Entry
  /\ \A e \in Entry, v, q, s \in BOOLEAN, b \in Base :
       [e EXCEPT !.valid = v, !.pres = q, !.swap = s, !.base = b] \in Entry
  BY Regions DEF Entry, Zero, Mapping

\* The fields of an entry after the handler wrote it.
LEMMA WrittenEntry ==
  ASSUME NEW e \in Entry, NEW b \in Base
  PROVE  /\ Present(e, b) \in Entry /\ Swapped(e, b) \in Entry
         /\ Present(e, b).valid = e.valid /\ Present(e, b).pres = TRUE
         /\ Present(e, b).swap = FALSE /\ Present(e, b).base = b
         /\ Swapped(e, b).valid = e.valid /\ Swapped(e, b).pres = FALSE
         /\ Swapped(e, b).swap = TRUE /\ Swapped(e, b).base = b
  BY DEF Entry, Present, Swapped

\* A used counter stays a natural number whatever is subtracted.
LEMMA LessType ==
  ASSUME NEW u \in Nat, NEW k \in Nat
  PROVE  Less(u, k) \in Nat /\ (k <= u => Less(u, k) = u - k)
  BY DEF Less

\* What is given back is a set of entries, however the code finds it.
LEMMA ReclaimType ==
  ASSUME TypeOK, NEW A \in SUBSET Addr, Reclaim(A)
  PROVE  /\ fssAvail' \in [Fss -> BOOLEAN] /\ fssUsed' \in Nat
         /\ swapAvail' \in [Swap -> BOOLEAN] /\ swapUsed' \in Nat
         /\ fssPte' = fssPte /\ data' = data
<1>1. /\ Cardinality({a \in A : ent[a].pres /\ ~ent[a].swap /\ ent[a].base \in Fss}) \in Nat
      /\ Cardinality({a \in A : ~ent[a].pres /\ ent[a].swap /\ ent[a].base \in Swap}) \in Nat
  BY Finite
<1> QED
  BY <1>1, LessType DEF Reclaim, TypeOK

LEMMA DropTablesType ==
  ASSUME TypeOK, NEW T \in SUBSET Base, DropTables(T)
  PROVE  pdptAvail' \in [Pdpt -> BOOLEAN] /\ pdptUsed' \in Nat
<1>1. Cardinality(T) \in Nat
  BY Finite, FS_Subset, FS_CardinalityType
<1> QED
  BY <1>1, LessType DEF DropTables, TypeOK

LEMMA ClearedType ==
  ASSUME TypeOK, NEW X, NEW Y
  PROVE  Cleared(X, Y) \in [Addr -> Entry]
  BY EntryType DEF TypeOK, Cleared

LEMMA SwitchType ==
  ASSUME TypeOK, NEW E, SwitchAway(E)
  PROVE  currpid' \in Thread /\ cr3' \in Pdpt
  BY Regions DEF TypeOK, SwitchAway, Thread, Pdbr
LEMMA InstallType ==
  ASSUME TypeOK, NEW p \in Proc, NEW E \in [Addr -> Entry], NEW i \in Idx, NEW t \in Base,
         NEW f \in Fss, Install(p, E, <<t, i>>, f)
  PROVE  /\ ent' \in [Addr -> Entry] /\ fssPte' \in [Fss -> Base \X Idx]
         /\ pc' \in [Thread -> {"user", "fault", "dying"}]
  BY Regions, WrittenEntry DEF TypeOK, Install, Thread

LEMMA SwappedOutType ==
  ASSUME TypeOK, NEW f \in Fss, NEW s \in Swap
  PROVE  SwappedOut(f, s) \in [Addr -> Entry]
  BY Regions, WrittenEntry DEF TypeOK, SwappedOut

LEMMA BuryType ==
  ASSUME TypeOK, NEW p \in Proc, Bury(p), currpid' \in Thread, cr3' \in Pdpt,
         victim' \in [Thread -> Proc \cup {None}]
  PROVE  TypeOK'
<1> DEFINE pdes   == {a \in Addr : a[1] = pdbr[p] /\ a[2] \in Released /\ ent[a].valid}
           tables == {ent[a].base : a \in pdes}
           ptes   == {a \in Addr : a[1] \in tables /\ (ent[a].valid \/ ent[a].pres)}
<1>1. ptes \in SUBSET Addr /\ Cardinality(ptes) \in Nat
  BY Finite
<1>2. tables \cup {pdbr[p]} \in SUBSET Base
  <2>1. \A a \in Addr : ent[a].base \in Base
    BY DEF TypeOK, Entry
  <2>2. pdbr[p] \in Base
    BY Regions DEF TypeOK
  <2>3. tables \subseteq Base
    BY <2>1
  <2> QED
    BY <2>2, <2>3
<1>3. /\ Reclaim(ptes) /\ DropTables(tables \cup {pdbr[p]}) /\ ent' = Cleared(pdes, ptes)
      /\ allHeap' = (allHeap - Cardinality(ptes)) % Word
  BY DEF Bury, Release
<1>4. allHeap' \in 0 .. Word - 1
  BY <1>1, <1>3, PagingAssumption DEF TypeOK
<1>5. ent' \in [Addr -> Entry]
  BY <1>3, ClearedType
<1> HIDE DEF pdes, tables, ptes
<1>6. /\ pdptAvail' \in [Pdpt -> BOOLEAN] /\ pdptUsed' \in Nat
      /\ fssAvail' \in [Fss -> BOOLEAN] /\ fssUsed' \in Nat
      /\ swapAvail' \in [Swap -> BOOLEAN] /\ swapUsed' \in Nat
      /\ fssPte' = fssPte /\ data' = data
  BY <1>1, <1>2, <1>3, ReclaimType, DropTablesType
<1> QED
  BY <1>4, <1>5, <1>6 DEF TypeOK, Bury, Thread
LEMMA WithTablesType ==
  ASSUME TypeOK, NEW pd, NEW M, NEW alloc \in [M -> Pdpt], NEW fresh
  PROVE  WithTables(pd, alloc, fresh) \in [Addr -> Entry]
<1>1. \A e \in Entry :
        /\ [e EXCEPT !.pres = FALSE, !.base = 0] \in Entry
        /\ [e EXCEPT !.valid = TRUE, !.pres = FALSE, !.swap = FALSE] \in Entry
  BY Regions DEF Entry
<1>2. \A b \in Pdpt : Mapping(b) \in Entry
  BY EntryType, Regions
<1> QED
  BY <1>1, <1>2 DEF TypeOK, WithTables

LEMMA VmallocType ==
  ASSUME TypeOK, NEW p \in Proc, NEW n \in Sizes, Vmalloc(p, n)
  PROVE  TypeOK'
<1> DEFINE missing == {d \in Dirs(vAdd[p], n) : ~ent[<<pdbr[p], d>>].pres}
<1>1. n \in Nat /\ n > 0 /\ n \in Sizes /\ allHeap' \in 0 .. Word - 1
  BY PagingAssumption DEF TypeOK, Vmalloc
<1>2. VPage(vAdd[p]) \in Idx \X Idx /\ vAdd' \in [Proc -> 0 .. Top - 1]
  <2>1. vAdd[p] \in 0 .. Top - 1 /\ Top \in Nat /\ Top > 0
    BY Regions DEF TypeOK, Top
  <2>2. (vAdd[p] + n) % Top \in 0 .. Top - 1
    BY <1>1, <2>1
  <2> QED
    BY <2>1, <2>2, VPageType DEF TypeOK, Vmalloc
<1>3. avail' \in [Proc -> Nat] /\ blocks' \in [Proc -> SUBSET ((Idx \X Idx) \X Sizes)]
  BY <1>1, <1>2 DEF TypeOK, Vmalloc
<1>4. PICK alloc \in [missing -> Pdpt] :
        /\ pdptAvail' = [t \in Pdpt |-> pdptAvail[t] /\ \A d \in missing : t # alloc[d]]
        /\ \E fresh : ent' = WithTables(pdbr[p], alloc, fresh)
  BY DEF Vmalloc
<1>5. ent' \in [Addr -> Entry]
  BY <1>4, WithTablesType, ZenonT(30)
<1>6. pdptUsed' \in Nat
  <2>1. missing \in SUBSET Idx
    <3>1. Dirs(vAdd[p], n) \in SUBSET Idx
      BY <1>1, DirsType DEF TypeOK
    <3> QED
      BY <3>1
  <2>2. Cardinality(missing) \in Nat
    BY <2>1, Finite, FS_Subset, FS_CardinalityType
  <2>3. pdptUsed' = pdptUsed + Cardinality(missing)
    BY DEF Vmalloc
  <2> QED
    BY <2>2, <2>3 DEF TypeOK
<1> QED
  BY <1>1, <1>2, <1>3, <1>4, <1>5, <1>6 DEF TypeOK, Vmalloc, fssVars, swapVars, procVars, ctlVars
LEMMA VfreeType ==
  ASSUME TypeOK, NEW p \in Proc, NEW b \in blocks[p], Vfree(p, b[1], b[2])
  PROVE  TypeOK'
<1> DEFINE w      == b[1]
           n      == b[2]
           dirs    == w[1] .. w[1] + (n + NEnt - 1) \div NEnt - 1
           walked  == {x \in dirs \X (w[2] .. NEnt - 1) :
                         (x[1] - w[1]) * (NEnt - w[2]) + x[2] - w[2] < n}
           ptes    == {PteAddr(pdbr[p], x) : x \in walked}
           emptied == {d \in dirs : \A i \in Idx :
                         LET a == PteAddr(pdbr[p], <<d, i>>)
                         IN  a \in ptes \/ (~ent[a].valid /\ ~ent[a].pres)}
           pdes    == {<<pdbr[p], d>> : d \in emptied}
<1>1. /\ \A d \in dirs : d \in Idx /\ ent[<<pdbr[p], d>>].base \in Pdpt
      /\ Reclaim(ptes)
      /\ DropTables({ent[a].base : a \in pdes})
      /\ ent' = Cleared(pdes, ptes)
      /\ allHeap' = (allHeap - n) % Word
      /\ avail' = [avail EXCEPT ![p] = @ + Cardinality(walked)]
      /\ blocks' = [blocks EXCEPT ![p] = @ \ {<<w, n>>}]
      /\ UNCHANGED <<procVars, ctlVars, vAdd>>
  BY DEF Vfree
<1>2. w \in Idx \X Idx /\ n \in Sizes /\ n \in Nat
  <2>1. b \in (Idx \X Idx) \X Sizes
    BY DEF TypeOK
  <2> QED
    BY <2>1, PagingAssumption
<1>3. walked \in SUBSET (Idx \X Idx)
  <2>1. w[2] .. NEnt - 1 \subseteq Idx
    BY <1>2, Regions DEF Idx
  <2>2. dirs \subseteq Idx
    BY <1>1
  <2> HIDE DEF dirs, w, n
  <2>3. walked \subseteq dirs \X (w[2] .. NEnt - 1)
    OBVIOUS
  <2> HIDE DEF walked
  <2> QED
    BY <2>1, <2>2, <2>3
<1>4. Cardinality(walked) \in Nat
  <2>1. IsFiniteSet(Idx \X Idx)
    BY Finite, FS_Product
  <2> QED
    BY <2>1, <1>3, FS_Subset, FS_CardinalityType
<1>5. ptes \in SUBSET Addr
  <2>1. \A x \in walked : x[1] \in dirs /\ x[2] \in Idx
    BY <1>3
  <2> HIDE DEF dirs, walked
  <2>2. \A x \in walked : PteAddr(pdbr[p], x) \in Addr
    BY <2>1, <1>1 DEF PteAddr, Addr
  <2> QED
    BY <2>2
<1>6. {ent[a].base : a \in pdes} \in SUBSET Base
  BY <1>1, Regions
<1> HIDE DEF w, n, dirs, walked, ptes, emptied, pdes
<1>7. ent' \in [Addr -> Entry] /\ allHeap' \in 0 .. Word - 1 /\ avail' \in [Proc -> Nat]
  BY <1>1, <1>2, <1>4, ClearedType, PagingAssumption DEF TypeOK
<1>8. /\ pdptAvail' \in [Pdpt -> BOOLEAN] /\ pdptUsed' \in Nat
      /\ fssAvail' \in [Fss -> BOOLEAN] /\ fssUsed' \in Nat
      /\ swapAvail' \in [Swap -> BOOLEAN] /\ swapUsed' \in Nat
      /\ fssPte' = fssPte /\ data' = data
  BY <1>1, <1>5, <1>6, ReclaimType, DropTablesType
<1>9. blocks' \in [Proc -> SUBSET ((Idx \X Idx) \X Sizes)]
  BY <1>1 DEF TypeOK
<1> QED
  BY <1>1, <1>7, <1>8, <1>9 DEF TypeOK, procVars, ctlVars
LEMMA HandlerType ==
  ASSUME TypeOK, NEW p \in Proc, NEW f \in Fss,
         \/ FirstTouch(p, f) \/ SwapIn(p, f) \/ SwapInEvict(p, f)
         \/ \E s \in Swap : FirstTouchEvict(p, f, s)
  PROVE  TypeOK'
<1> DEFINE t == ent[<<pdbr[p], cr2[1]>>].base
<1>1. t \in Base /\ cr2[2] \in Idx /\ FaultPte(p) = <<t, cr2[2]>>
  <2>1. <<pdbr[p], cr2[1]>> \in Addr /\ cr2[2] \in Idx
    BY DEF TypeOK, Addr
  <2>2. ent[<<pdbr[p], cr2[1]>>] \in Entry
    BY <2>1 DEF TypeOK
  <2> QED
    BY <2>1, <2>2 DEF FaultPte, PteAddr, Entry
<1>2. PICK E \in [Addr -> Entry] : Install(p, E, <<t, cr2[2]>>, f)
  <2>1. CASE FirstTouch(p, f) \/ SwapIn(p, f)
    BY <1>1, <2>1 DEF FirstTouch, SwapIn, TypeOK
  <2>2. CASE SwapInEvict(p, f)
    BY <1>1, <2>2, SwappedOutType DEF SwapInEvict
  <2>3. CASE \E s \in Swap : FirstTouchEvict(p, f, s)
    BY <1>1, <2>3, SwappedOutType DEF FirstTouchEvict
  <2> QED
    BY <2>1, <2>2, <2>3
<1>3. /\ ent' \in [Addr -> Entry] /\ fssPte' \in [Fss -> Base \X Idx]
      /\ pc' \in [Thread -> {"user", "fault", "dying"}]
      /\ UNCHANGED <<pdptAvail, pdptUsed, heapVars, procVars, victim, currpid, cr3, cr2>>
  BY <1>1, <1>2, InstallType DEF Install
<1> DEFINE Trackers == /\ fssAvail' \in [Fss -> BOOLEAN] /\ fssUsed' \in Nat
                       /\ swapAvail' \in [Swap -> BOOLEAN] /\ swapUsed' \in Nat
                       /\ data' \in [Fss \cup Swap -> Data]
<1>4. Trackers
  <2>1. CASE FirstTouch(p, f)
    BY <2>1 DEF FirstTouch, TakeFrame, swapVars, TypeOK
  <2>2. CASE SwapIn(p, f)
    <3>1. /\ ent[FaultPte(p)].base \in Swap /\ TakeFrame(f)
          /\ data' = [data EXCEPT ![f] = data[ent[FaultPte(p)].base]]
          /\ swapAvail' = [swapAvail EXCEPT ![ent[FaultPte(p)].base] = TRUE]
          /\ swapUsed' = Less(swapUsed, 1)
      BY <2>2 DEF SwapIn
    <3> QED
      BY <3>1 DEF TakeFrame, Less, TypeOK
  <2>3. CASE SwapInEvict(p, f)
    <3>1. /\ ent[FaultPte(p)].base \in Swap /\ UNCHANGED <<fssAvail, fssUsed, swapVars>>
          /\ data' = [data EXCEPT ![f] = data[ent[FaultPte(p)].base],
                                 ![ent[FaultPte(p)].base] = data[f]]
      BY <2>3 DEF SwapInEvict
    <3> QED
      BY <3>1 DEF swapVars, TypeOK
  <2>4. ASSUME NEW s \in Swap, FirstTouchEvict(p, f, s)
        PROVE  Trackers
    BY <2>4 DEF FirstTouchEvict, TypeOK
  <2> QED
    BY <2>1, <2>2, <2>3, <2>4
<1> QED
  BY <1>3, <1>4 DEF heapVars, procVars, TypeOK

\* The steps that touch neither tables nor trackers nor processes' slots.
ControlStep ==
  \/ Preempt
  \/ \E p \in Proc :
       \/ \E n \in Sizes :
            VmallocOverMaxHeap(p, n) \/ VmallocOverProcHeap(p, n) \/ VfreeRefused(p, n)
       \/ \E w \in Idx \X Idx : Fault(p, w) \/ \E x \in Data : Store(p, w, x)
       \/ Exit(p) \/ SegmentationFault(p)
       \/ \E k \in Thread : KillOther(k, p)

LEMMA ControlFrame ==
  ASSUME ControlStep
  PROVE  UNCHANGED <<tabVars, fssVars, swapVars, procVars, vAdd, avail, blocks>>
  BY DEF ControlStep, Preempt, VmallocOverMaxHeap, VmallocOverProcHeap, VfreeRefused, Fault, Store,
         Exit, SegmentationFault, KillOther, EnterKill, heapVars

LEMMA ControlType ==
  ASSUME TypeOK, ControlStep
  PROVE  TypeOK'
<1>1. /\ UNCHANGED <<tabVars, fssVars, swapVars, procVars, vAdd, avail, blocks>>
  BY ControlFrame
<1>2. Proc \subseteq Thread /\ GoldenPd \in Pdpt
  BY Regions DEF Thread
<1> DEFINE Others == /\ allHeap' \in 0 .. Word - 1 /\ data' \in [Fss \cup Swap -> Data]
                     /\ pc' \in [Thread -> {"user", "fault", "dying"}]
                     /\ victim' \in [Thread -> Proc \cup {None}]
                     /\ currpid' \in Thread /\ cr3' \in Pdpt /\ cr2' \in Idx \X Idx
<1> SUFFICES Others
  BY <1>1 DEF TypeOK, tabVars, fssVars, swapVars, procVars
<1>3. CASE Preempt
  BY <1>3, SwitchType DEF Preempt, heapVars, TypeOK
<1>4. ASSUME NEW p \in Proc, NEW n \in Sizes,
             VmallocOverMaxHeap(p, n) \/ VmallocOverProcHeap(p, n) \/ VfreeRefused(p, n)
      PROVE  Others
  <2>1. allHeap' \in 0 .. Word - 1
    BY <1>4, PagingAssumption
       DEF VmallocOverMaxHeap, VmallocOverProcHeap, VfreeRefused, heapVars, TypeOK
  <2> QED
    BY <1>2, <1>4, <2>1 DEF VmallocOverMaxHeap, VmallocOverProcHeap, VfreeRefused, TypeOK
<1>5. ASSUME NEW p \in Proc, NEW w \in Idx \X Idx, Fault(p, w)
      PROVE  Others
  BY <1>2, <1>5 DEF Fault, heapVars, TypeOK
<1>6. ASSUME NEW p \in Proc, NEW w \in Idx \X Idx, NEW x \in Data, Store(p, w, x)
      PROVE  Others
  BY <1>6 DEF Store, heapVars, ctlVars, TypeOK
<1>7. ASSUME NEW p \in Proc, Exit(p) \/ SegmentationFault(p)
      PROVE  Others
  BY <1>2, <1>7, SwitchType DEF Exit, SegmentationFault, EnterKill, heapVars, TypeOK
<1>8. ASSUME NEW p \in Proc, NEW k \in Thread, KillOther(k, p)
      PROVE  Others
  BY <1>2, <1>8, SwitchType DEF KillOther, heapVars, TypeOK
<1> HIDE DEF Others
<1> QED
  BY <1>3, <1>4, <1>5, <1>6, <1>7, <1>8 DEF ControlStep

LEMMA VcreateType ==
  ASSUME TypeOK, NEW p \in Proc, Vcreate(p)
  PROVE  TypeOK'
<1>1. PICK t \in Pdpt :
        /\ pdptAvail' = [pdptAvail EXCEPT ![t] = FALSE]
        /\ pdbr' = [pdbr EXCEPT ![p] = t]
        /\ ent' = [a \in Addr |->
             IF a[1] # t THEN ent[a]
             ELSE IF a[2] \in Kernel THEN ent[<<GoldenPd, a[2]>>]
             ELSE [Zero EXCEPT !.valid = ent[a].valid]]
  BY DEF Vcreate
<1>2. ASSUME NEW a \in Addr
      PROVE  ent'[a] \in Entry
  <2>1. ent[a] \in Entry /\ <<GoldenPd, a[2]>> \in Addr /\ ent[<<GoldenPd, a[2]>>] \in Entry
    BY Regions DEF TypeOK, Addr
  <2>2. [Zero EXCEPT !.valid = ent[a].valid] \in Entry
    BY <2>1, Regions DEF Zero, Entry
  <2> QED
    BY <1>1, <2>1, <2>2
<1>3. vAdd' \in [Proc -> 0 .. Top - 1]
  <2>1. NEnt * HeapIdx \in 0 .. Top - 1
    BY PagingAssumption, Regions, DivMod, NEnt * HeapIdx + 0 = NEnt * HeapIdx DEF Top
  <2> QED
    BY <2>1 DEF TypeOK, Vcreate
<1>4. ent' \in [Addr -> Entry]
  BY <1>1, <1>2
<1> QED
  BY <1>1, <1>3, <1>4, PagingAssumption DEF Vcreate, fssVars, swapVars, ctlVars, TypeOK

LEMMA InitType == Init => TypeOK
<1> SUFFICES ASSUME Init PROVE TypeOK
  OBVIOUS
<1>1. ent \in [Addr -> Entry]
  <2>1. ASSUME NEW a \in Addr, a[2] < NGold
        PROVE  a[2] + 2 \in Base
    BY <2>1, PagingAssumption, Regions DEF Addr, Idx, Base
  <2> QED
    BY <2>1, EntryType, Regions DEF Init
<1>2. data \in [Fss \cup Swap -> Data]
  BY DEF Init
<1>3. Top - 1 \in Nat /\ Word - 1 \in Nat
  BY Regions, PagingAssumption DEF Top
<1> QED
  BY <1>1, <1>2, <1>3, Regions, PagingAssumption DEF Init, TypeOK, Thread

\* Whatever hazards are admitted, every counter, tracker, entry and slot of
\* proctab keeps its type: the unsigned counters of pages never go below zero.
THEOREM TypeCorrect == Spec => []TypeOK
<1>1. Init => TypeOK
  BY InitType
<1>2. TypeOK /\ [Next]_vars => TypeOK'
  <2> SUFFICES ASSUME TypeOK, [Next]_vars PROVE TypeOK'
    OBVIOUS
  <2>1. CASE UNCHANGED vars
    BY <2>1 DEF vars, tabVars, fssVars, swapVars, heapVars, procVars, ctlVars, TypeOK
  <2>2. CASE ControlStep
    BY <2>2, ControlType
  <2>3. ASSUME NEW p \in Proc, Vcreate(p)
        PROVE  TypeOK'
    BY <2>3, VcreateType
  <2>4. ASSUME NEW p \in Proc, NEW n \in Sizes, Vmalloc(p, n)
        PROVE  TypeOK'
    BY <2>4, VmallocType
  <2>5. ASSUME NEW p \in Proc, NEW b \in blocks[p], Vfree(p, b[1], b[2])
        PROVE  TypeOK'
    BY <2>5, VfreeType
  <2>6. ASSUME NEW p \in Proc, NEW f \in Fss,
               \/ FirstTouch(p, f) \/ SwapIn(p, f) \/ SwapInEvict(p, f)
               \/ \E s \in Swap : FirstTouchEvict(p, f, s)
        PROVE  TypeOK'
    BY <2>6, HandlerType
  <2>7. ASSUME NEW p \in Proc, FinishExit(p)
        PROVE  TypeOK'
    <3>1. /\ Bury(p) /\ SwitchAway({p})
          /\ victim' = [victim EXCEPT ![p] = None]
      BY <2>7 DEF FinishExit
    <3>2. victim' \in [Thread -> Proc \cup {None}]
      BY <3>1 DEF TypeOK
    <3> QED
      BY <3>1, <3>2, SwitchType, BuryType
  <2>8. ASSUME NEW p \in Proc, NEW k \in Thread, FinishKillOther(k, p)
        PROVE  TypeOK'
    <3>1. /\ Bury(p) /\ cr3' = GoldenPd /\ UNCHANGED currpid
          /\ victim' = [victim EXCEPT ![k] = None, ![p] = None]
      BY <2>8 DEF FinishKillOther
    <3>2. victim' \in [Thread -> Proc \cup {None}]
      BY <3>1 DEF TypeOK
    <3>3. currpid' \in Thread /\ cr3' \in Pdpt
      BY <3>1, Regions DEF TypeOK
    <3> QED
      BY <3>1, <3>2, <3>3, BuryType
  <2> QED
    BY <2>1, <2>2, <2>3, <2>4, <2>5, <2>6, <2>7, <2>8 DEF Next, ControlStep
<1> QED
  BY <1>1, <1>2, PTL DEF Spec

(***************************************************************************)
(* Ownership.                                                              *)
(***************************************************************************)

\* Entries beyond the kernel's are those of the heap and of the gap below it.
LEMMA UserFacts ==
  /\ User \subseteq Idx /\ Kernel \subseteq Idx /\ User \cap Kernel = {}
  /\ Released = User /\ IsFiniteSet(User)
  /\ \A d \in Idx : d >= HeapIdx => d \in User
  /\ \A d \in Kernel : d \in 0 .. NGold - 1
<1>1. /\ User \subseteq Idx /\ Kernel \subseteq Idx /\ User \cap Kernel = {} /\ Released = User
      /\ \A d \in Idx : d >= HeapIdx => d \in User
      /\ \A d \in Kernel : d \in 0 .. NGold - 1
  BY PagingAssumption, Regions DEF User, Idx, Kernel, Released
<1> QED
  BY <1>1, Finite, FS_Subset

\* What the types say of the entries that processes and free frames have.
LEMMA EntryFacts ==
  ASSUME TypeOK
  PROVE  /\ \A t \in Pdpt, i \in Idx : ent[<<t, i>>] \in Entry
         /\ \A p \in Proc : pdbr[p] \in Pdpt
         /\ \A p \in Proc, d \in Idx : Pde(p, d) \in Entry
         /\ \A e \in Entry : /\ e.valid \in BOOLEAN /\ e.pres \in BOOLEAN
                             /\ e.swap \in BOOLEAN /\ e.base \in Base
  BY DEF TypeOK, Addr, Entry, Pde

\* Linear page numbers and counters are natural numbers.
LEMMA LinearType ==
  /\ \A d, i \in Idx : NEnt * d + i \in Nat
  /\ \A w \in Idx \X Idx : Linear(w) \in Nat
  /\ Top \in Nat /\ NEnt * HeapIdx \in Nat
  /\ TypeOK => \A p \in Proc : vAdd[p] \in Nat
<1>1. NEnt \in Nat /\ Idx \subseteq Nat /\ HeapIdx \in Nat
  BY Regions, PagingAssumption
<1>2. \A a, b \in Nat : a * b \in Nat
  BY SMT
<1>3. \A d, i \in Idx : NEnt * d + i \in Nat
  BY <1>1, <1>2
<1>4. \A w \in Idx \X Idx : w[1] \in Idx /\ w[2] \in Idx
  OBVIOUS
<1>5. \A w \in Idx \X Idx : Linear(w) \in Nat
  BY <1>3, <1>4 DEF Linear
<1>6. Top \in Nat /\ NEnt * HeapIdx \in Nat
  BY <1>1, <1>2 DEF Top
<1> QED
  BY <1>3, <1>5, <1>6 DEF TypeOK

\* A page has one linear number, and the other way round.
LEMMA LinearInverse ==
  ASSUME NEW d \in Idx, NEW i \in Idx
  PROVE  /\ (NEnt * d + i) \div NEnt = d /\ (NEnt * d + i) % NEnt = i
         /\ VPage(NEnt * d + i) = <<d, i>>
<1> DEFINE j == NEnt * d + i
           q == j \div NEnt
<1>1. NEnt \in Nat /\ NEnt > 0 /\ d \in Nat /\ i \in Nat /\ i < NEnt /\ j \in Nat
  BY Regions, LinearType DEF Idx
<1>2. /\ q \in Nat /\ j % NEnt \in 0 .. NEnt - 1 /\ NEnt * q + (j % NEnt) = j
      /\ \A h \in Nat : NEnt * h <= j => h <= q
  BY <1>1, DivFacts
<1>3. NEnt * d \in Nat /\ NEnt * d <= j
  BY <1>1, SMT
<1>4. d <= q
  BY <1>1, <1>2, <1>3
<1>5. ASSUME d < q
      PROVE  FALSE
  <2>1. \A m, a, b \in Nat : a < b => m * a + m <= m * b
    <3> SUFFICES ASSUME NEW m \in Nat, NEW a \in Nat, NEW b \in Nat, a < b
                 PROVE  m * a + m <= m * b
      OBVIOUS
    <3>1. b - a - 1 \in Nat /\ b = a + 1 + (b - a - 1)
      BY SMT
    <3>2. \A c \in Nat : m * (a + 1 + c) = m * a + m + m * c /\ m * c >= 0
      BY SMT
    <3>3. m * b = m * a + m + m * (b - a - 1) /\ m * (b - a - 1) >= 0
      BY <3>1, <3>2
    <3>4. m * a \in Nat /\ m * b \in Nat /\ m * (b - a - 1) \in Int
      BY <3>1, SMT
    <3> QED
      BY <3>3, <3>4
  <2>2. NEnt * d + NEnt <= NEnt * q
    BY <1>1, <1>2, <1>5, <2>1
  <2>3. NEnt * q \in Nat
    BY <1>1, <1>2, SMT
  <2> HIDE DEF q
  <2> QED
    BY <1>1, <1>2, <1>3, <2>2, <2>3
<1>6. q = d
  BY <1>1, <1>2, <1>4, <1>5
<1>7. j % NEnt = i
  <2> HIDE DEF q
  <2> QED
    BY <1>1, <1>2, <1>3, <1>6
<1> QED
  BY <1>6, <1>7 DEF VPage

(***************************************************************************)
(* A step that writes only entries of tables of processes.                 *)
(***************************************************************************)
LEMMA WritesInTables ==
  ASSUME TypeOK, Directories, Tables, UNCHANGED <<pdptAvail, pdbr, alive>>,
         \A t \in Pdpt, i \in Idx : ent'[<<t, i>>] # ent[<<t, i>>] =>
           \E p \in Proc, d \in User : Has(p, d) /\ t = Tab(p, d)
  PROVE  /\ Directories' /\ Tables'
         /\ \A p \in Proc, d \in Idx : alive[p] => Pde(p, d)' = Pde(p, d)
<1>1. ASSUME NEW p \in Proc, NEW d \in Idx, alive[p]
      PROVE  Pde(p, d)' = Pde(p, d)
  BY <1>1, EntryFacts, UserFacts DEF Tables, Pde
<1>2. ASSUME NEW t \in Pdpt, NEW i \in Idx, pdptAvail[t] \/ t \in Golden
      PROVE  ent'[<<t, i>>] = ent[<<t, i>>]
  BY <1>2 DEF Tables
<1>3. \A p \in Proc, d \in User : Has(p, d)' = Has(p, d) /\ (Has(p, d) => Tab(p, d)' = Tab(p, d))
  BY <1>1, UserFacts DEF Has, Tab
<1>4. Tables'
  BY <1>3 DEF Tables
<1>5. Directories'
  <2>1. /\ \A d \in 0 .. NGold - 1 : ent'[<<GoldenPd, d>>] = Mapping(d + 2)
        /\ \A t \in Golden \ {GoldenPd}, i \in Idx : ent'[<<t, i>>] = Mapping(0)
    BY <1>2, Regions, PagingAssumption DEF Directories, Golden, GoldenPd, Idx
  <2>2. ASSUME NEW p \in Proc, alive'[p]
        PROVE  /\ \A d \in Kernel : Pde(p, d)' = ent'[<<GoldenPd, d>>]
               /\ \A d \in User : (Pde(p, d).valid = Pde(p, d).pres)'
               /\ \A d \in User : (~Pde(p, d).pres => Pde(p, d).base = 0)'
    <3>1. alive[p] /\ \A d \in Idx : Pde(p, d)' = Pde(p, d)
      BY <1>1, <2>2
    <3>2. \A d \in Kernel : ent'[<<GoldenPd, d>>] = ent[<<GoldenPd, d>>]
      BY <1>2, UserFacts, Regions, PagingAssumption DEF Golden, GoldenPd
    <3> QED
      BY <3>1, <3>2, UserFacts DEF Directories
  <2>3. \A t \in Pdpt, d \in User : pdptAvail'[t] => ~ent'[<<t, d>>].valid /\ ~ent'[<<t, d>>].pres
    BY <1>2, UserFacts DEF Directories
  <2> QED
    BY <2>1, <2>2, <2>3 DEF Directories
<1> QED
  BY <1>1, <1>4, <1>5

\* When the counter has reached the number of frames, every frame is in use.
LEMMA FullMeansUsed ==
  ASSUME TypeOK, FramesCounted, FssFull
  PROVE  \A f \in Fss : ~fssAvail[f]
<1> DEFINE inUse == {f \in Fss : ~fssAvail[f]}
<1>1. IsFiniteSet(Fss) /\ Cardinality(Fss) = NFss
  <2> DEFINE a == NPdpt + 1
             b == NPdpt + NFss
  <2>1. a \in Int /\ b \in Int /\ b - a + 1 = NFss /\ ~(a > b)
    BY Regions, PagingAssumption
  <2>2. Fss = a .. b
    BY DEF Fss
  <2> HIDE DEF a, b
  <2>3. Cardinality(a .. b) = IF a > b THEN 0 ELSE b - a + 1
    BY <2>1, FS_Interval
  <2> QED
    BY <2>1, <2>2, <2>3, Finite
<1>2. inUse \in SUBSET Fss /\ Cardinality(inUse) = fssUsed
  BY DEF FramesCounted
<1>3. Cardinality(inUse) <= Cardinality(Fss) /\ (Cardinality(Fss) = Cardinality(inUse) => Fss = inUse)
  BY <1>1, <1>2, FS_Subset
<1>4. NFss <= fssUsed
  BY DEF FssFull
<1> QED
  BY <1>1, <1>2, <1>3, <1>4, Regions DEF TypeOK

(***************************************************************************)
(* The four cases of the handler.                                          *)
(***************************************************************************)

\* Where the handler writes: an entry of the faulting process, not present.
LEMMA FaultingEntry ==
  ASSUME TypeOK, OwnershipInv, NEW p \in Proc, Faulting(p)
  PROVE  /\ cr2[1] \in User /\ cr2[2] \in Idx /\ Has(p, cr2[1])
         /\ FaultPte(p) = <<Tab(p, cr2[1]), cr2[2]>> /\ Tab(p, cr2[1]) \in Pdpt
         /\ ~Pte(p, cr2[1], cr2[2]).pres /\ NEnt * cr2[1] + cr2[2] < vAdd[p]
         /\ \A q \in Proc : pc[q] = "fault" => q = p
<1>1. cr2[2] \in Idx /\ alive[p] /\ Pde(p, cr2[1]).pres
  BY DEF TypeOK, OwnershipInv, Control, Faulting, Pde
<1>2. cr2[1] \in User /\ Linear(cr2) < vAdd[p] /\ ~ent[FaultPte(p)].pres
  BY <1>1 DEF OwnershipInv, FaultServed, Faulting
<1>3. FaultPte(p) = <<Tab(p, cr2[1]), cr2[2]>>
  BY DEF FaultPte, PteAddr, Tab, Pde
<1>4. Tab(p, cr2[1]) \in Pdpt
  BY <1>1, <1>2 DEF OwnershipInv, Tables, Has
<1> QED
  BY <1>1, <1>2, <1>3, <1>4 DEF Has, Pte, Linear, OwnershipInv, Control, Faulting

\* The page is in frame f, and the page that was there is not: what the four
\* cases have in common.
MovesIn(p, f, t, i) ==
  /\ t = Tab(p, cr2[1]) /\ i = cr2[2]
  /\ ent'[<<t, i>>].pres /\ ~ent'[<<t, i>>].swap /\ ent'[<<t, i>>].base = f
  /\ \A u \in Pdpt, j \in Idx : <<u, j>> # <<t, i>> /\ ent'[<<u, j>>] # ent[<<u, j>>] =>
       /\ \E q \in Proc, d \in User : Has(q, d) /\ u = Tab(q, d)
       /\ ~ent'[<<u, j>>].pres /\ ent[<<u, j>>].base = f
  /\ \A q \in Proc, d \in User, j \in Idx : Has(q, d) /\ <<Tab(q, d), j>> # <<t, i>> =>
       ~(ent'[<<Tab(q, d), j>>].pres /\ ent'[<<Tab(q, d), j>>].base = f)
  /\ fssPte' = [fssPte EXCEPT ![f] = <<t, i>>] /\ fssAvail' = [fssAvail EXCEPT ![f] = FALSE]
  /\ pc' = [pc EXCEPT ![p] = "user"]
  /\ UNCHANGED <<pdptAvail, pdptUsed, heapVars, procVars, victim, currpid, cr3, cr2>>

LEMMA Installed ==
  ASSUME TypeOK, OwnershipInv, NEW p \in Proc, NEW f \in Fss, NEW t, NEW i,
         Faulting(p), MovesIn(p, f, t, i)
  PROVE  Control' /\ Heap' /\ FaultServed' /\ Directories' /\ Tables' /\ Frames'
<1> USE DEF MovesIn
<1>1. /\ cr2[1] \in User /\ i \in Idx /\ Has(p, cr2[1]) /\ FaultPte(p) = <<t, i>> /\ t \in Pdpt
      /\ ~Pte(p, cr2[1], i).pres /\ NEnt * cr2[1] + i < vAdd[p]
      /\ \A q \in Proc : pc[q] = "fault" => q = p
  BY FaultingEntry
<1>2. /\ Directories' /\ Tables'
      /\ \A q \in Proc, d \in Idx : alive[q] => Pde(q, d)' = Pde(q, d)
  <2>1. Directories /\ Tables /\ UNCHANGED <<pdptAvail, pdbr, alive>>
    BY DEF OwnershipInv, procVars
  <2>2. \A u \in Pdpt, j \in Idx : ent'[<<u, j>>] # ent[<<u, j>>] =>
          \E q \in Proc, d \in User : Has(q, d) /\ u = Tab(q, d)
    BY <1>1
  <2> QED
    BY <2>1, <2>2, WritesInTables
<1>3. \A q \in Proc, d \in User : Has(q, d)' = Has(q, d) /\ (Has(q, d) => Tab(q, d)' = Tab(q, d))
  BY <1>2, UserFacts DEF Has, Tab, procVars
<1>4. Frames'
  <2>1. ASSUME NEW q \in Proc, NEW d \in User, NEW j \in Idx, Has(q, d)', Pte(q, d, j)'.pres
        PROVE  /\ Pte(q, d, j)'.base \in Fss /\ ~Pte(q, d, j)'.swap
               /\ ~fssAvail'[Pte(q, d, j)'.base]
               /\ fssPte'[Pte(q, d, j)'.base] = <<Tab(q, d)', j>>
               /\ NEnt * d + j < vAdd'[q]
    <3>1. Has(q, d) /\ Tab(q, d)' = Tab(q, d) /\ Tab(q, d) \in Pdpt
      BY <1>3, <2>1 DEF OwnershipInv, Tables
    <3>2. CASE <<Tab(q, d), j>> = <<t, i>>
      <4>1. q = p /\ d = cr2[1] /\ j = i
        BY <3>1, <3>2, <1>1 DEF OwnershipInv, Tables
      <4> QED
        BY <1>1, <3>1, <3>2, <4>1 DEF Pte, heapVars, TypeOK
    <3>3. CASE <<Tab(q, d), j>> # <<t, i>>
      <4>1. Pte(q, d, j)' = Pte(q, d, j) /\ Pte(q, d, j).base # f
        BY <2>1, <3>1, <3>3 DEF Pte
      <4> QED
        BY <2>1, <3>1, <4>1 DEF OwnershipInv, Frames, heapVars, TypeOK
    <3> QED
      BY <3>2, <3>3
  <2>2. ASSUME NEW g \in Fss, ~fssAvail'[g]
        PROVE  \E q \in Proc, d \in User, j \in Idx :
                 /\ Has(q, d)' /\ Pte(q, d, j)'.pres /\ Pte(q, d, j)'.base = g
                 /\ fssPte'[g] = <<Tab(q, d)', j>>
    <3>1. CASE g = f
      <4>1. Has(p, cr2[1])' /\ Tab(p, cr2[1])' = t
        BY <1>1, <1>3
      <4>2. fssPte'[g] = <<t, i>> /\ Pte(p, cr2[1], i)' = ent'[<<t, i>>]
        BY <3>1, <4>1 DEF TypeOK, Pte
      <4> QED
        BY <1>1, <3>1, <4>1, <4>2
    <3>2. CASE g # f
      <4>1. PICK q \in Proc, d \in User, j \in Idx :
              /\ Has(q, d) /\ Pte(q, d, j).pres /\ Pte(q, d, j).base = g
              /\ fssPte[g] = <<Tab(q, d), j>>
        BY <2>2, <3>2 DEF OwnershipInv, Frames, TypeOK
      <4>2. <<Tab(q, d), j>> # <<t, i>> /\ Tab(q, d) \in Pdpt
        BY <1>1, <4>1 DEF Pte, OwnershipInv, Tables
      <4>3. Pte(q, d, j)' = Pte(q, d, j) /\ fssPte'[g] = fssPte[g]
        BY <1>3, <3>2, <4>1, <4>2 DEF Pte
      <4> QED
        BY <1>3, <4>1, <4>3
    <3> QED
      BY <3>1, <3>2
  <2> QED
    BY <2>1, <2>2 DEF Frames
<1>5. Control'
  BY <1>1 DEF OwnershipInv, Control, procVars, TypeOK, Faulting
<1>6. Heap'
  BY DEF OwnershipInv, Heap, heapVars, procVars, Live
<1>7. FaultServed'
  BY <1>1 DEF FaultServed, TypeOK, Thread
<1> QED
  BY <1>2, <1>4, <1>5, <1>6, <1>7

\* A page is installed in a frame that was free.
LEMMA InstallFree ==
  ASSUME TypeOK, OwnershipInv, NEW p \in Proc, NEW f \in Fss, Faulting(p), TakeFrame(f),
         Install(p, ent, FaultPte(p), f)
  PROVE  OwnershipInv'
<1> DEFINE t == Tab(p, cr2[1])
           i == cr2[2]
<1>1. i \in Idx /\ FaultPte(p) = <<t, i>> /\ t \in Pdpt
  BY FaultingEntry
<1>2. /\ ent' = [ent EXCEPT ![<<t, i>>] = Present(@, f)]
      /\ fssPte' = [fssPte EXCEPT ![f] = <<t, i>>]
      /\ pc' = [pc EXCEPT ![p] = "user"]
      /\ UNCHANGED <<pdptAvail, pdptUsed, heapVars, procVars, victim, currpid, cr3, cr2>>
      /\ fssAvail[f] /\ fssAvail' = [fssAvail EXCEPT ![f] = FALSE] /\ fssUsed' = fssUsed + 1
  BY <1>1 DEF Install, TakeFrame, IsFirst
<1>3. /\ \A u \in Pdpt, j \in Idx : <<u, j>> # <<t, i>> => ent'[<<u, j>>] = ent[<<u, j>>]
      /\ ent'[<<t, i>>].pres /\ ~ent'[<<t, i>>].swap /\ ent'[<<t, i>>].base = f
  <2> HIDE DEF t, i
  <2>1. <<t, i>> \in Addr /\ ent[<<t, i>>] \in Entry /\ f \in Base
    BY <1>1, EntryFacts, Regions DEF Addr
  <2> QED
    BY <1>2, <2>1, WrittenEntry, ZenonT(30) DEF TypeOK, Addr
<1>4. \A q \in Proc, d \in User, j \in Idx :
        Has(q, d) /\ <<Tab(q, d), j>> # <<t, i>> =>
          ~(ent'[<<Tab(q, d), j>>].pres /\ ent'[<<Tab(q, d), j>>].base = f)
  <2> SUFFICES ASSUME NEW q \in Proc, NEW d \in User, NEW j \in Idx, Has(q, d),
                      ent[<<Tab(q, d), j>>].pres, ent[<<Tab(q, d), j>>].base = f
               PROVE  FALSE
    <3> HIDE DEF t, i
    <3> QED
      BY <1>3 DEF OwnershipInv, Tables
  <2> QED
    BY <1>2 DEF OwnershipInv, Frames, Pte
<1> t = Tab(p, cr2[1]) /\ i = cr2[2]
  OBVIOUS
<1> HIDE DEF t, i
<1>5. MovesIn(p, f, t, i)
  BY <1>1, <1>2, <1>3, <1>4 DEF MovesIn
<1>6. Control' /\ Heap' /\ FaultServed' /\ Directories' /\ Tables' /\ Frames'
  BY <1>5, Installed
<1>7. FramesCounted'
  <2> DEFINE inUse == {g \in Fss : ~fssAvail[g]}
  <2>1. inUse' = inUse \cup {f} /\ f \notin inUse
    BY <1>2 DEF TypeOK
  <2>2. IsFiniteSet(inUse)
    BY Finite, FS_Subset
  <2>3. Cardinality(inUse') = Cardinality(inUse) + 1
    BY <2>1, <2>2, FS_AddElement
  <2> QED
    BY <1>2, <2>3 DEF OwnershipInv, FramesCounted
<1> QED
  BY <1>6, <1>7 DEF OwnershipInv

\* A page is installed in a frame whose page went to slot s.
LEMMA InstallEvict ==
  ASSUME TypeOK, OwnershipInv, NEW p \in Proc, NEW f \in Fss, NEW s \in Swap, Faulting(p), FssFull,
         Install(p, SwappedOut(f, s), FaultPte(p), f), UNCHANGED <<fssAvail, fssUsed>>
  PROVE  OwnershipInv'
<1> DEFINE t == Tab(p, cr2[1])
           i == cr2[2]
<1>1. i \in Idx /\ FaultPte(p) = <<t, i>> /\ t \in Pdpt /\ ~ent[<<t, i>>].pres
  BY FaultingEntry DEF Pte
<1>2. ~fssAvail[f]
  BY FullMeansUsed DEF OwnershipInv
<1>3. PICK q \in Proc, d \in User, j \in Idx :
        /\ Has(q, d) /\ Pte(q, d, j).pres /\ Pte(q, d, j).base = f
        /\ fssPte[f] = <<Tab(q, d), j>>
  BY <1>2 DEF OwnershipInv, Frames
<1> DEFINE v == Tab(q, d)
<1>4. v \in Pdpt /\ <<v, j>> # <<t, i>> /\ fssPte[f] = <<v, j>> /\ ent[<<v, j>>].base = f
  BY <1>1, <1>3 DEF OwnershipInv, Tables, Pte
<1>5. /\ ent' = [SwappedOut(f, s) EXCEPT ![<<t, i>>] = Present(@, f)]
      /\ fssPte' = [fssPte EXCEPT ![f] = <<t, i>>]
      /\ pc' = [pc EXCEPT ![p] = "user"]
      /\ UNCHANGED <<pdptAvail, pdptUsed, heapVars, procVars, victim, currpid, cr3, cr2>>
  BY <1>1 DEF Install
<1>6. /\ \A u \in Pdpt, k \in Idx : <<u, k>> # <<t, i>> /\ <<u, k>> # <<v, j>> =>
           ent'[<<u, k>>] = ent[<<u, k>>]
      /\ ent'[<<t, i>>].pres /\ ~ent'[<<t, i>>].swap /\ ent'[<<t, i>>].base = f
      /\ ~ent'[<<v, j>>].pres
  <2> HIDE DEF t, i, v
  <2>1. /\ <<t, i>> \in Addr /\ ent[<<t, i>>] \in Entry /\ f \in Base
        /\ <<v, j>> \in Addr /\ ent[<<v, j>>] \in Entry /\ s \in Base
    BY <1>1, <1>4, EntryFacts, Regions DEF Addr
  <2>2. SwappedOut(f, s) = [ent EXCEPT ![<<v, j>>] = Swapped(@, s)]
    BY <1>4 DEF SwappedOut
  <2> DEFINE E == SwappedOut(f, s)
  <2>3. E \in [Addr -> Entry]
    BY SwappedOutType
  <2>4. /\ E[<<v, j>>] = Swapped(ent[<<v, j>>], s)
        /\ \A a \in Addr : a # <<v, j>> => E[a] = ent[a]
    BY <2>1, <2>2 DEF TypeOK
  <2>5. E[<<t, i>>] = ent[<<t, i>>]
    BY <1>4, <2>1, <2>4
  <2> HIDE DEF E
  <2>6. /\ ent'[<<t, i>>] = Present(ent[<<t, i>>], f)
        /\ \A a \in Addr : a # <<t, i>> => ent'[a] = E[a]
    BY <1>5, <2>1, <2>3, <2>5 DEF E
  <2>7. /\ \A u \in Pdpt, k \in Idx : <<u, k>> \in Addr
        /\ ent'[<<v, j>>] = Swapped(ent[<<v, j>>], s)
    BY <1>4, <2>1, <2>4, <2>6 DEF Addr
  <2>8. /\ Present(ent[<<t, i>>], f).pres = TRUE /\ Present(ent[<<t, i>>], f).swap = FALSE
        /\ Present(ent[<<t, i>>], f).base = f /\ Swapped(ent[<<v, j>>], s).pres = FALSE
    BY <2>1, WrittenEntry
  <2> QED
    BY <2>4, <2>6, <2>7, <2>8
<1>7. \A r \in Proc, e \in User, k \in Idx :
        Has(r, e) /\ <<Tab(r, e), k>> # <<t, i>> =>
          ~(ent'[<<Tab(r, e), k>>].pres /\ ent'[<<Tab(r, e), k>>].base = f)
  <2> SUFFICES ASSUME NEW r \in Proc, NEW e \in User, NEW k \in Idx,
                      Has(r, e), <<Tab(r, e), k>> # <<t, i>>, <<Tab(r, e), k>> # <<v, j>>,
                      ent[<<Tab(r, e), k>>].pres, ent[<<Tab(r, e), k>>].base = f
               PROVE  FALSE
    BY <1>6 DEF OwnershipInv, Tables
  <2> QED
    BY <1>4 DEF OwnershipInv, Frames, Pte
<1>8. fssAvail' = [fssAvail EXCEPT ![f] = FALSE]
  BY <1>2 DEF TypeOK
<1>9. \A u \in Pdpt, k \in Idx : <<u, k>> # <<t, i>> /\ ent'[<<u, k>>] # ent[<<u, k>>] =>
            /\ \E r \in Proc, e \in User : Has(r, e) /\ u = Tab(r, e)
            /\ ~ent'[<<u, k>>].pres /\ ent[<<u, k>>].base = f
  BY <1>3, <1>4, <1>6
<1> t = Tab(p, cr2[1]) /\ i = cr2[2]
  OBVIOUS
<1> HIDE DEF t, i, v
<1>10. Control' /\ Heap' /\ FaultServed' /\ Directories' /\ Tables' /\ Frames'
  <2>1. MovesIn(p, f, t, i)
    BY <1>5, <1>6, <1>7, <1>8, <1>9 DEF MovesIn
  <2> QED
    BY <2>1, Installed
<1> QED
  BY <1>10 DEF OwnershipInv, FramesCounted
LEMMA HandlerStep ==
  ASSUME TypeOK, OwnershipInv, NEW p \in Proc, NEW f \in Fss,
         \/ FirstTouch(p, f) \/ SwapIn(p, f) \/ SwapInEvict(p, f)
         \/ \E s \in Swap : FirstTouchEvict(p, f, s)
  PROVE  OwnershipInv'
<1>1. CASE FirstTouch(p, f)
  BY <1>1, InstallFree DEF FirstTouch
<1>2. CASE SwapIn(p, f)
  BY <1>2, InstallFree DEF SwapIn
<1>3. CASE SwapInEvict(p, f)
  BY <1>3, InstallEvict DEF SwapInEvict
<1>4. ASSUME NEW s \in Swap, FirstTouchEvict(p, f, s)
      PROVE  OwnershipInv'
  BY <1>4, InstallEvict DEF FirstTouchEvict
<1> QED
  BY <1>1, <1>2, <1>3, <1>4

(***************************************************************************)
(* Steps that leave tables and frames alone.                               *)
(***************************************************************************)

\* The pages of a block are pages of the heap below the counter.
LEMMA OwnedBelowCounter ==
  ASSUME TypeOK, Heap, NEW p \in Proc, alive[p], NEW w \in Idx \X Idx, w \in Owned(p)
  PROVE  w[1] \in User /\ Linear(w) < vAdd[p]
<1>1. PICK b \in blocks[p] : w \in Run(NEnt * b[1][1] + b[1][2], b[2])
  BY DEF Owned
<1>2. PICK j \in Linear(b[1]) .. Linear(b[1]) + b[2] - 1 : w = VPage(j % Top)
  BY <1>1 DEF Run, Linear
<1>3. b[1][1] \in Nat /\ b[1][2] \in Nat /\ b[2] \in Nat /\ Linear(b[1]) \in Nat
  <2>1. b \in (Idx \X Idx) \X Sizes
    BY DEF TypeOK
  <2>2. b[1][1] \in Nat /\ b[1][2] \in Nat /\ b[2] \in Nat
    BY <2>1, Regions, PagingAssumption
  <2> QED
    BY <2>2, Regions DEF Linear
<1>4. /\ NEnt * HeapIdx <= Linear(b[1]) /\ Linear(b[1]) + b[2] <= vAdd[p]
      /\ vAdd[p] \in 0 .. Top - 1 /\ Top \in Nat /\ NEnt * HeapIdx \in Nat
  BY Regions, PagingAssumption DEF Heap, Live, TypeOK, Top
<1>5. j \in Nat /\ j < Top /\ NEnt * HeapIdx <= j /\ j < vAdd[p] /\ j % Top = j
  BY <1>3, <1>4
<1>6. w[1] = j \div NEnt /\ w[2] = j % NEnt
  BY <1>2, <1>5 DEF VPage
<1>7. Linear(w) = j /\ HeapIdx <= w[1]
  BY <1>5, <1>6, DivFacts, Regions, PagingAssumption DEF Linear
<1> QED
  BY <1>5, <1>7, UserFacts

\* resched gives the processor to a process that exists and is not being removed.
LEMMA SwitchStep ==
  ASSUME TypeOK, Disciplined, NEW E, SwitchAway(E)
  PROVE  /\ currpid' \in Thread \ E
         /\ currpid' \in Proc => alive[currpid']
         /\ \A k \in Thread : victim[k] # None => victim[k] # currpid'
  BY PagingAssumption DEF TypeOK, Disciplined, SwitchAway, MayRun, Thread

LEMMA ControlStepOwnership ==
  ASSUME TypeOK, Disciplined, OwnershipInv, ControlStep
  PROVE  OwnershipInv'
<1>1. UNCHANGED <<tabVars, fssVars, swapVars, procVars, vAdd, avail, blocks>>
  BY ControlFrame
<1>2. Heap' /\ Directories' /\ Tables' /\ Frames' /\ FramesCounted'
  <2> UNCHANGED <<ent, pdptAvail, fssAvail, fssPte, fssUsed, alive, pdbr, vAdd, blocks>>
    BY <1>1 DEF tabVars, fssVars, procVars
  <2>1. Heap'
    BY DEF OwnershipInv, Heap, Live
  <2>2. Directories'
    BY DEF OwnershipInv, Directories, Pde
  <2> \A p \in Proc, d \in User :
        /\ Has(p, d)' = Has(p, d) /\ Tab(p, d)' = Tab(p, d)
        /\ \A i \in Idx : Pte(p, d, i)' = Pte(p, d, i)
    BY DEF Has, Tab, Pde, Pte
  <2>3. Tables'
    BY DEF OwnershipInv, Tables
  <2>4. Frames'
    BY DEF OwnershipInv, Frames
  <2>5. FramesCounted'
    BY DEF OwnershipInv, FramesCounted
  <2> QED
    BY <2>1, <2>2, <2>3, <2>4, <2>5
<1> SUFFICES Control' /\ FaultServed'
  BY <1>2 DEF OwnershipInv
<1> UNCHANGED <<ent, alive, pdbr, vAdd>>
  BY <1>1 DEF tabVars, procVars
<1> Proc \subseteq Thread /\ Sys \notin Proc /\ None \notin Thread
  BY PagingAssumption DEF Thread
<1> "stub" \notin Hazards /\ "golden" \notin Hazards /\ "wild" \notin Hazards
    /\ "killrace" \notin Hazards
  BY DEF Disciplined
<1> DEFINE Kept == /\ Control'
                   /\ \A p \in Proc : pc'[p] = "fault" => pc[p] = "fault" /\ cr2' = cr2
<1>3. Kept => Control' /\ FaultServed'
  BY DEF OwnershipInv, FaultServed, Pde, FaultPte, PteAddr
<1>4. CASE Preempt
  <2>1. pc[currpid] = "user" /\ UNCHANGED <<pc, victim, cr2>> /\ SwitchAway({currpid})
    BY <1>4 DEF Preempt, Executing
  <2> QED
    BY <1>3, <2>1, SwitchStep DEF OwnershipInv, Control
<1>5. ASSUME NEW p \in Proc, NEW n \in Sizes,
             VmallocOverMaxHeap(p, n) \/ VmallocOverProcHeap(p, n) \/ VfreeRefused(p, n)
      PROVE  Control' /\ FaultServed'
  BY <1>3, <1>5 DEF VmallocOverMaxHeap, VmallocOverProcHeap, VfreeRefused, OwnershipInv, Control
<1>6. ASSUME NEW p \in Proc, NEW w \in Idx \X Idx, Fault(p, w)
      PROVE  Control' /\ FaultServed'
  <2>1. /\ currpid = p /\ pc[p] = "user" /\ victim[p] = None /\ pc' = [pc EXCEPT ![p] = "fault"]
        /\ cr2' = w /\ UNCHANGED <<victim, currpid>> /\ alive[p]
        /\ w \in Owned(p) \/ ~Pde(p, w[1]).pres
        /\ ~(Pde(p, w[1]).pres /\ ent[PteAddr(pdbr[p], w)].pres)
    BY <1>6 DEF Fault, Executing, MayAccess, Resident, Pde, OwnershipInv, Control
  <2>2. Control'
    BY <2>1 DEF OwnershipInv, Control, TypeOK
  <2>3. Pde(p, w[1]).pres => w[1] \in User /\ Linear(w) < vAdd[p]
    BY <2>1, OwnedBelowCounter DEF OwnershipInv
  <2>4. \A q \in Proc : pc'[q] = "fault" => q = p
    BY <2>1 DEF OwnershipInv, Control, TypeOK
  <2>5. FaultServed'
    <3> SUFFICES ASSUME Pde(p, w[1]).pres
                 PROVE  w[1] \in User /\ Linear(w) < vAdd[p] /\ ~ent[PteAddr(pdbr[p], w)].pres
      BY <2>1, <2>4 DEF FaultServed, Pde, FaultPte, PteAddr
    <3> QED
      BY <2>1, <2>3
  <2> QED
    BY <2>2, <2>5
<1>7. ASSUME NEW p \in Proc, NEW w \in Idx \X Idx, NEW x \in Data, Store(p, w, x)
      PROVE  Control' /\ FaultServed'
  BY <1>3, <1>7 DEF Store, ctlVars, OwnershipInv, Control
<1>8. ASSUME NEW p \in Proc, Exit(p) \/ SegmentationFault(p)
      PROVE  Control' /\ FaultServed'
  <2>1. /\ currpid = p /\ alive[p] /\ victim[p] = None
        /\ pc' = [pc EXCEPT ![p] = "dying"] /\ UNCHANGED <<victim, cr2>>
        /\ UNCHANGED currpid \/ SwitchAway({p})
    BY <1>8 DEF Exit, SegmentationFault, EnterKill, Executing, OwnershipInv, Control
  <2>2. /\ currpid' \in Proc => alive[currpid']
        /\ \A k \in Thread : victim[k] # None => victim[k] # currpid'
    BY <2>1, SwitchStep DEF OwnershipInv, Control
  <2>3. \A q \in Proc : pc[q] = "fault" => q = p
    BY <2>1 DEF OwnershipInv, Control
  <2>4. Kept
    BY <2>1, <2>2, <2>3 DEF OwnershipInv, Control, TypeOK
  <2> QED
    BY <1>3, <2>4
<1>9. ASSUME NEW p \in Proc, NEW k \in Thread, KillOther(k, p)
      PROVE  Control' /\ FaultServed'
  <2>1. /\ currpid = k /\ pc[k] = "user" /\ victim[k] = None /\ p # k /\ alive[p]
        /\ \A t \in Thread : victim[t] # p
        /\ victim' = [victim EXCEPT ![k] = p] /\ UNCHANGED <<pc, cr2>>
        /\ UNCHANGED currpid \/ SwitchAway({k, p})
    BY <1>9 DEF KillOther, Executing
  <2>2. /\ currpid' \in Proc => alive[currpid']
        /\ \A t \in Thread : victim[t] # None => victim[t] # currpid'
        /\ currpid' # p
    BY <2>1, SwitchStep DEF OwnershipInv, Control
  <2>3. \A q \in Proc : pc[q] # "fault"
    BY <2>1 DEF OwnershipInv, Control
  <2>4. Kept
    BY <2>1, <2>2, <2>3 DEF OwnershipInv, Control, TypeOK
  <2> QED
    BY <1>3, <2>4
<1> HIDE DEF Kept
<1> QED
  BY <1>4, <1>5, <1>6, <1>7, <1>8, <1>9 DEF ControlStep
(***************************************************************************)
(* vcreate.                                                                *)
(***************************************************************************)
LEMMA VcreateStep ==
  ASSUME TypeOK, OwnershipInv, NEW p \in Proc, Vcreate(p)
  PROVE  OwnershipInv'
<1>1. PICK t \in Pdpt :
        /\ pdptAvail[t] /\ pdptAvail' = [pdptAvail EXCEPT ![t] = FALSE]
        /\ pdbr' = [pdbr EXCEPT ![p] = t]
        /\ ent' = [a \in Addr |->
             IF a[1] # t THEN ent[a]
             ELSE IF a[2] \in Kernel THEN ent[<<GoldenPd, a[2]>>]
             ELSE [Zero EXCEPT !.valid = ent[a].valid]]
  BY DEF Vcreate, IsFirst
<1>2. /\ ~alive[p] /\ alive' = [alive EXCEPT ![p] = TRUE]
      /\ vAdd' = [vAdd EXCEPT ![p] = NEnt * HeapIdx]
      /\ UNCHANGED <<fssAvail, fssPte, fssUsed, blocks, pc, victim, currpid, cr2>>
      /\ pc[currpid] = "user"
  BY DEF Vcreate, Executing, fssVars, ctlVars
<1>3. /\ \A u \in Pdpt, j \in Idx : u # t => ent'[<<u, j>>] = ent[<<u, j>>]
      /\ \A d \in Kernel : ent'[<<t, d>>] = ent[<<GoldenPd, d>>]
      /\ \A d \in User : ent'[<<t, d>>] = Zero
  <2>1. \A d \in User : ent[<<t, d>>].valid = FALSE
    BY <1>1, EntryFacts, UserFacts DEF OwnershipInv, Directories
  <2>2. \A u \in Pdpt, j \in Idx : <<u, j>> \in Addr
    BY DEF Addr
  <2>3. \A d \in User : d \in Idx /\ d \notin Kernel
    BY UserFacts
  <2> QED
    BY <1>1, <2>1, <2>2, <2>3, UserFacts DEF Zero
<1>4. t \notin Golden /\ \A q \in Proc : alive[q] => pdbr[q] # t /\ pdbr[q] \in Pdpt /\ q # p
  BY <1>1, <1>2 DEF OwnershipInv, Tables
<1>5. \A q \in Proc : alive'[q] <=> q = p \/ alive[q]
  BY <1>2 DEF TypeOK
<1>6. /\ \A q \in Proc : alive[q] => pdbr'[q] = pdbr[q] /\ vAdd'[q] = vAdd[q]
      /\ \A q \in Proc, d \in Idx : alive[q] => Pde(q, d)' = Pde(q, d)
      /\ pdbr'[p] = t /\ vAdd'[p] = NEnt * HeapIdx
      /\ \A d \in Idx : Pde(p, d)' = ent'[<<t, d>>]
  <2>1. \A q \in Proc : alive[q] => pdbr'[q] = pdbr[q] /\ vAdd'[q] = vAdd[q]
    BY <1>1, <1>2 DEF TypeOK
  <2>2. pdbr'[p] = t /\ vAdd'[p] = NEnt * HeapIdx
    BY <1>1, <1>2 DEF TypeOK
  <2> QED
    BY <1>3, <1>4, <2>1, <2>2 DEF Pde
<1>7. \A q \in Proc, d \in User :
        /\ Has(q, d)' <=> Has(q, d)
        /\ Has(q, d) => /\ Tab(q, d)' = Tab(q, d) /\ Tab(q, d) # t /\ vAdd'[q] = vAdd[q]
                        /\ \A i \in Idx : Pte(q, d, i)' = Pte(q, d, i)
  <2>1. ASSUME NEW q \in Proc, NEW d \in User
        PROVE  Has(q, d)' <=> Has(q, d)
    <3>1. CASE q = p
      <4>1. Pde(p, d)' = Zero
        BY <1>3, <1>6, UserFacts
      <4>2. ~Has(p, d)' /\ ~Has(p, d)
        BY <1>2, <4>1 DEF Has, Zero
      <4> QED
        BY <3>1, <4>2
    <3>2. CASE q # p
      BY <1>5, <1>6, <3>2, UserFacts DEF Has
    <3> QED
      BY <3>1, <3>2
  <2>2. ASSUME NEW q \in Proc, NEW d \in User, Has(q, d)
        PROVE  /\ Tab(q, d)' = Tab(q, d) /\ Tab(q, d) \in Pdpt /\ Tab(q, d) # t /\ vAdd'[q] = vAdd[q]
    BY <1>1, <1>6, <2>2, UserFacts DEF Has, Tab, OwnershipInv, Tables
  <2> QED
    BY <1>3, <2>1, <2>2 DEF Pte
<1>8. Tables'
  <2>1. /\ \A u \in Pdpt : pdptAvail'[u] <=> pdptAvail[u] /\ u # t
    BY <1>1 DEF TypeOK
  <2>2. \A q, r \in Proc : alive'[q] /\ alive'[r] /\ pdbr'[q] = pdbr'[r] => q = r
    BY <1>4, <1>5, <1>6 DEF OwnershipInv, Tables
  <2>3. \A q, r \in Proc, d \in User : Has(q, d)' /\ alive'[r] => Tab(q, d)' # pdbr'[r]
    BY <1>5, <1>6, <1>7 DEF OwnershipInv, Tables
  <2>4. \A q \in Proc : alive'[q] => pdbr'[q] \in Pdpt \ Golden /\ ~pdptAvail'[pdbr'[q]]
    BY <1>4, <1>5, <1>6, <2>1 DEF OwnershipInv, Tables
  <2>5. \A q \in Proc, d \in User : Has(q, d)' =>
           Tab(q, d)' \in Pdpt \ Golden /\ ~pdptAvail'[Tab(q, d)']
    BY <1>7, <2>1 DEF OwnershipInv, Tables
  <2>6. \A u \in Golden : ~pdptAvail'[u]
    BY <1>4, <2>1, Regions DEF OwnershipInv, Tables
  <2>7. ASSUME NEW u \in Pdpt, ~pdptAvail'[u]
        PROVE  \/ u \in Golden
               \/ \E q \in Proc : alive'[q] /\ pdbr'[q] = u
               \/ \E q \in Proc, d \in User : Has(q, d)' /\ Tab(q, d)' = u
    <3>1. CASE u = t
      BY <1>5, <1>6, <3>1
    <3>2. CASE u # t
      <4>1. ~pdptAvail[u]
        BY <2>1, <2>7, <3>2
      <4> QED
        BY <1>5, <1>6, <1>7, <4>1 DEF OwnershipInv, Tables
    <3> QED
      BY <3>1, <3>2
  <2>8. \A q, r \in Proc, d, e \in User :
           Has(q, d)' /\ Has(r, e)' /\ Tab(q, d)' = Tab(r, e)' => q = r /\ d = e
    BY <1>7 DEF OwnershipInv, Tables
  <2> QED
    BY <2>2, <2>3, <2>4, <2>5, <2>6, <2>7, <2>8 DEF Tables
<1>9. Directories'
  <2>1. \A u \in Golden, i \in Idx : ent'[<<u, i>>] = ent[<<u, i>>]
    BY <1>3, <1>4, Regions
  <2>2. GoldenPd \in Golden /\ \A d \in 0 .. NGold - 1 : d \in Idx
    BY PagingAssumption DEF GoldenPd, Golden, Idx
  <2>3. /\ \A d \in 0 .. NGold - 1 : ent'[<<GoldenPd, d>>] = Mapping(d + 2)
        /\ \A u \in Golden \ {GoldenPd}, i \in Idx : ent'[<<u, i>>] = Mapping(0)
    BY <2>1, <2>2 DEF OwnershipInv, Directories
  <2>4. ASSUME NEW q \in Proc, alive'[q]
        PROVE  /\ \A d \in Kernel : Pde(q, d)' = ent'[<<GoldenPd, d>>]
               /\ \A d \in User : Pde(q, d)'.valid = Pde(q, d)'.pres
               /\ \A d \in User : ~Pde(q, d)'.pres => Pde(q, d)'.base = 0
    <3>1. \A d \in Kernel : ent'[<<GoldenPd, d>>] = ent[<<GoldenPd, d>>]
      BY <2>1, <2>2, UserFacts
    <3>2. CASE q = p
      <4>1. /\ \A d \in Kernel : Pde(p, d)' = ent'[<<GoldenPd, d>>]
            /\ \A d \in User : Pde(p, d)' = Zero
        BY <1>3, <1>6, <3>1, UserFacts
      <4>2. Zero.valid = Zero.pres /\ Zero.base = 0
        BY DEF Zero
      <4> QED
        BY <3>2, <4>1, <4>2
    <3>3. CASE q # p
      BY <1>5, <1>6, <2>4, <3>1, <3>3, UserFacts DEF OwnershipInv, Directories
    <3> QED
      BY <3>2, <3>3
  <2>5. \A u \in Pdpt, d \in User : pdptAvail'[u] => ~ent'[<<u, d>>].valid /\ ~ent'[<<u, d>>].pres
    <3>1. \A u \in Pdpt : pdptAvail'[u] => u # t /\ pdptAvail[u]
      BY <1>1 DEF TypeOK
    <3> QED
      BY <1>3, <3>1, UserFacts DEF OwnershipInv, Directories
  <2> QED
    BY <2>3, <2>4, <2>5 DEF Directories
<1>10. Frames'
  <2>1. fssAvail' = fssAvail /\ fssPte' = fssPte
    BY <1>2
  <2> QED
    BY <1>7, <2>1 DEF OwnershipInv, Frames
<1>11. FramesCounted'
  BY <1>2 DEF OwnershipInv, FramesCounted
<1>12. Heap'
  <2>1. blocks[p] = {} /\ blocks' = blocks /\ NEnt * HeapIdx <= vAdd'[p]
    BY <1>2, <1>6, Regions, PagingAssumption DEF OwnershipInv, Heap
  <2> QED
    BY <1>5, <1>6, <2>1 DEF OwnershipInv, Heap, Live
<1>13. Control' /\ FaultServed'
  BY <1>2, <1>5 DEF OwnershipInv, Control, FaultServed, TypeOK
<1> QED
  BY <1>8, <1>9, <1>10, <1>11, <1>12, <1>13 DEF OwnershipInv
(***************************************************************************)
(* vmalloc.                                                                *)
(***************************************************************************)

\* The new pages of process p are pages of the heap.
LEMMA DirsInHeap ==
  ASSUME TypeOK, Heap, NEW p \in Proc, alive[p], NEW n \in Nat, n > 0
  PROVE  Dirs(vAdd[p], n) \in SUBSET User
<1>1. vAdd[p] \in 0 .. Top - 1 /\ vAdd[p] \in Nat /\ NEnt * HeapIdx <= vAdd[p]
  BY Regions DEF TypeOK, Heap, Live, Top
<1>2. Dirs(vAdd[p], n) \in SUBSET Idx
  BY <1>1, DirsType
<1>3. HeapIdx <= vAdd[p] \div NEnt /\ HeapIdx \in Nat /\ vAdd[p] \div NEnt \in Nat
  BY <1>1, DivFacts, Regions, PagingAssumption
<1>4. \A d \in Dirs(vAdd[p], n) : d >= HeapIdx
  BY <1>2, <1>3, Regions DEF Dirs
<1> QED
  BY <1>2, <1>4, UserFacts

\* What vmalloc writes: missing directory entries, tables that were free, and
\* entries at or above the counter.
Validates(p, n, missing, alloc) ==
  /\ missing \in SUBSET User /\ alloc \in [missing -> Pdpt]
  /\ \A d \in missing : ~Pde(p, d).pres /\ pdptAvail[alloc[d]]
  /\ \A d, e \in missing : alloc[d] = alloc[e] => d = e
  /\ pdptAvail' = [t \in Pdpt |-> pdptAvail[t] /\ \A d \in missing : t # alloc[d]]
  /\ \A d \in missing : ent'[<<pdbr[p], d>>] = Mapping(alloc[d])
  /\ \A d \in Idx \ missing : ent'[<<pdbr[p], d>>] = ent[<<pdbr[p], d>>]
  /\ \A d \in missing, i \in Idx : ~ent'[<<alloc[d], i>>].pres
  /\ \A u \in Pdpt, i \in Idx :
       \/ ent'[<<u, i>>] = ent[<<u, i>>]
       \/ u = pdbr[p]
       \/ \E d \in missing : u = alloc[d]
       \/ /\ ~ent'[<<u, i>>].pres
          /\ \E d \in User : Has(p, d) /\ u = Tab(p, d) /\ NEnt * d + i >= vAdd[p]

\* It sets no swap bit, and validates the entries of all the n new pages.
Refreshes(p, n, missing, alloc) ==
  /\ \A u \in Pdpt, i \in Idx : ent'[<<u, i>>].swap =>
       /\ ent[<<u, i>>].swap
       /\ ent'[<<u, i>>] = ent[<<u, i>>] \/ \E d \in missing : u = alloc[d]
  /\ \A d \in User, i \in Idx : vAdd[p] <= NEnt * d + i /\ NEnt * d + i < vAdd[p] + n =>
       /\ d \in missing \/ Has(p, d)
       /\ ent'[<<IF d \in missing THEN alloc[d] ELSE Tab(p, d), i>>].valid
  /\ pdptUsed' = pdptUsed + Cardinality(missing)

LEMMA VmallocWrites ==
  ASSUME TypeOK, Disciplined, OwnershipInv, NEW p \in Proc, NEW n \in Sizes, Vmalloc(p, n)
  PROVE  \E missing, alloc : Validates(p, n, missing, alloc) /\ Refreshes(p, n, missing, alloc)
<1> DEFINE dirs    == Dirs(vAdd[p], n)
           missing == {d \in dirs : ~ent[<<pdbr[p], d>>].pres}
           new     == {w \in dirs \X Idx : \E k \in vAdd[p] .. vAdd[p] + n - 1 : w = VPage(k)}
           table(alloc, d) == IF d \in missing THEN alloc[d] ELSE ent[<<pdbr[p], d>>].base
<1>1. PICK alloc \in [missing -> Pdpt] :
        /\ FirstFit(alloc, missing)
        /\ pdptAvail' = [t \in Pdpt |-> pdptAvail[t] /\ \A d \in missing : t # alloc[d]]
        /\ ent' = WithTables(pdbr[p], alloc, {<<table(alloc, w[1]), w[2]>> : w \in new})
  BY DEF Vmalloc
<1> DEFINE fresh == {<<table(alloc, w[1]), w[2]>> : w \in new}
           taken == {alloc[d] : d \in missing}
<1>2. /\ alive[p] /\ n \in Nat /\ n > 0 /\ vAdd[p] \in Nat /\ pdbr[p] \in Pdpt
      /\ vAdd[p] + n < Top /\ pdptAvail \in [Pdpt -> BOOLEAN]
  BY PagingAssumption DEF Vmalloc, Executing, OwnershipInv, Control, Disciplined, TypeOK
<1>3. dirs \in SUBSET User
  BY <1>2, DirsInHeap DEF OwnershipInv
<1>3a. \A d, i \in Idx : vAdd[p] <= NEnt * d + i /\ NEnt * d + i < vAdd[p] + n =>
        <<d, i>> \in new
  <2> SUFFICES ASSUME NEW d \in Idx, NEW i \in Idx,
                      vAdd[p] <= NEnt * d + i, NEnt * d + i < vAdd[p] + n
               PROVE  <<d, i>> \in new
    OBVIOUS
  <2> DEFINE k == NEnt * d + i
             m == vAdd[p] + n - 1
  <2>1. /\ k \in Nat /\ m \in Nat /\ k <= m /\ m % Top = m
        /\ k \div NEnt = d /\ VPage(k) = <<d, i>>
    BY <1>2, LinearType, LinearInverse
  <2> HIDE DEF k, m
  <2>2. /\ NEnt \in Nat /\ NEnt > 0 /\ vAdd[p] \div NEnt \in Nat /\ m \div NEnt \in Nat
        /\ NEnt * (vAdd[p] \div NEnt) <= vAdd[p] /\ NEnt * d <= k
    <3>1. \A j \in Nat : NEnt * (j \div NEnt) <= j /\ j \div NEnt \in Nat
      <4> SUFFICES ASSUME NEW j \in Nat
                   PROVE  NEnt * (j \div NEnt) <= j /\ j \div NEnt \in Nat
        OBVIOUS
      <4> DEFINE q == j \div NEnt
      <4>1. q \in Nat /\ j % NEnt \in 0 .. NEnt - 1 /\ NEnt * q + (j % NEnt) = j
        BY DivFacts, Regions
      <4>2. NEnt * q \in Nat
        BY <4>1, Regions, SMT
      <4> HIDE DEF q
      <4>3. NEnt * q <= j
        BY <4>1, <4>2, Regions
      <4> QED
        BY <4>1, <4>3 DEF q
    <3> QED
      BY <1>2, <2>1, <3>1, Regions
  <2>3. vAdd[p] \div NEnt <= d
    BY <1>2, <2>1, <2>2, DivFacts, LinearType DEF k
  <2>4. d <= m \div NEnt
    BY <2>1, <2>2, DivFacts, Regions, LinearType
  <2>5. d \in dirs
    BY <2>1, <2>2, <2>3, <2>4, Regions DEF Dirs, m
  <2>6. k \in vAdd[p] .. vAdd[p] + n - 1
    BY <1>2, <2>1 DEF k
  <2> HIDE DEF dirs
  <2> QED
    BY <2>1, <2>5, <2>6
<1>4. \A w \in new : w[1] \in dirs /\ w[2] \in Idx /\ NEnt * w[1] + w[2] >= vAdd[p]
  <2>1. ASSUME NEW w \in new
        PROVE  w[1] \in dirs /\ w[2] \in Idx /\ NEnt * w[1] + w[2] >= vAdd[p]
    <3>1. PICK k \in vAdd[p] .. vAdd[p] + n - 1 : w = VPage(k)
      OBVIOUS
    <3>2. k \in Nat /\ k >= vAdd[p]
      BY <1>2
    <3>3. w[1] = k \div NEnt /\ w[2] = k % NEnt /\ NEnt * (k \div NEnt) + (k % NEnt) = k
      BY <3>1, <3>2, DivFacts, Regions DEF VPage
    <3> QED
      BY <3>2, <3>3
  <2> QED
    BY <2>1
<1> HIDE DEF dirs, new
<1>5. \A d \in missing : ~Pde(p, d).pres /\ pdptAvail[alloc[d]] /\ d \in User /\ d \in Nat
  BY <1>1, <1>3, UserFacts, Regions DEF FirstFit, Pde
<1>6. \A d, e \in missing : alloc[d] = alloc[e] => d = e
  <2>1. \A d, e \in missing : d < e => alloc[d] < alloc[e]
    BY <1>1 DEF FirstFit
  <2>2. \A d \in missing : alloc[d] \in Nat
    BY Regions
  <2> HIDE DEF missing
  <2> QED
    BY <1>5, <2>1, <2>2
<1>7. \A d \in dirs : table(alloc, d) = IF d \in missing THEN alloc[d] ELSE Tab(p, d)
  BY DEF Tab, Pde
<1>8. \A d \in dirs : d \notin missing => Has(p, d)
  BY <1>2 DEF Has, Pde
<1>9. \A u, i : <<u, i>> \in fresh =>
        \/ \E d \in missing : u = alloc[d]
        \/ i \in Idx /\ \E d \in User : Has(p, d) /\ u = Tab(p, d) /\ NEnt * d + i >= vAdd[p]
  <2> SUFFICES ASSUME NEW u, NEW i, NEW w \in new, u = table(alloc, w[1]), i = w[2],
                      w[1] \notin missing
               PROVE  i \in Idx /\ \E d \in User : Has(p, d) /\ u = Tab(p, d) /\ NEnt * d + i >= vAdd[p]
    BY <1>4, <1>7
  <2> QED
    BY <1>3, <1>4, <1>7, <1>8
<1> DEFINE Reset(e)    == [e EXCEPT !.pres = FALSE, !.base = 0]
           Validate(e) == [e EXCEPT !.valid = TRUE, !.pres = FALSE, !.swap = FALSE]
           Table(a)    == IF a[1] \in taken THEN Reset(ent[a]) ELSE ent[a]
<1>10. \A a \in Addr : ent'[a] =
         IF a[1] = pdbr[p] /\ a[2] \in missing THEN Mapping(alloc[a[2]])
         ELSE IF a \in fresh THEN Validate(Table(a)) ELSE Table(a)
  <2>1. DOMAIN alloc = missing
    OBVIOUS
  <2> HIDE DEF missing, fresh
  <2> QED
    BY <1>1, <2>1 DEF WithTables, fresh
<1>11. \A a \in Addr : /\ Table(a) \in Entry /\ Validate(Table(a)).pres = FALSE
                       /\ Validate(Table(a)).valid = TRUE /\ Validate(Table(a)).swap = FALSE
                       /\ a[1] \in taken => Table(a).pres = FALSE /\ Table(a).swap = ent[a].swap
                       /\ a[1] \notin taken => Table(a) = ent[a]
  <2>1. \A e \in Entry : /\ Reset(e) \in Entry /\ Reset(e).pres = FALSE /\ Reset(e).swap = e.swap
                         /\ Validate(e).pres = FALSE /\ Validate(e).valid = TRUE
                         /\ Validate(e).swap = FALSE
    BY Regions DEF Entry
  <2> HIDE DEF Reset, Validate, taken
  <2> QED
    BY <2>1 DEF TypeOK
<1>12. \A u \in taken : u # pdbr[p] /\ u \in Pdpt
  <2>1. ~pdptAvail[pdbr[p]]
    BY <1>2 DEF OwnershipInv, Tables
  <2> HIDE DEF missing
  <2> QED
    BY <1>5, <2>1
<1>13. \A u, i : <<u, i>> \in fresh => u # pdbr[p]
  <2>1. \A d \in User : Has(p, d) => Tab(p, d) # pdbr[p]
    BY <1>2 DEF OwnershipInv, Tables
  <2> HIDE DEF missing, fresh
  <2> QED
    BY <1>9, <1>12, <2>1
<1> HIDE DEF fresh, Table, Validate, Reset, missing
<1>14. \A u \in Pdpt, i \in Idx :
        /\ u = pdbr[p] /\ i \in missing => ent'[<<u, i>>] = Mapping(alloc[i])
        /\ u = pdbr[p] /\ i \notin missing => ent'[<<u, i>>] = ent[<<u, i>>]
        /\ u \in taken => ~ent'[<<u, i>>].pres
        /\ u # pdbr[p] /\ u \notin taken /\ <<u, i>> \in fresh => ~ent'[<<u, i>>].pres
        /\ u # pdbr[p] /\ u \notin taken /\ <<u, i>> \notin fresh => ent'[<<u, i>>] = ent[<<u, i>>]
        /\ <<u, i>> \in fresh => ent'[<<u, i>>].valid /\ ~ent'[<<u, i>>].swap
        /\ u \in taken /\ ent'[<<u, i>>].swap => ent[<<u, i>>].swap
  <2> SUFFICES ASSUME NEW u \in Pdpt, NEW i \in Idx
               PROVE  /\ u = pdbr[p] /\ i \in missing => ent'[<<u, i>>] = Mapping(alloc[i])
                      /\ u = pdbr[p] /\ i \notin missing => ent'[<<u, i>>] = ent[<<u, i>>]
                      /\ u \in taken => ~ent'[<<u, i>>].pres
                      /\ u # pdbr[p] /\ u \notin taken /\ <<u, i>> \in fresh => ~ent'[<<u, i>>].pres
                      /\ u # pdbr[p] /\ u \notin taken /\ <<u, i>> \notin fresh =>
                           ent'[<<u, i>>] = ent[<<u, i>>]
                      /\ <<u, i>> \in fresh => ent'[<<u, i>>].valid /\ ~ent'[<<u, i>>].swap
                      /\ u \in taken /\ ent'[<<u, i>>].swap => ent[<<u, i>>].swap
    OBVIOUS
  <2> HIDE DEF taken
  <2>1. /\ <<u, i>> \in Addr /\ <<u, i>>[1] = u /\ <<u, i>>[2] = i
    BY DEF Addr
  <2>2. ent'[<<u, i>>] = IF u = pdbr[p] /\ i \in missing THEN Mapping(alloc[i])
                         ELSE IF <<u, i>> \in fresh THEN Validate(Table(<<u, i>>)) ELSE Table(<<u, i>>)
    BY <1>10, <2>1
  <2> QED
    BY <1>11, <1>12, <1>13, <2>1, <2>2
<1>15. missing \in SUBSET User
  BY <1>5
<1>16. \A u \in Pdpt, i \in Idx :
         \/ ent'[<<u, i>>] = ent[<<u, i>>]
         \/ u = pdbr[p]
         \/ \E d \in missing : u = alloc[d]
         \/ /\ ~ent'[<<u, i>>].pres
            /\ \E d \in User : Has(p, d) /\ u = Tab(p, d) /\ NEnt * d + i >= vAdd[p]
  BY <1>9, <1>14
<1>17. /\ \A d \in missing : ent'[<<pdbr[p], d>>] = Mapping(alloc[d])
       /\ \A d \in Idx \ missing : ent'[<<pdbr[p], d>>] = ent[<<pdbr[p], d>>]
       /\ \A d \in missing, i \in Idx : ~ent'[<<alloc[d], i>>].pres
  BY <1>2, <1>12, <1>14, <1>15, UserFacts
<1> HIDE DEF taken
<1>18. \A u \in Pdpt, i \in Idx : ent'[<<u, i>>].swap =>
         /\ ent[<<u, i>>].swap
         /\ ent'[<<u, i>>] = ent[<<u, i>>] \/ \E d \in missing : u = alloc[d]
  <2>1. \A d \in missing : ~Mapping(alloc[d]).swap
    BY DEF Mapping
  <2>2. \A u \in taken : \E d \in missing : u = alloc[d]
    BY DEF taken
  <2> QED
    BY <1>14, <2>1, <2>2
<1>19. \A d \in User, i \in Idx : vAdd[p] <= NEnt * d + i /\ NEnt * d + i < vAdd[p] + n =>
         /\ d \in missing \/ Has(p, d)
         /\ ent'[<<IF d \in missing THEN alloc[d] ELSE Tab(p, d), i>>].valid
  <2> SUFFICES ASSUME NEW d \in User, NEW i \in Idx,
                      vAdd[p] <= NEnt * d + i, NEnt * d + i < vAdd[p] + n
               PROVE  /\ d \in missing \/ Has(p, d)
                      /\ ent'[<<IF d \in missing THEN alloc[d] ELSE Tab(p, d), i>>].valid
    OBVIOUS
  <2> DEFINE u == IF d \in missing THEN alloc[d] ELSE Tab(p, d)
  <2>1. <<d, i>> \in new /\ d \in dirs
    BY <1>4, <1>3a, UserFacts
  <2>2. <<u, i>> \in fresh
    BY <1>7, <2>1 DEF fresh
  <2>3. d \in missing \/ Has(p, d)
    BY <1>8, <2>1
  <2>4. u \in Pdpt
    BY <2>3 DEF OwnershipInv, Tables
  <2> HIDE DEF u
  <2> QED
    BY <1>14, <2>2, <2>3, <2>4 DEF u
<1>20. pdptUsed' = pdptUsed + Cardinality(missing)
  BY DEF Vmalloc, missing, dirs
<1>21. Validates(p, n, missing, alloc)
  BY <1>1, <1>5, <1>6, <1>15, <1>16, <1>17 DEF Validates
<1>22. Refreshes(p, n, missing, alloc)
  BY <1>18, <1>19, <1>20 DEF Refreshes
<1> QED
  BY <1>21, <1>22

\* What becomes of counters, blocks, directories and tables.
LEMMA VmallocTables ==
  ASSUME TypeOK, Disciplined, OwnershipInv, NEW p \in Proc, NEW n \in Sizes, Vmalloc(p, n),
         NEW missing, NEW alloc, Validates(p, n, missing, alloc)
  PROVE  LET taken == {alloc[d] : d \in missing} IN
         /\ alive[p] /\ n \in Nat /\ n > 0 /\ vAdd[p] \in Nat /\ pdbr[p] \in Pdpt
         /\ vAdd[p] + n < Top /\ vAdd[p] \in 0 .. Top - 1 /\ Top \in Nat
         /\ pc[p] = "user" /\ currpid = p
         /\ blocks' = [blocks EXCEPT ![p] = @ \cup {<<VPage(vAdd[p]), n>>}]
         /\ UNCHANGED <<fssAvail, fssPte, fssUsed, alive, pdbr, pc, victim, currpid, cr2>>
         /\ vAdd'[p] = vAdd[p] + n /\ vAdd'[p] \in Nat
         /\ \A q \in Proc : q # p => vAdd'[q] = vAdd[q]
         /\ \A u \in taken : u \in Pdpt /\ pdptAvail[u] /\ u \notin Golden
         /\ \A q \in Proc : alive[q] => pdbr[q] \notin taken /\ pdbr[q] \notin Golden /\ pdbr[q] \in Pdpt
         /\ \A q \in Proc, d \in User : Has(q, d) =>
              Tab(q, d) \notin taken /\ Tab(q, d) \notin Golden /\ Tab(q, d) \in Pdpt
         /\ \A u \in Pdpt, i \in Idx : u \in Golden \/ (pdptAvail[u] /\ u \notin taken) =>
              ent'[<<u, i>>] = ent[<<u, i>>]
         /\ \A d \in missing : Pde(p, d)' = Mapping(alloc[d])
         /\ \A d \in Idx \ missing : Pde(p, d)' = Pde(p, d)
         /\ \A q \in Proc, d \in Idx : alive[q] /\ q # p => Pde(q, d)' = Pde(q, d)
         /\ missing \in SUBSET User /\ \A d \in missing : ~Has(p, d)
         /\ \A q \in Proc, d \in User :
              /\ Has(q, d) => Has(q, d)' /\ Tab(q, d)' = Tab(q, d) /\ ~(q = p /\ d \in missing)
              /\ Has(q, d)' => Has(q, d) \/ (q = p /\ d \in missing)
         /\ \A d \in missing : Has(p, d)' /\ Tab(p, d)' = alloc[d] /\ alloc[d] \in taken
<1>2. /\ alive[p] /\ n \in Nat /\ n > 0 /\ vAdd[p] \in Nat /\ pdbr[p] \in Pdpt
      /\ vAdd[p] + n < Top /\ vAdd[p] \in 0 .. Top - 1 /\ Top \in Nat
      /\ pc[p] = "user" /\ currpid = p
      /\ vAdd' = [vAdd EXCEPT ![p] = (@ + n) % Top]
      /\ blocks' = [blocks EXCEPT ![p] = @ \cup {<<VPage(vAdd[p]), n>>}]
      /\ UNCHANGED <<fssAvail, fssPte, fssUsed, alive, pdbr, pc, victim, currpid, cr2>>
  BY PagingAssumption, Regions
     DEF Vmalloc, Executing, OwnershipInv, Control, Disciplined, TypeOK, fssVars, procVars, ctlVars, Top
<1>3. /\ vAdd'[p] = vAdd[p] + n /\ vAdd'[p] \in Nat
      /\ \A q \in Proc : q # p => vAdd'[q] = vAdd[q]
  <2>1. (vAdd[p] + n) % Top = vAdd[p] + n /\ vAdd[p] + n \in Nat
    BY <1>2
  <2>2. /\ vAdd'[p] = (vAdd[p] + n) % Top
        /\ \A q \in Proc : q # p => vAdd'[q] = vAdd[q]
    <3>1. vAdd \in [Proc -> 0 .. Top - 1]
      BY DEF TypeOK
    <3> QED
      BY <1>2, <3>1, Zenon
  <2> QED
    BY <2>1, <2>2
<1> USE DEF Validates
<1> DEFINE taken == {alloc[d] : d \in missing}
<1>4. \A u \in taken : u \in Pdpt /\ pdptAvail[u] /\ u \notin Golden
  BY DEF OwnershipInv, Tables
<1>5. /\ \A q \in Proc : alive[q] => pdbr[q] \notin taken /\ pdbr[q] \notin Golden /\ pdbr[q] \in Pdpt
      /\ \A q \in Proc, d \in User : Has(q, d) =>
           Tab(q, d) \notin taken /\ Tab(q, d) \notin Golden /\ Tab(q, d) \in Pdpt
  <2> HIDE DEF taken
  <2> QED
    BY <1>4 DEF OwnershipInv, Tables
<1>6. \A u \in Pdpt, i \in Idx :
        \/ ent'[<<u, i>>] = ent[<<u, i>>]
        \/ u = pdbr[p] \/ u \in taken
        \/ /\ ~ent'[<<u, i>>].pres
           /\ \E d \in User : Has(p, d) /\ u = Tab(p, d) /\ NEnt * d + i >= vAdd[p]
  OBVIOUS
<1>7. /\ \A d \in missing : Pde(p, d)' = Mapping(alloc[d])
      /\ \A d \in Idx \ missing : Pde(p, d)' = Pde(p, d)
  BY <1>2 DEF Pde
<1> HIDE DEF taken
<1>8. \A q \in Proc, d \in Idx : alive[q] /\ q # p => Pde(q, d)' = Pde(q, d)
  <2> SUFFICES ASSUME NEW q \in Proc, NEW d \in Idx, alive[q], q # p
               PROVE  ent'[<<pdbr[q], d>>] = ent[<<pdbr[q], d>>]
    BY <1>2 DEF Pde
  <2>1. pdbr[q] # pdbr[p] /\ \A e \in User : Has(p, e) => Tab(p, e) # pdbr[q]
    BY <1>2 DEF OwnershipInv, Tables
  <2> QED
    BY <1>5, <1>6, <2>1
<1>9. \A u \in Pdpt, i \in Idx : u \in Golden \/ (pdptAvail[u] /\ u \notin taken) =>
        ent'[<<u, i>>] = ent[<<u, i>>]
  BY <1>2, <1>4, <1>5, <1>6 DEF OwnershipInv, Tables
<1>10. missing \in SUBSET User /\ \A d \in missing : ~Has(p, d)
  BY DEF Has
<1>11. \A q \in Proc, d \in User :
         /\ Has(q, d) => Has(q, d)' /\ Tab(q, d)' = Tab(q, d) /\ ~(q = p /\ d \in missing)
         /\ Has(q, d)' => Has(q, d) \/ (q = p /\ d \in missing)
  <2>1. ASSUME NEW q \in Proc, NEW d \in User, ~(q = p /\ d \in missing)
        PROVE  Has(q, d)' = Has(q, d) /\ (Has(q, d) => Tab(q, d)' = Tab(q, d))
    BY <1>2, <1>7, <1>8, <2>1, UserFacts DEF Has, Tab
  <2> QED
    BY <1>10, <2>1
<1>12. \A d \in missing : Has(p, d)' /\ Tab(p, d)' = alloc[d] /\ alloc[d] \in taken
  BY <1>2, <1>7 DEF Has, Tab, Mapping, taken
<1> QED
  BY <1>2, <1>3, <1>4, <1>5, <1>7, <1>8, <1>9, <1>10, <1>11, <1>12 DEF taken

LEMMA VmallocStep ==
  ASSUME TypeOK, Disciplined, OwnershipInv, NEW p \in Proc, NEW n \in Sizes, Vmalloc(p, n)
  PROVE  OwnershipInv'
<1>1. PICK missing, alloc : Validates(p, n, missing, alloc)
  BY VmallocWrites
<1> USE DEF Validates
<1> DEFINE taken == {alloc[d] : d \in missing}
<1>2. /\ alive[p] /\ n \in Nat /\ n > 0 /\ vAdd[p] \in Nat /\ pdbr[p] \in Pdpt
      /\ vAdd[p] + n < Top /\ vAdd[p] \in 0 .. Top - 1 /\ Top \in Nat
      /\ pc[p] = "user" /\ currpid = p
      /\ blocks' = [blocks EXCEPT ![p] = @ \cup {<<VPage(vAdd[p]), n>>}]
      /\ UNCHANGED <<fssAvail, fssPte, fssUsed, alive, pdbr, pc, victim, currpid, cr2>>
  BY <1>1, VmallocTables
<1>3. /\ vAdd'[p] = vAdd[p] + n /\ vAdd'[p] \in Nat
      /\ \A q \in Proc : q # p => vAdd'[q] = vAdd[q]
  BY <1>1, VmallocTables
<1>4. \A u \in taken : u \in Pdpt /\ pdptAvail[u] /\ u \notin Golden
  BY <1>1, VmallocTables
<1>5. /\ \A q \in Proc : alive[q] => pdbr[q] \notin taken /\ pdbr[q] \notin Golden /\ pdbr[q] \in Pdpt
      /\ \A q \in Proc, d \in User : Has(q, d) =>
           Tab(q, d) \notin taken /\ Tab(q, d) \notin Golden /\ Tab(q, d) \in Pdpt
  BY <1>1, VmallocTables
<1>6. \A u \in Pdpt, i \in Idx :
        \/ ent'[<<u, i>>] = ent[<<u, i>>]
        \/ u = pdbr[p] \/ u \in taken
        \/ /\ ~ent'[<<u, i>>].pres
           /\ \E d \in User : Has(p, d) /\ u = Tab(p, d) /\ NEnt * d + i >= vAdd[p]
  BY <1>1
<1>7. /\ \A d \in missing : Pde(p, d)' = Mapping(alloc[d])
      /\ \A d \in Idx \ missing : Pde(p, d)' = Pde(p, d)
  BY <1>1, VmallocTables
<1>8. \A q \in Proc, d \in Idx : alive[q] /\ q # p => Pde(q, d)' = Pde(q, d)
  BY <1>1, VmallocTables
<1>9. \A u \in Pdpt, i \in Idx : u \in Golden \/ (pdptAvail[u] /\ u \notin taken) =>
        ent'[<<u, i>>] = ent[<<u, i>>]
  BY <1>1, VmallocTables
<1>10. missing \in SUBSET User /\ \A d \in missing : ~Has(p, d)
  BY <1>1, VmallocTables
<1>11. \A q \in Proc, d \in User :
         /\ Has(q, d) => Has(q, d)' /\ Tab(q, d)' = Tab(q, d) /\ ~(q = p /\ d \in missing)
         /\ Has(q, d)' => Has(q, d) \/ (q = p /\ d \in missing)
  BY <1>1, VmallocTables
<1>12. \A d \in missing : Has(p, d)' /\ Tab(p, d)' = alloc[d] /\ alloc[d] \in taken
  BY <1>1, VmallocTables
<1> HIDE DEF taken
<1>13. Tables'
  <2>1. /\ \A u \in Pdpt : pdptAvail'[u] <=> pdptAvail[u] /\ u \notin taken
    BY <1>1, ZenonT(30) DEF TypeOK, taken
  <2>2. \A u \in Golden : ~pdptAvail'[u]
    BY <2>1, Regions DEF OwnershipInv, Tables
  <2>3. \A q \in Proc : alive'[q] => pdbr'[q] \in Pdpt \ Golden /\ ~pdptAvail'[pdbr'[q]]
    BY <1>2, <1>5, <2>1 DEF OwnershipInv, Tables
  <2>4. \A q \in Proc, d \in User : Has(q, d)' =>
          Tab(q, d)' \in Pdpt \ Golden /\ ~pdptAvail'[Tab(q, d)']
    BY <1>4, <1>5, <1>11, <1>12, <2>1 DEF OwnershipInv, Tables
  <2>5. \A q, r \in Proc : alive'[q] /\ alive'[r] /\ pdbr'[q] = pdbr'[r] => q = r
    BY <1>2 DEF OwnershipInv, Tables
  <2>6. \A q, r \in Proc, d, e \in User :
          Has(q, d)' /\ Has(r, e)' /\ Tab(q, d)' = Tab(r, e)' => q = r /\ d = e
    <3> SUFFICES ASSUME NEW q \in Proc, NEW r \in Proc, NEW d \in User, NEW e \in User,
                        Has(q, d)', Has(r, e)', Tab(q, d)' = Tab(r, e)'
                 PROVE  q = r /\ d = e
      OBVIOUS
    <3>1. CASE Has(q, d) /\ Has(r, e)
      BY <1>11, <3>1 DEF OwnershipInv, Tables
    <3>2. CASE Has(q, d) /\ ~Has(r, e)
      BY <1>5, <1>11, <1>12, <3>2
    <3>3. CASE ~Has(q, d) /\ Has(r, e)
      BY <1>5, <1>11, <1>12, <3>3
    <3>4. CASE ~Has(q, d) /\ ~Has(r, e)
      BY <1>1, <1>11, <1>12, <3>4
    <3> QED
      BY <3>1, <3>2, <3>3, <3>4
  <2>7. \A q, r \in Proc, d \in User : Has(q, d)' /\ alive'[r] => Tab(q, d)' # pdbr'[r]
    BY <1>2, <1>5, <1>11, <1>12 DEF OwnershipInv, Tables
  <2>8. ASSUME NEW u \in Pdpt, ~pdptAvail'[u]
        PROVE  \/ u \in Golden
               \/ \E q \in Proc : alive'[q] /\ pdbr'[q] = u
               \/ \E q \in Proc, d \in User : Has(q, d)' /\ Tab(q, d)' = u
    <3>1. CASE u \in taken
      <4>1. PICK d \in missing : u = alloc[d]
        BY <3>1 DEF taken
      <4> QED
        BY <1>10, <1>12, <4>1
    <3>2. CASE u \notin taken
      <4>1. ~pdptAvail[u]
        BY <2>1, <2>8, <3>2
      <4> QED
        BY <1>2, <1>11, <4>1 DEF OwnershipInv, Tables
    <3> QED
      BY <3>1, <3>2
  <2> QED
    BY <2>2, <2>3, <2>4, <2>5, <2>6, <2>7, <2>8 DEF Tables
<1>14. Directories'
  <2>1. GoldenPd \in Golden /\ Golden \subseteq Pdpt /\ \A d \in 0 .. NGold - 1 : d \in Idx
    BY Regions, PagingAssumption DEF GoldenPd, Golden, Idx
  <2>2. /\ \A d \in 0 .. NGold - 1 : ent'[<<GoldenPd, d>>] = Mapping(d + 2)
        /\ \A u \in Golden \ {GoldenPd}, i \in Idx : ent'[<<u, i>>] = Mapping(0)
    BY <1>9, <2>1 DEF OwnershipInv, Directories
  <2>3. \A d \in Kernel : ent'[<<GoldenPd, d>>] = ent[<<GoldenPd, d>>]
    BY <1>9, <2>1, UserFacts
  <2>4. ASSUME NEW q \in Proc, alive'[q]
        PROVE  /\ \A d \in Kernel : Pde(q, d)' = ent'[<<GoldenPd, d>>]
               /\ \A d \in User : Pde(q, d)'.valid = Pde(q, d)'.pres
               /\ \A d \in User : ~Pde(q, d)'.pres => Pde(q, d)'.base = 0
    <3>1. /\ \A d \in Kernel : Pde(q, d)' = Pde(q, d)
          /\ \A d \in User : Pde(q, d)' = Pde(q, d) \/ (d \in missing /\ Pde(q, d)' = Mapping(alloc[d]))
      BY <1>2, <1>7, <1>8, <1>10, <2>4, UserFacts
    <3>2. \A d \in missing : Mapping(alloc[d]).valid = TRUE /\ Mapping(alloc[d]).pres = TRUE
      BY DEF Mapping
    <3>3. /\ \A d \in Kernel : Pde(q, d) = ent[<<GoldenPd, d>>]
          /\ \A d \in User : Pde(q, d).valid = Pde(q, d).pres
          /\ \A d \in User : ~Pde(q, d).pres => Pde(q, d).base = 0
      BY <1>2, <2>4 DEF OwnershipInv, Directories
    <3> QED
      BY <2>3, <3>1, <3>2, <3>3
  <2>5. \A u \in Pdpt, d \in User : pdptAvail'[u] => ~ent'[<<u, d>>].valid /\ ~ent'[<<u, d>>].pres
    <3>1. \A u \in Pdpt : pdptAvail'[u] => pdptAvail[u] /\ u \notin taken
      BY <1>1 DEF taken
    <3> QED
      BY <1>9, <3>1, UserFacts DEF OwnershipInv, Directories
  <2> QED
    BY <2>2, <2>4, <2>5 DEF Directories
\* Entries that were present stay, and no other becomes present.
<1>15. /\ \A q \in Proc, d \in User, i \in Idx : Has(q, d)' /\ Pte(q, d, i)'.pres =>
             Has(q, d) /\ Pte(q, d, i)' = Pte(q, d, i)
       /\ \A q \in Proc, d \in User, i \in Idx : Has(q, d) /\ Pte(q, d, i).pres =>
             Has(q, d)' /\ Pte(q, d, i)' = Pte(q, d, i)
  <2>1. ASSUME NEW q \in Proc, NEW d \in User, NEW i \in Idx, Has(q, d)
        PROVE  \/ Pte(q, d, i)' = Pte(q, d, i)
               \/ ~Pte(q, d, i)'.pres /\ ~Pte(q, d, i).pres
    <3>1. /\ Pte(q, d, i) = ent[<<Tab(q, d), i>>] /\ Pte(q, d, i)' = ent'[<<Tab(q, d), i>>]
          /\ Tab(q, d) # pdbr[p]
      BY <1>2, <1>11, <2>1 DEF Pte, OwnershipInv, Tables
    <3>2. ASSUME NEW e \in User, Has(p, e), Tab(q, d) = Tab(p, e), NEnt * e + i >= vAdd[p]
          PROVE  ~Pte(q, d, i).pres
      <4>1. q = p /\ d = e
        BY <2>1, <3>2 DEF OwnershipInv, Tables
      <4>2. Pte(p, d, i).pres => NEnt * d + i < vAdd[p]
        BY <2>1, <4>1 DEF OwnershipInv, Frames
      <4>3. NEnt * d + i \in Nat
        BY Regions, UserFacts
      <4> QED
        BY <1>2, <3>2, <4>1, <4>2, <4>3
    <3> QED
      BY <1>5, <1>6, <2>1, <3>1, <3>2
  <2>2. ASSUME NEW d \in missing, NEW i \in Idx
        PROVE  ~Pte(p, d, i)'.pres
    BY <1>1, <1>12 DEF Pte
  <2>3. \A q \in Proc, d \in User, i \in Idx : Has(q, d)' /\ Pte(q, d, i)'.pres => Has(q, d)
    BY <1>11, <2>2
  <2> QED
    BY <1>11, <2>1, <2>3
<1>16. Frames'
  <2>1. ASSUME NEW q \in Proc, NEW d \in User, NEW i \in Idx, Has(q, d)', Pte(q, d, i)'.pres
        PROVE  /\ Pte(q, d, i)'.base \in Fss /\ ~Pte(q, d, i)'.swap
               /\ ~fssAvail'[Pte(q, d, i)'.base]
               /\ fssPte'[Pte(q, d, i)'.base] = <<Tab(q, d)', i>>
               /\ NEnt * d + i < vAdd'[q]
    <3>1. Has(q, d) /\ Pte(q, d, i)' = Pte(q, d, i) /\ Pte(q, d, i).pres /\ Tab(q, d)' = Tab(q, d)
      BY <1>11, <1>15, <2>1
    <3>2. NEnt * d + i < vAdd[q] /\ NEnt * d + i \in Nat /\ vAdd[q] \in Nat
      BY <3>1, LinearType, UserFacts DEF OwnershipInv, Frames
    <3>3. NEnt * d + i < vAdd'[q]
      BY <1>2, <1>3, <3>2
    <3> QED
      BY <1>2, <3>1, <3>3 DEF OwnershipInv, Frames
  <2>2. ASSUME NEW f \in Fss, ~fssAvail'[f]
        PROVE  \E q \in Proc, d \in User, i \in Idx :
                 /\ Has(q, d)' /\ Pte(q, d, i)'.pres /\ Pte(q, d, i)'.base = f
                 /\ fssPte'[f] = <<Tab(q, d)', i>>
    <3>1. PICK q \in Proc, d \in User, i \in Idx :
            /\ Has(q, d) /\ Pte(q, d, i).pres /\ Pte(q, d, i).base = f
            /\ fssPte[f] = <<Tab(q, d), i>>
      BY <1>2, <2>2 DEF OwnershipInv, Frames
    <3> QED
      BY <1>2, <1>11, <1>15, <3>1
  <2> QED
    BY <2>1, <2>2 DEF Frames
<1>17. Heap'
  <2>1. /\ \A q \in Proc : q # p => blocks'[q] = blocks[q]
        /\ blocks'[p] = blocks[p] \cup {<<VPage(vAdd[p]), n>>}
    BY <1>2 DEF TypeOK
  <2>2. Linear(VPage(vAdd[p])) = vAdd[p]
    BY <1>2, DivFacts, Regions DEF VPage, Linear
  <2>3. NEnt * HeapIdx \in Nat /\ \A q \in Proc : \A b \in blocks[q] : Linear(b[1]) + b[2] \in Nat
    <3>1. ASSUME NEW q \in Proc, NEW b \in blocks[q]
          PROVE  Linear(b[1]) + b[2] \in Nat
      <4>1. b \in (Idx \X Idx) \X Sizes
        BY DEF TypeOK
      <4>2. b[1] \in Idx \X Idx /\ b[2] \in Nat
        BY <4>1, PagingAssumption
      <4>3. Linear(b[1]) \in Nat
        BY <4>2, LinearType
      <4> QED
        BY <4>2, <4>3
    <3> QED
      BY <3>1, LinearType
  <2>4. NEnt * HeapIdx <= vAdd[p] /\ \A b \in blocks[p] :
          NEnt * HeapIdx <= Linear(b[1]) /\ Linear(b[1]) + b[2] <= vAdd[p]
    BY <1>2 DEF OwnershipInv, Heap, Live
  <2>5. NEnt * HeapIdx <= vAdd'[p] /\ \A b \in blocks'[p] :
          NEnt * HeapIdx <= Linear(b[1]) /\ Linear(b[1]) + b[2] <= vAdd'[p]
    BY <1>2, <1>3, <2>1, <2>2, <2>3, <2>4
  <2> QED
    BY <1>2, <1>3, <2>1, <2>5 DEF OwnershipInv, Heap, Live
<1>18. Control' /\ FaultServed' /\ FramesCounted'
  BY <1>2 DEF OwnershipInv, Control, FaultServed, FramesCounted
<1> QED
  BY <1>13, <1>14, <1>16, <1>17, <1>18 DEF OwnershipInv
(***************************************************************************)
(* vfree and kill: tables of process p, the entries A of its tables, and   *)
(* its directory when it dies, go back to their regions.                   *)
(***************************************************************************)
Returns(p, D, A) ==
  /\ alive[p] /\ D \in SUBSET User /\ \A d \in D : Has(p, d)
  /\ A \in SUBSET Addr /\ \A a \in A : \E d \in User : Has(p, d) /\ a[1] = Tab(p, d)
  /\ \A d \in D, i \in Idx :
       <<Tab(p, d), i>> \in A \/ (~Pte(p, d, i).valid /\ ~Pte(p, d, i).pres)
  /\ Reclaim(A)
  /\ ent' = Cleared({<<pdbr[p], d>> : d \in D}, A)
  /\ pdptAvail' = [t \in Pdpt |->
       pdptAvail[t] \/ (\E d \in D : t = Tab(p, d)) \/ (t = pdbr[p] /\ ~alive'[p])]
  /\ \A q \in Proc : q # p => alive'[q] = alive[q]
  /\ ~alive'[p] => \A d \in User : Has(p, d) => d \in D
  /\ UNCHANGED <<pdbr, vAdd>>

\* The frames given back are as many as the entries that mapped them.
LEMMA ReclaimCount ==
  ASSUME TypeOK, OwnershipInv, NEW p \in Proc, NEW D, NEW A, Returns(p, D, A)
  PROVE  FramesCounted'
<1> DEFINE frames == {a \in A : ent[a].pres /\ ~ent[a].swap /\ ent[a].base \in Fss}
           freed  == {ent[a].base : a \in frames}
           inUse  == {f \in Fss : ~fssAvail[f]}
<1>1. /\ A \in SUBSET Addr /\ fssUsed' = Less(fssUsed, Cardinality(frames))
      /\ fssAvail' = [f \in Fss |-> fssAvail[f] \/ \E a \in frames : ent[a].base = f]
  BY DEF Returns, Reclaim
<1>2. \A a \in frames : ent[a].base \in inUse /\ fssPte[ent[a].base] = a
  <2> SUFFICES ASSUME NEW a \in A, ent[a].pres, ent[a].base \in Fss
               PROVE  ~fssAvail[ent[a].base] /\ fssPte[ent[a].base] = a
    OBVIOUS
  <2>1. PICK d \in User : Has(p, d) /\ a[1] = Tab(p, d)
    BY DEF Returns
  <2>2. a[2] \in Idx /\ a = <<Tab(p, d), a[2]>>
    BY <1>1, <2>1 DEF Addr
  <2>3. ent[a] = Pte(p, d, a[2])
    BY <2>2 DEF Pte
  <2>4. Pte(p, d, a[2]).pres /\ Pte(p, d, a[2]).base = ent[a].base
    BY <2>3
  <2>5. ~fssAvail[Pte(p, d, a[2]).base] /\ fssPte[Pte(p, d, a[2]).base] = <<Tab(p, d), a[2]>>
    BY <2>1, <2>2, <2>4 DEF OwnershipInv, Frames
  <2> QED
    BY <2>2, <2>4, <2>5
<1>3. freed \in SUBSET inUse
  BY <1>2
<1>4. IsFiniteSet(inUse) /\ IsFiniteSet(frames) /\ IsFiniteSet(freed)
  <2>1. IsFiniteSet(inUse)
    BY Finite, FS_Subset
  <2>2. IsFiniteSet(frames)
    BY <1>1, Finite
  <2> QED
    BY <1>3, <2>1, <2>2, FS_Subset
<1>5. Cardinality(freed) = Cardinality(frames)
  <2> DEFINE g == [a \in frames |-> ent[a].base]
  <2>1. g \in [frames -> freed]
    OBVIOUS
  <2>2. \A a, b \in frames : g[a] = g[b] => a = b
    BY <1>2
  <2>3. \A f \in freed : \E a \in frames : g[a] = f
    OBVIOUS
  <2> HIDE DEF frames, freed, g
  <2>4. g \in Bijection(frames, freed)
    BY <2>1, <2>2, <2>3 DEF Bijection, Injection, Surjection, IsInjective
  <2>5. ExistsBijection(frames, freed)
    BY <2>4 DEF ExistsBijection
  <2> QED
    BY <1>4, <2>5, FS_Bijection
<1>6. {f \in Fss : ~fssAvail'[f]} = inUse \ freed
  BY <1>1 DEF TypeOK
<1> HIDE DEF inUse, freed, frames
<1>7. /\ Cardinality(inUse \ freed) = Cardinality(inUse) - Cardinality(freed)
      /\ Cardinality(freed) <= Cardinality(inUse)
      /\ Cardinality(inUse) \in Nat /\ Cardinality(freed) \in Nat
  <2>1. inUse \cap freed = freed
    BY <1>3
  <2>2. Cardinality(inUse \ freed) = Cardinality(inUse) - Cardinality(inUse \cap freed)
    BY <1>4, FS_Difference
  <2>3. Cardinality(freed) <= Cardinality(inUse)
    BY <1>3, <1>4, FS_Subset
  <2> QED
    BY <1>4, <2>1, <2>2, <2>3, FS_CardinalityType
<1>8. fssUsed = Cardinality(inUse)
  BY DEF OwnershipInv, FramesCounted, inUse
<1>9. fssUsed' = fssUsed - Cardinality(frames)
  BY <1>1, <1>5, <1>7, <1>8 DEF Less
<1> QED
  BY <1>5, <1>6, <1>7, <1>8, <1>9 DEF FramesCounted
\* The entries and the directory entries that are cleared, and no others.
ClearsOnly(p, D, A) ==
  \A u \in Pdpt, i \in Idx :
    ent'[<<u, i>>] = IF (u = pdbr[p] /\ i \in D) \/ <<u, i>> \in A THEN Zero ELSE ent[<<u, i>>]

LEMMA ReturnsWrites ==
  ASSUME TypeOK, OwnershipInv, NEW p \in Proc, NEW D, NEW A, Returns(p, D, A),
         alive' \in [Proc -> BOOLEAN]
  PROVE  /\ ClearsOnly(p, D, A)
         /\ \A u, i : <<u, i>> \in A =>
              u \notin Golden /\ ~pdptAvail[u] /\ \A q \in Proc : alive[q] => u # pdbr[q]
         /\ \A q \in Proc, d \in Idx : alive[q] =>
              Pde(q, d)' = IF q = p /\ d \in D THEN Zero ELSE Pde(q, d)
         /\ \A q \in Proc, d \in User :
              /\ Has(q, d)' <=> Has(q, d) /\ ~(q = p /\ d \in D)
              /\ Has(q, d)' => Tab(q, d)' = Tab(q, d) /\ alive[q] /\ alive'[q]
<1> USE DEF Returns
<1>1. /\ alive[p] /\ pdbr[p] \in Pdpt /\ D \in SUBSET Idx
      /\ \A q \in Proc : alive'[q] => alive[q]
  BY UserFacts DEF TypeOK
<1>2. \A u \in Pdpt, i \in Idx :
        ent'[<<u, i>>] = IF (u = pdbr[p] /\ i \in D) \/ <<u, i>> \in A THEN Zero ELSE ent[<<u, i>>]
  BY <1>1 DEF Cleared, Addr
\* The entries in A are in tables of p: in no directory, golden or free table.
<1>3. \A u, i : <<u, i>> \in A => i \in Idx /\ \E d \in User : Has(p, d) /\ u = Tab(p, d)
  BY DEF Addr
<1>4. \A u, i : <<u, i>> \in A =>
        u \notin Golden /\ ~pdptAvail[u] /\ \A q \in Proc : alive[q] => u # pdbr[q]
  BY <1>3 DEF OwnershipInv, Tables
<1>5. \A q \in Proc, d \in Idx : alive[q] =>
        Pde(q, d)' = IF q = p /\ d \in D THEN Zero ELSE Pde(q, d)
  <2> SUFFICES ASSUME NEW q \in Proc, NEW d \in Idx, alive[q]
               PROVE  ent'[<<pdbr[q], d>>] = IF q = p /\ d \in D THEN Zero ELSE ent[<<pdbr[q], d>>]
    BY DEF Pde
  <2>1. pdbr[q] \in Pdpt /\ (pdbr[q] = pdbr[p] => q = p)
    BY <1>1 DEF OwnershipInv, Tables, TypeOK
  <2> QED
    BY <1>2, <1>4, <2>1
<1>6. \A q \in Proc, d \in User :
        /\ Has(q, d)' <=> Has(q, d) /\ ~(q = p /\ d \in D)
        /\ Has(q, d)' => Tab(q, d)' = Tab(q, d) /\ alive[q] /\ alive'[q]
  <2>1. ASSUME NEW q \in Proc, NEW d \in User, q = p, d \in D
        PROVE  ~Has(q, d)'
    <3>1. Pde(q, d)' = Zero
      BY <1>1, <1>5, <2>1
    <3> QED
      BY <3>1 DEF Has, Zero
  <2>2. ASSUME NEW q \in Proc, NEW d \in User, ~(q = p /\ d \in D)
        PROVE  /\ Has(q, d)' <=> Has(q, d)
               /\ Has(q, d) => Tab(q, d)' = Tab(q, d) /\ alive[q] /\ alive'[q]
    <3>1. alive[q] => Pde(q, d)' = Pde(q, d)
      BY <1>5, <2>2, UserFacts
    <3>2. Has(q, d) => alive'[q]
      BY <2>2 DEF Has
    <3> QED
      BY <1>1, <3>1, <3>2 DEF Has, Tab
  <2> QED
    BY <2>1, <2>2
<1> QED
  BY <1>2, <1>4, <1>5, <1>6 DEF ClearsOnly

LEMMA ReturnsStep ==
  ASSUME TypeOK, OwnershipInv, NEW p \in Proc, NEW D, NEW A, Returns(p, D, A),
         alive' \in [Proc -> BOOLEAN]
  PROVE  Directories' /\ Tables' /\ Frames' /\ FramesCounted'
<1>1. /\ alive[p] /\ pdbr[p] \in Pdpt /\ D \in SUBSET Idx
      /\ \A q \in Proc : alive'[q] => alive[q]
  BY UserFacts DEF TypeOK, Returns
<1>2. \A u \in Pdpt, i \in Idx :
        ent'[<<u, i>>] = IF (u = pdbr[p] /\ i \in D) \/ <<u, i>> \in A THEN Zero ELSE ent[<<u, i>>]
  <2>1. ClearsOnly(p, D, A)
    BY ReturnsWrites
  <2> QED
    BY <2>1 DEF ClearsOnly
<1>4. \A u, i : <<u, i>> \in A =>
        u \notin Golden /\ ~pdptAvail[u] /\ \A q \in Proc : alive[q] => u # pdbr[q]
  BY ReturnsWrites
<1>5. \A q \in Proc, d \in Idx : alive[q] =>
        Pde(q, d)' = IF q = p /\ d \in D THEN Zero ELSE Pde(q, d)
  BY ReturnsWrites
<1>6. \A q \in Proc, d \in User :
        /\ Has(q, d)' <=> Has(q, d) /\ ~(q = p /\ d \in D)
        /\ Has(q, d)' => Tab(q, d)' = Tab(q, d) /\ alive[q] /\ alive'[q]
  BY ReturnsWrites
<1> USE DEF Returns
<1>7. \A u \in Pdpt : pdptAvail'[u] <=>
        pdptAvail[u] \/ (\E d \in D : u = Tab(p, d)) \/ (u = pdbr[p] /\ ~alive'[p])
  OBVIOUS
<1>8. Tables'
  <2>1. \A u \in Golden : ~pdptAvail'[u]
    BY <1>1, <1>7, Regions DEF OwnershipInv, Tables
  <2>2. ASSUME NEW q \in Proc, alive'[q]
        PROVE  pdbr'[q] \in Pdpt \ Golden /\ ~pdptAvail'[pdbr'[q]]
    <3>1. alive[q] /\ pdbr[q] \in Pdpt \ Golden /\ ~pdptAvail[pdbr[q]] /\ (pdbr[q] = pdbr[p] => q = p)
      BY <1>1, <2>2 DEF OwnershipInv, Tables
    <3>2. \A d \in D : Tab(p, d) # pdbr[q]
      BY <3>1 DEF OwnershipInv, Tables
    <3> QED
      BY <1>7, <2>2, <3>1, <3>2
  <2>3. ASSUME NEW q \in Proc, NEW d \in User, Has(q, d)'
        PROVE  Tab(q, d)' \in Pdpt \ Golden /\ ~pdptAvail'[Tab(q, d)']
    <3>1. Has(q, d) /\ ~(q = p /\ d \in D) /\ Tab(q, d)' = Tab(q, d)
      BY <1>6, <2>3
    <3>2. Tab(q, d) \in Pdpt \ Golden /\ ~pdptAvail[Tab(q, d)] /\ Tab(q, d) # pdbr[p]
      BY <1>1, <3>1 DEF OwnershipInv, Tables
    <3>3. \A e \in D : Tab(q, d) # Tab(p, e)
      BY <3>1 DEF OwnershipInv, Tables
    <3> QED
      BY <1>7, <3>1, <3>2, <3>3
  <2>4. \A q, r \in Proc : alive'[q] /\ alive'[r] /\ pdbr'[q] = pdbr'[r] => q = r
    BY <1>1 DEF OwnershipInv, Tables
  <2>5. \A q, r \in Proc, d, e \in User :
          Has(q, d)' /\ Has(r, e)' /\ Tab(q, d)' = Tab(r, e)' => q = r /\ d = e
    BY <1>6 DEF OwnershipInv, Tables
  <2>6. \A q, r \in Proc, d \in User : Has(q, d)' /\ alive'[r] => Tab(q, d)' # pdbr'[r]
    BY <1>1, <1>6 DEF OwnershipInv, Tables
  <2>7. ASSUME NEW u \in Pdpt, ~pdptAvail'[u]
        PROVE  \/ u \in Golden
               \/ \E q \in Proc : alive'[q] /\ pdbr'[q] = u
               \/ \E q \in Proc, d \in User : Has(q, d)' /\ Tab(q, d)' = u
    <3>1. ~pdptAvail[u] /\ (\A d \in D : u # Tab(p, d)) /\ (u = pdbr[p] => alive'[p])
      BY <1>7, <2>7
    <3>2. ASSUME NEW q \in Proc, alive[q], pdbr[q] = u
          PROVE  alive'[q] /\ pdbr'[q] = u
      BY <3>1, <3>2
    <3>3. ASSUME NEW q \in Proc, NEW d \in User, Has(q, d), Tab(q, d) = u
          PROVE  Has(q, d)' /\ Tab(q, d)' = u
      BY <1>6, <3>1, <3>3
    <3> QED
      BY <3>1, <3>2, <3>3 DEF OwnershipInv, Tables
  <2> QED
    BY <2>1, <2>2, <2>3, <2>4, <2>5, <2>6, <2>7 DEF Tables
<1>9. Directories'
  <2>1. GoldenPd \in Golden /\ Golden \subseteq Pdpt /\ \A d \in 0 .. NGold - 1 : d \in Idx
    BY Regions, PagingAssumption DEF GoldenPd, Golden, Idx
  <2>2. pdbr[p] \notin Golden
    BY <1>1 DEF OwnershipInv, Tables
  <2>3. ASSUME NEW u \in Golden, NEW i \in Idx
        PROVE  ent'[<<u, i>>] = ent[<<u, i>>]
    <3>1. u \in Pdpt /\ u # pdbr[p] /\ <<u, i>> \notin A
      BY <1>4, <2>1, <2>2
    <3>2. ent'[<<u, i>>] = IF (u = pdbr[p] /\ i \in D) \/ <<u, i>> \in A THEN Zero ELSE ent[<<u, i>>]
      BY <1>2, <3>1
    <3> QED
      BY <3>1, <3>2
  <2>4. /\ \A d \in 0 .. NGold - 1 : ent'[<<GoldenPd, d>>] = Mapping(d + 2)
        /\ \A u \in Golden \ {GoldenPd}, i \in Idx : ent'[<<u, i>>] = Mapping(0)
    BY <2>1, <2>3 DEF OwnershipInv, Directories
  <2>5. ASSUME NEW q \in Proc, alive'[q]
        PROVE  /\ \A d \in Kernel : Pde(q, d)' = ent'[<<GoldenPd, d>>]
               /\ \A d \in User : Pde(q, d)'.valid = Pde(q, d)'.pres
               /\ \A d \in User : ~Pde(q, d)'.pres => Pde(q, d)'.base = 0
    <3>1. /\ \A d \in Kernel : Pde(q, d)' = Pde(q, d) /\ ent'[<<GoldenPd, d>>] = ent[<<GoldenPd, d>>]
          /\ \A d \in User : Pde(q, d)' = Pde(q, d) \/ Pde(q, d)' = Zero
      BY <1>1, <1>5, <2>1, <2>3, <2>5, UserFacts
    <3>2. Zero.valid = Zero.pres /\ Zero.base = 0
      BY DEF Zero
    <3>3. /\ \A d \in Kernel : Pde(q, d) = ent[<<GoldenPd, d>>]
          /\ \A d \in User : Pde(q, d).valid = Pde(q, d).pres
          /\ \A d \in User : ~Pde(q, d).pres => Pde(q, d).base = 0
      BY <1>1, <2>5 DEF OwnershipInv, Directories
    <3> QED
      BY <3>1, <3>2, <3>3
  <2>6. ASSUME NEW u \in Pdpt, NEW e \in User, pdptAvail'[u]
        PROVE  ~ent'[<<u, e>>].valid /\ ~ent'[<<u, e>>].pres
    <3>1. e \in Idx /\ ~Zero.valid /\ ~Zero.pres
      BY UserFacts DEF Zero
    <3>2. CASE ent'[<<u, e>>] = Zero
      BY <3>1, <3>2
    <3>3. CASE ent'[<<u, e>>] # Zero
      <4>1. ent'[<<u, e>>] = ent[<<u, e>>] /\ <<u, e>> \notin A /\ ~(u = pdbr[p] /\ e \in D)
        BY <1>2, <3>1, <3>3
      <4>2. CASE pdptAvail[u]
        BY <4>1, <4>2 DEF OwnershipInv, Directories
      <4>3. ASSUME NEW d \in D, u = Tab(p, d)
            PROVE  ~ent[<<u, e>>].valid /\ ~ent[<<u, e>>].pres
        BY <3>1, <4>1, <4>3 DEF Pte
      <4>4. ASSUME u = pdbr[p], ~alive'[p]
            PROVE  ~ent[<<u, e>>].valid /\ ~ent[<<u, e>>].pres
        <5>1. ~Has(p, e)
          BY <4>1, <4>4
        <5>2. ~Pde(p, e).pres /\ Pde(p, e).valid = Pde(p, e).pres
          BY <1>1, <5>1 DEF Has, OwnershipInv, Directories
        <5> QED
          BY <4>4, <5>2 DEF Pde
      <4> QED
        BY <1>7, <2>6, <4>1, <4>2, <4>3, <4>4
    <3> QED
      BY <3>2, <3>3
  <2> QED
    BY <2>4, <2>5, <2>6 DEF Directories
<1>10. Frames'
  <2>1. ASSUME NEW q \in Proc, NEW d \in User, NEW i \in Idx, Has(q, d), <<Tab(q, d), i>> \notin A
        PROVE  ent'[<<Tab(q, d), i>>] = Pte(q, d, i)
    <3>1. Tab(q, d) \in Pdpt /\ Tab(q, d) # pdbr[p]
      BY <1>1, <2>1 DEF OwnershipInv, Tables
    <3> QED
      BY <1>2, <2>1, <3>1 DEF Pte
  <2>2. ASSUME NEW q \in Proc, NEW d \in User, NEW i \in Idx, Has(q, d)', Pte(q, d, i)'.pres
        PROVE  /\ Pte(q, d, i)'.base \in Fss /\ ~Pte(q, d, i)'.swap
               /\ ~fssAvail'[Pte(q, d, i)'.base]
               /\ fssPte'[Pte(q, d, i)'.base] = <<Tab(q, d)', i>>
               /\ NEnt * d + i < vAdd'[q]
    <3>1. Has(q, d) /\ Tab(q, d)' = Tab(q, d) /\ Tab(q, d) \in Pdpt
      BY <1>6, <2>2 DEF OwnershipInv, Tables
    <3>2. Pte(q, d, i)' = ent'[<<Tab(q, d), i>>]
      BY <3>1 DEF Pte
    <3>3. <<Tab(q, d), i>> \notin A
      <4>1. ~Zero.pres
        BY DEF Zero
      <4>2. ent'[<<Tab(q, d), i>>] # Zero
        BY <2>2, <3>2, <4>1
      <4> QED
        BY <1>2, <3>1, <4>2
    <3>4. Pte(q, d, i)' = Pte(q, d, i)
      BY <2>1, <3>1, <3>2, <3>3
    <3> DEFINE f == Pte(q, d, i).base
    <3>5. /\ f \in Fss /\ ~Pte(q, d, i).swap /\ ~fssAvail[f] /\ fssPte[f] = <<Tab(q, d), i>>
          /\ NEnt * d + i < vAdd[q]
      BY <2>2, <3>1, <3>4 DEF OwnershipInv, Frames
    <3>6. ~fssAvail'[f]
      <4>1. SUFFICES ASSUME NEW a \in A, ent[a].pres, ent[a].base = f
                     PROVE  FALSE
        BY <3>5 DEF Reclaim
      <4>2. PICK e \in User : Has(p, e) /\ a[1] = Tab(p, e)
        OBVIOUS
      <4>3. a[2] \in Idx /\ a = <<Tab(p, e), a[2]>>
        BY <4>2 DEF Addr
      <4>4. Pte(p, e, a[2]).pres /\ Pte(p, e, a[2]).base = f
        BY <4>1, <4>3 DEF Pte
      <4>5. fssPte[f] = a
        BY <4>2, <4>3, <4>4 DEF OwnershipInv, Frames
      <4> QED
        BY <3>3, <3>5, <4>5
    <3> QED
      BY <3>1, <3>4, <3>5, <3>6 DEF Reclaim
  <2>3. ASSUME NEW f \in Fss, ~fssAvail'[f]
        PROVE  \E q \in Proc, d \in User, i \in Idx :
                 /\ Has(q, d)' /\ Pte(q, d, i)'.pres /\ Pte(q, d, i)'.base = f
                 /\ fssPte'[f] = <<Tab(q, d)', i>>
    <3>1. ~fssAvail[f] /\ ~\E a \in A : ent[a].pres /\ ~ent[a].swap /\ ent[a].base = f
      BY <2>3 DEF Reclaim
    <3>2. PICK q \in Proc, d \in User, i \in Idx :
            /\ Has(q, d) /\ Pte(q, d, i).pres /\ Pte(q, d, i).base = f
            /\ fssPte[f] = <<Tab(q, d), i>>
      BY <3>1 DEF OwnershipInv, Frames
    <3>3. ~Pte(q, d, i).swap
      BY <3>2 DEF OwnershipInv, Frames
    <3>4. <<Tab(q, d), i>> \notin A
      BY <3>1, <3>2, <3>3 DEF Pte
    <3>5. ~(q = p /\ d \in D)
      BY <3>2, <3>4
    <3>6. Has(q, d)' /\ Tab(q, d)' = Tab(q, d)
      BY <1>6, <3>2, <3>5
    <3>7. Pte(q, d, i)' = Pte(q, d, i)
      BY <2>1, <3>2, <3>4, <3>6 DEF Pte
    <3> QED
      BY <3>2, <3>6, <3>7 DEF Reclaim
  <2> QED
    BY <2>2, <2>3 DEF Frames
<1> QED
  BY <1>8, <1>9, <1>10, ReclaimCount

\* A heap index, from a linear page number in the heap.
LEMMA HeapDir ==
  ASSUME NEW x \in Idx, NEW y \in Idx, NEnt * HeapIdx <= NEnt * x + y
  PROVE  x \in User
<1>1. /\ NEnt \in Nat /\ NEnt > 0 /\ HeapIdx \in Nat /\ x \in Nat /\ y \in 0 .. NEnt - 1
  BY Regions, PagingAssumption DEF Idx
<1>2. \A m, h, u, v \in Nat : m > 0 /\ v <= m - 1 /\ m * h <= m * u + v => h <= u
  <2> SUFFICES ASSUME NEW m \in Nat, NEW h \in Nat, NEW u \in Nat, NEW v \in Nat,
                      m > 0, v <= m - 1, m * h <= m * u + v, u + 1 <= h
               PROVE  FALSE
    BY SMT
  <2>1. m * (u + 1) <= m * h
    BY SMT
  <2>2. m * (u + 1) = m * u + m
    BY SMT
  <2> QED
    BY <2>1, <2>2, SMT
<1>3. HeapIdx <= x
  BY <1>1, <1>2
<1> QED
  BY <1>1, <1>3, UserFacts

\* The directory entries and the pages that the walk of vfree visits.
Visited(w, n) == w[1] .. w[1] + (n + NEnt - 1) \div NEnt - 1
Walked(w, n)  == {x \in Visited(w, n) \X (w[2] .. NEnt - 1) :
                    (x[1] - w[1]) * (NEnt - w[2]) + x[2] - w[2] < n}

LEMMA VfreeReturns ==
  ASSUME TypeOK, OwnershipInv, NEW p \in Proc, NEW b \in blocks[p], Vfree(p, b[1], b[2])
  PROVE  \E D :
           /\ Returns(p, D, {<<Tab(p, x[1]), x[2]>> : x \in Walked(b[1], b[2])})
           /\ \A x \in Walked(b[1], b[2]) : x[1] \in User /\ x[2] \in Idx /\ Has(p, x[1])
           /\ Visited(b[1], b[2]) \subseteq Idx
           /\ pdptUsed' = Less(pdptUsed, Cardinality({Tab(p, d) : d \in D}))
<1> DEFINE w       == b[1]
           n       == b[2]
           dirs    == Visited(w, n)
           walked  == Walked(w, n)
           ptes    == {PteAddr(pdbr[p], x) : x \in walked}
           emptied == {d \in dirs : \A i \in Idx :
                         LET a == PteAddr(pdbr[p], <<d, i>>)
                         IN  a \in ptes \/ (~ent[a].valid /\ ~ent[a].pres)}
           pdes    == {<<pdbr[p], d>> : d \in emptied}
<1>1. /\ currpid = p /\ pc[p] = "user" /\ alive[p]
      /\ \A d \in dirs : d \in Idx /\ ent[<<pdbr[p], d>>].base \in Pdpt
      /\ Reclaim(ptes) /\ DropTables({ent[a].base : a \in pdes}) /\ ent' = Cleared(pdes, ptes)
      /\ UNCHANGED <<alive, pdbr, vAdd>>
  BY DEF Vfree, Executing, procVars, ctlVars, OwnershipInv, Control, Walked, Visited
<1>2. w \in Idx \X Idx /\ w[1] \in Idx /\ w[2] \in Idx /\ w[1] \in Nat /\ w[2] \in Nat
  <2>1. b \in (Idx \X Idx) \X Sizes
    BY DEF TypeOK
  <2>2. w \in Idx \X Idx
    BY <2>1
  <2> QED
    BY <2>2, Regions
<1>3. \A x \in walked : x[1] \in dirs /\ x[2] \in Idx /\ PteAddr(pdbr[p], x) = <<Tab(p, x[1]), x[2]>>
  BY <1>2, Regions DEF PteAddr, Tab, Pde, Idx, Walked
<1>4. w[1] \in User
  BY <1>1, <1>2, HeapDir DEF OwnershipInv, Heap, Live, Linear
<1>5. \A d \in dirs : d \in User /\ Has(p, d) /\ Tab(p, d) \in Pdpt
  <2> SUFFICES ASSUME NEW d \in dirs
               PROVE  d \in User /\ Has(p, d) /\ Tab(p, d) \in Pdpt
    OBVIOUS
  <2>1. d \in Idx /\ Pde(p, d).base \in Pdpt /\ w[1] <= d
    BY <1>1, <1>2 DEF Pde, Visited
  <2>2. d \in User
    <3> HIDE DEF w, dirs
    <3>1. d \in Nat /\ w[1] \notin 0 .. NKern - 1 /\ NKern \in Nat
      BY <1>4, <2>1, Regions, PagingAssumption DEF User, Kernel
    <3> QED
      BY <1>2, <2>1, <3>1 DEF User, Kernel
  <2>3. Pde(p, d).base # 0
    BY <2>1, Regions DEF Pdpt
  <2>4. Pde(p, d).pres
    BY <1>1, <2>2, <2>3 DEF OwnershipInv, Directories
  <2> QED
    BY <1>1, <2>1, <2>2, <2>4 DEF Has, Tab
<1>6. ptes \in SUBSET Addr /\ \A a \in ptes : \E d \in User : Has(p, d) /\ a[1] = Tab(p, d)
  <2> HIDE DEF walked, dirs
  <2> QED
    BY <1>3, <1>5 DEF Addr
<1>7. \A d \in emptied, i \in Idx :
        <<Tab(p, d), i>> \in ptes \/ (~Pte(p, d, i).valid /\ ~Pte(p, d, i).pres)
  <2>1. \A d, i : PteAddr(pdbr[p], <<d, i>>) = <<Tab(p, d), i>>
    BY DEF PteAddr, Tab, Pde
  <2> HIDE DEF ptes
  <2> QED
    BY <2>1 DEF Pte
<1>8. emptied \subseteq dirs
  OBVIOUS
<1>9. {ent[a].base : a \in pdes} = {Tab(p, d) : d \in emptied}
  <2>1. \A t : t \in {ent[a].base : a \in pdes} <=> \E d \in emptied : t = Tab(p, d)
    <3> HIDE DEF emptied
    <3> QED
      BY DEF Tab, Pde
  <2> HIDE DEF emptied, pdes
  <2> QED
    BY <2>1
<1>10. pdptAvail' = [t \in Pdpt |->
         pdptAvail[t] \/ (\E d \in emptied : t = Tab(p, d)) \/ (t = pdbr[p] /\ ~alive'[p])]
  <2> HIDE DEF emptied, pdes
  <2> QED
    BY <1>1, <1>9 DEF DropTables
<1>11. ptes = {<<Tab(p, x[1]), x[2]>> : x \in walked}
  <2> HIDE DEF walked
  <2> QED
    BY <1>3
<1>12. pdptUsed' = Less(pdptUsed, Cardinality({Tab(p, d) : d \in emptied}))
  <2> HIDE DEF emptied, pdes
  <2> QED
    BY <1>1, <1>9 DEF DropTables
<1> HIDE DEF dirs, walked, ptes, emptied
<1>13. Returns(p, emptied, ptes)
  BY <1>1, <1>5, <1>6, <1>7, <1>8, <1>10 DEF Returns
<1> QED
  BY <1>1, <1>3, <1>5, <1>11, <1>12, <1>13 DEF walked, dirs

LEMMA VfreeStep ==
  ASSUME TypeOK, OwnershipInv, NEW p \in Proc, NEW b \in blocks[p], Vfree(p, b[1], b[2])
  PROVE  OwnershipInv'
<1>1. /\ currpid = p /\ pc[p] = "user" /\ alive[p]
      /\ blocks' = [blocks EXCEPT ![p] = @ \ {b}]
      /\ UNCHANGED <<alive, pdbr, pc, victim, currpid, cr2, vAdd>>
  <2>1. b = <<b[1], b[2]>>
    BY DEF TypeOK
  <2> QED
    BY <2>1 DEF Vfree, Executing, procVars, ctlVars, OwnershipInv, Control
<1>2. Directories' /\ Tables' /\ Frames' /\ FramesCounted'
  <2>1. alive' \in [Proc -> BOOLEAN]
    BY <1>1 DEF TypeOK
  <2> QED
    BY <2>1, VfreeReturns, ReturnsStep
<1>3. Heap'
  BY <1>1 DEF OwnershipInv, Heap, Live, TypeOK
<1>4. Control' /\ FaultServed'
  BY <1>1, <1>2, VfreeReturns, ReturnsWrites DEF OwnershipInv, Control, FaultServed, TypeOK
<1> QED
  BY <1>2, <1>3, <1>4 DEF OwnershipInv

\* The process that kill removes, whether itself or another, was not faulting.
LEMMA BuryReturns ==
  ASSUME TypeOK, OwnershipInv, NEW p \in Proc, Bury(p), alive[p]
  PROVE  \E D, A :
           /\ Returns(p, D, A) /\ D = {d \in User : Has(p, d)}
           /\ pdptUsed' = Less(pdptUsed, Cardinality({Tab(p, d) : d \in D} \cup {pdbr[p]}))
           /\ \A q \in Proc : alive'[q] <=> alive[q] /\ q # p
           /\ alive' \in [Proc -> BOOLEAN]
<1> DEFINE pdes   == {a \in Addr : a[1] = pdbr[p] /\ a[2] \in Released /\ ent[a].valid}
           tables == {ent[a].base : a \in pdes}
           ptes   == {a \in Addr : a[1] \in tables /\ (ent[a].valid \/ ent[a].pres)}
           D      == {d \in User : Has(p, d)}
<1>1. /\ alive' = [alive EXCEPT ![p] = FALSE] /\ blocks' = [blocks EXCEPT ![p] = {}]
      /\ Reclaim(ptes) /\ DropTables(tables \cup {pdbr[p]}) /\ ent' = Cleared(pdes, ptes)
      /\ UNCHANGED <<pdbr, vAdd>>
  BY DEF Bury, Release
<1>2. alive' \in [Proc -> BOOLEAN] /\ \A q \in Proc : alive'[q] <=> alive[q] /\ q # p
  BY <1>1 DEF TypeOK
<1>3. \A d \in User : Has(p, d) <=> ent[<<pdbr[p], d>>].valid
  BY DEF OwnershipInv, Directories, Has, Pde
<1>4. pdes = {<<pdbr[p], d>> : d \in D}
  <2>1. \A a \in pdes : a[2] \in D /\ a = <<pdbr[p], a[2]>>
    BY <1>3, UserFacts DEF Addr
  <2>2. \A d \in D : <<pdbr[p], d>> \in pdes
    BY <1>3, UserFacts DEF Addr, TypeOK
  <2> QED
    BY <2>1, <2>2
<1>5. \A t : t \in tables <=> \E d \in D : t = Tab(p, d)
  <2>1. ASSUME NEW t \in tables
        PROVE  \E d \in D : t = Tab(p, d)
    <3>1. PICK a \in pdes : t = ent[a].base
      OBVIOUS
    <3>2. a[2] \in D /\ a = <<pdbr[p], a[2]>>
      BY <1>4
    <3> QED
      BY <3>1, <3>2 DEF Tab, Pde
  <2>2. ASSUME NEW d \in D
        PROVE  Tab(p, d) \in tables
    <3>1. <<pdbr[p], d>> \in pdes
      BY <1>4
    <3> QED
      BY <3>1 DEF Tab, Pde
  <2> QED
    BY <2>1, <2>2
<1> HIDE DEF pdes, tables
<1>6. ptes \in SUBSET Addr /\ \A a \in ptes : \E d \in User : Has(p, d) /\ a[1] = Tab(p, d)
  BY <1>5
<1>7. \A d \in D, i \in Idx :
        <<Tab(p, d), i>> \in ptes \/ (~Pte(p, d, i).valid /\ ~Pte(p, d, i).pres)
  <2> SUFFICES ASSUME NEW d \in D, NEW i \in Idx, Pte(p, d, i).valid \/ Pte(p, d, i).pres
               PROVE  <<Tab(p, d), i>> \in ptes
    OBVIOUS
  <2>1. Tab(p, d) \in Pdpt /\ Tab(p, d) \in tables
    BY <1>5 DEF OwnershipInv, Tables
  <2> QED
    BY <2>1 DEF Addr, Pte
<1>8. pdptAvail' = [t \in Pdpt |->
        pdptAvail[t] \/ (\E d \in D : t = Tab(p, d)) \/ (t = pdbr[p] /\ ~alive'[p])]
  <2>1. ~alive'[p]
    BY <1>2
  <2> HIDE DEF D
  <2> QED
    BY <1>1, <1>5, <2>1 DEF DropTables
<1>9. Returns(p, D, ptes)
  <2>1. D \in SUBSET User /\ \A d \in User : Has(p, d) <=> d \in D
    OBVIOUS
  <2> HIDE DEF D, ptes
  <2> QED
    BY <1>1, <1>2, <1>4, <1>6, <1>7, <1>8, <2>1 DEF Returns
<1>10. pdptUsed' = Less(pdptUsed, Cardinality({Tab(p, d) : d \in D} \cup {pdbr[p]}))
  <2>1. tables = {Tab(p, d) : d \in D}
    BY <1>5
  <2> QED
    BY <1>1, <2>1 DEF DropTables
<1> QED
  BY <1>2, <1>9, <1>10

LEMMA BuryStep ==
  ASSUME TypeOK, OwnershipInv, NEW p \in Proc, Bury(p), alive[p]
  PROVE  /\ Heap' /\ Directories' /\ Tables' /\ Frames' /\ FramesCounted'
         /\ \A q \in Proc : alive'[q] <=> alive[q] /\ q # p
<1>1. PICK D, A :
        /\ Returns(p, D, A) /\ alive' \in [Proc -> BOOLEAN]
        /\ \A q \in Proc : alive'[q] <=> alive[q] /\ q # p
  BY BuryReturns
<1>2. Directories' /\ Tables' /\ Frames' /\ FramesCounted'
  BY <1>1, ReturnsStep
<1>3. Heap'
  <2>1. blocks' = [blocks EXCEPT ![p] = {}] /\ UNCHANGED vAdd
    BY DEF Bury
  <2> QED
    BY <1>1, <2>1 DEF OwnershipInv, Heap, Live, TypeOK
<1> QED
  BY <1>1, <1>2, <1>3

\* The killer is on the processor, and what it removes is not.
LEMMA KillStep ==
  ASSUME TypeOK, Disciplined, OwnershipInv, NEW p \in Proc,
         FinishExit(p) \/ \E k \in Thread : FinishKillOther(k, p)
  PROVE  OwnershipInv'
<1>1. None \notin Proc /\ Proc \subseteq Thread
  BY PagingAssumption DEF Thread
<1>2. /\ Bury(p) /\ alive[p] /\ currpid' # p
      /\ currpid' \in Proc => alive[currpid']
      /\ \A q \in Proc : pc[q] # "fault"
      /\ \A q \in Thread : victim'[q] # None =>
           victim'[q] = victim[q] /\ victim[q] # p /\ victim[q] # currpid'
      /\ \A q \in Thread : victim[q] = None => victim'[q] = None
  <2>1. CASE FinishExit(p)
    <3>1. /\ Bury(p) /\ alive[p] /\ currpid = p /\ pc[p] = "dying" /\ SwitchAway({p})
          /\ victim' = [victim EXCEPT ![p] = None]
      BY <1>1, <2>1 DEF FinishExit, OwnershipInv, Control
    <3>2. /\ currpid' \in Thread \ {p}
          /\ currpid' \in Proc => alive[currpid']
          /\ \A q \in Thread : victim[q] # None => victim[q] # currpid'
      BY <3>1, SwitchStep
    <3>3. \A q \in Thread : victim'[q] = IF q = p THEN None ELSE victim[q]
      BY <1>1, <3>1 DEF TypeOK
    <3>4. /\ \A q \in Thread : victim[q] # None => victim[q] # p
          /\ \A q \in Proc : pc[q] # "fault"
      BY <3>1 DEF OwnershipInv, Control
    <3> QED
      BY <1>1, <3>1, <3>2, <3>3, <3>4
  <2>2. CASE \E k \in Thread : FinishKillOther(k, p)
    <3> PICK k \in Thread : FinishKillOther(k, p)
      BY <2>2
    <3>1. /\ Bury(p) /\ currpid = k /\ victim[k] = p /\ UNCHANGED currpid
          /\ victim' = [victim EXCEPT ![k] = None, ![p] = None]
      BY DEF FinishKillOther
    <3>2. alive[p] /\ p # k /\ pc[k] = "user" /\ \A q \in Thread : victim[q] = p => q = k
      BY <1>1, <3>1 DEF OwnershipInv, Control
    <3>3. \A q \in Thread : victim'[q] = IF q = k \/ q = p THEN None ELSE victim[q]
      BY <1>1, <3>1 DEF TypeOK
    <3> QED
      BY <1>1, <3>1, <3>2, <3>3 DEF OwnershipInv, Control
  <2> QED
    BY <2>1, <2>2
<1>3. /\ Heap' /\ Directories' /\ Tables' /\ Frames' /\ FramesCounted'
      /\ \A q \in Proc : alive'[q] <=> alive[q] /\ q # p
  BY <1>2, BuryStep
<1>4. pc' = [pc EXCEPT ![p] = "user"]
  BY <1>2 DEF Bury
<1>5. FaultServed'
  BY <1>1, <1>2, <1>4 DEF FaultServed, TypeOK
<1>6. Control'
  BY <1>1, <1>2, <1>3, <1>4 DEF OwnershipInv, Control, TypeOK
<1> QED
  BY <1>3, <1>5, <1>6 DEF OwnershipInv

(***************************************************************************)
(* The invariant, and the properties it implies.                           *)
(***************************************************************************)
LEMMA InitOwnership == Init => OwnershipInv
<1> SUFFICES ASSUME Init PROVE OwnershipInv
  OBVIOUS
<1> USE DEF Init
<1>1. None \notin Proc /\ Sys \notin Proc
  BY PagingAssumption
<1>2. Control /\ Heap /\ FaultServed
  BY <1>1 DEF Control, Heap, FaultServed, Live, Thread
<1>3. Directories
  <2>1. \A t \in Pdpt, i \in Idx : ent[<<t, i>>] =
          IF t = GoldenPd THEN IF i < NGold THEN Mapping(i + 2) ELSE Zero
          ELSE IF t \in Golden THEN Mapping(0) ELSE Zero
    BY DEF Addr
  <2>2. /\ \A d \in 0 .. NGold - 1 : d \in Idx /\ d < NGold
        /\ GoldenPd \in Pdpt /\ Golden \subseteq Pdpt /\ GoldenPd \in Golden
    BY Regions, PagingAssumption DEF Idx, Golden, GoldenPd
  <2>3. \A t \in Pdpt, d \in User : pdptAvail[t] => ent[<<t, d>>] = Zero
    <3> SUFFICES ASSUME NEW t \in Pdpt, NEW d \in User, t \notin Golden
                 PROVE  ent[<<t, d>>] = Zero
      OBVIOUS
    <3>1. d \in Idx /\ t # GoldenPd
      BY <2>2, UserFacts
    <3> QED
      BY <2>1, <3>1
  <2>4. ~Zero.valid /\ ~Zero.pres
    BY DEF Zero
  <2>5. \A t \in Pdpt, d \in User : pdptAvail[t] => ~ent[<<t, d>>].valid /\ ~ent[<<t, d>>].pres
    BY <2>3, <2>4
  <2> QED
    BY <2>1, <2>2, <2>5 DEF Directories
<1>4. Tables /\ Frames
  BY Regions DEF Tables, Frames, Has
<1>5. FramesCounted
  <2>1. {f \in Fss : ~fssAvail[f]} = {}
    OBVIOUS
  <2> QED
    BY <2>1, FS_EmptySet DEF FramesCounted
<1> QED
  BY <1>2, <1>3, <1>4, <1>5 DEF OwnershipInv

LEMMA OwnershipStep ==
  ASSUME TypeOK, Disciplined, OwnershipInv, [Next]_vars
  PROVE  OwnershipInv'
<1>1. CASE UNCHANGED vars
  <2> UNCHANGED <<ent, pdptAvail, fssAvail, fssPte, fssUsed, alive, pdbr, vAdd, blocks,
                  pc, victim, currpid, cr2>>
    BY <1>1 DEF vars, tabVars, fssVars, heapVars, procVars, ctlVars
  <2>1. Control' /\ Heap' /\ FaultServed' /\ Directories' /\ FramesCounted'
    BY DEF OwnershipInv, Control, Heap, Live, FaultServed, FaultPte, PteAddr, Pde, Directories,
           FramesCounted
  <2> \A p \in Proc, d \in User :
        /\ Has(p, d)' = Has(p, d) /\ Tab(p, d)' = Tab(p, d)
        /\ \A i \in Idx : Pte(p, d, i)' = Pte(p, d, i)
    BY DEF Has, Tab, Pde, Pte
  <2>2. Tables'
    BY DEF OwnershipInv, Tables
  <2>3. Frames'
    BY DEF OwnershipInv, Frames
  <2> QED
    BY <2>1, <2>2, <2>3 DEF OwnershipInv
<1>2. CASE ControlStep
  BY <1>2, ControlStepOwnership
<1>3. ASSUME NEW p \in Proc, Vcreate(p)
      PROVE  OwnershipInv'
  BY <1>3, VcreateStep
<1>4. ASSUME NEW p \in Proc, NEW n \in Sizes, Vmalloc(p, n)
      PROVE  OwnershipInv'
  BY <1>4, VmallocStep
<1>5. ASSUME NEW p \in Proc, NEW b \in blocks[p], Vfree(p, b[1], b[2])
      PROVE  OwnershipInv'
  BY <1>5, VfreeStep
<1>6. ASSUME NEW p \in Proc, NEW f \in Fss,
             \/ FirstTouch(p, f) \/ SwapIn(p, f) \/ SwapInEvict(p, f)
             \/ \E s \in Swap : FirstTouchEvict(p, f, s)
      PROVE  OwnershipInv'
  BY <1>6, HandlerStep
<1>7. ASSUME NEW p \in Proc, FinishExit(p) \/ \E k \in Thread : FinishKillOther(k, p)
      PROVE  OwnershipInv'
  BY <1>7, KillStep
<1> QED
  BY <1>1, <1>2, <1>3, <1>4, <1>5, <1>6, <1>7 DEF Next, ControlStep

\* The directory entries and table entries of the properties, by process and index.
LEMMA PtesExplicit ==
  /\ \A x : x \in UserPdes <=>
       \E p \in Proc, d \in User : x = <<p, d>> /\ Has(p, d) /\ TableOf(x) = Tab(p, d)
  /\ \A p \in Proc, d \in User : Has(p, d) =>
       <<p, d>> \in UserPdes /\ TableOf(<<p, d>>) = Tab(p, d)
  /\ \A p \in Proc, d \in User, i \in Idx : Has(p, d) =>
       <<Tab(p, d), i>> \in UserPtes /\ ent[<<Tab(p, d), i>>] = Pte(p, d, i)
  /\ \A a \in UserPtes : \E p \in Proc, d \in User, i \in Idx :
       Has(p, d) /\ a = <<Tab(p, d), i>> /\ ent[a] = Pte(p, d, i)
<1>2. \A x : x \in UserPdes <=>
        \E p \in Proc, d \in User : x = <<p, d>> /\ Has(p, d) /\ TableOf(x) = Tab(p, d)
  <2>1. ASSUME NEW x \in UserPdes
        PROVE  \E p \in Proc, d \in User : x = <<p, d>> /\ Has(p, d) /\ TableOf(x) = Tab(p, d)
    <3>1. PICK p \in Proc, d \in User : alive[p] /\ x = <<p, d>>
      BY DEF UserPdes, Live, User
    <3> QED
      BY <3>1 DEF UserPdes, Has, Tab, Pde, TableOf
  <2>2. ASSUME NEW p \in Proc, NEW d \in User, Has(p, d)
        PROVE  <<p, d>> \in UserPdes
    BY <2>2 DEF UserPdes, Live, Has, Pde, User
  <2> QED
    BY <2>1, <2>2
<1>3. \A p \in Proc, d \in User : Has(p, d) =>
        <<p, d>> \in UserPdes /\ TableOf(<<p, d>>) = Tab(p, d)
  BY <1>2 DEF TableOf, Tab, Pde
<1>6. \A p \in Proc, d \in User, i \in Idx : Has(p, d) =>
        <<Tab(p, d), i>> \in UserPtes /\ ent[<<Tab(p, d), i>>] = Pte(p, d, i)
  BY <1>3 DEF UserPtes, Pte
<1>7. \A a \in UserPtes : \E p \in Proc, d \in User, i \in Idx :
        Has(p, d) /\ a = <<Tab(p, d), i>> /\ ent[a] = Pte(p, d, i)
  <2> SUFFICES ASSUME NEW a \in UserPtes
               PROVE  \E p \in Proc, d \in User, i \in Idx :
                        Has(p, d) /\ a = <<Tab(p, d), i>> /\ ent[a] = Pte(p, d, i)
    OBVIOUS
  <2>1. PICK x \in UserPdes, i \in Idx : a = <<TableOf(x), i>>
    BY DEF UserPtes
  <2>2. PICK p \in Proc, d \in User : x = <<p, d>> /\ Has(p, d) /\ TableOf(x) = Tab(p, d)
    BY <1>2
  <2>3. a = <<Tab(p, d), i>> /\ ent[a] = Pte(p, d, i)
    BY <2>1, <2>2 DEF Pte
  <2> QED
    BY <2>2, <2>3
<1> QED
  BY <1>2, <1>3, <1>6, <1>7

\* What OwnershipInv spells out with p, d and i, the properties say with sets.
LEMMA OwnershipExplicit ==
  ASSUME TypeOK, OwnershipInv
  PROVE  TableOwnership /\ FrameOwnership /\ KernelMapIntact
<1>2. \A x : x \in UserPdes <=>
        \E p \in Proc, d \in User : x = <<p, d>> /\ Has(p, d) /\ TableOf(x) = Tab(p, d)
  BY PtesExplicit
<1>3. \A p \in Proc, d \in User : Has(p, d) =>
        <<p, d>> \in UserPdes /\ TableOf(<<p, d>>) = Tab(p, d)
  BY PtesExplicit
<1>4. TableOwnership
  <2>1. /\ \A t \in Golden : ~pdptAvail[t]
        /\ \A p \in Live : pdbr[p] \in Pdpt \ Golden /\ ~pdptAvail[pdbr[p]]
        /\ \A p, q \in Live : pdbr[p] = pdbr[q] => p = q
    BY DEF OwnershipInv, Tables, Live
  <2>2. /\ \A x \in UserPdes : TableOf(x) \in Pdpt \ Golden /\ ~pdptAvail[TableOf(x)]
        /\ \A x \in UserPdes, p \in Live : TableOf(x) # pdbr[p]
    BY <1>2 DEF OwnershipInv, Tables, Live
  <2>3. ASSUME NEW x \in UserPdes, NEW y \in UserPdes, TableOf(x) = TableOf(y)
        PROVE  x = y
    <3>1. PICK p \in Proc, d \in User : x = <<p, d>> /\ Has(p, d) /\ TableOf(x) = Tab(p, d)
      BY <1>2
    <3>2. PICK q \in Proc, e \in User : y = <<q, e>> /\ Has(q, e) /\ TableOf(y) = Tab(q, e)
      BY <1>2
    <3>3. p = q /\ d = e
      BY <2>3, <3>1, <3>2 DEF OwnershipInv, Tables
    <3> QED
      BY <3>1, <3>2, <3>3
  <2>4. ASSUME NEW t \in Pdpt, ~pdptAvail[t]
        PROVE  t \in Golden \/ (\E p \in Live : pdbr[p] = t) \/ (\E x \in UserPdes : TableOf(x) = t)
    BY <1>3, <2>4, ZenonT(30) DEF OwnershipInv, Tables, Live
  <2> QED
    BY <2>1, <2>2, <2>3, <2>4 DEF TableOwnership
<1>5. KernelMapIntact
  BY DEF OwnershipInv, Directories, KernelMapIntact, Live, Pde
<1>6. \A p \in Proc, d \in User, i \in Idx : Has(p, d) =>
        <<Tab(p, d), i>> \in UserPtes /\ ent[<<Tab(p, d), i>>] = Pte(p, d, i)
  BY PtesExplicit
<1>7. \A a \in UserPtes : \E p \in Proc, d \in User, i \in Idx :
        Has(p, d) /\ a = <<Tab(p, d), i>> /\ ent[a] = Pte(p, d, i)
  BY PtesExplicit
<1>8. FrameOwnership
  <2>1. ASSUME NEW a \in UserPtes, ent[a].pres
        PROVE  ent[a].base \in Fss /\ ~fssAvail[ent[a].base] /\ fssPte[ent[a].base] = a
    <3>1. PICK p \in Proc, d \in User, i \in Idx :
            Has(p, d) /\ a = <<Tab(p, d), i>> /\ ent[a] = Pte(p, d, i)
      BY <1>7
    <3>2. Pte(p, d, i).pres /\ Pte(p, d, i).base = ent[a].base
      BY <2>1, <3>1
    <3>3. /\ Pte(p, d, i).base \in Fss /\ ~fssAvail[Pte(p, d, i).base]
          /\ fssPte[Pte(p, d, i).base] = <<Tab(p, d), i>>
      BY <3>1, <3>2 DEF OwnershipInv, Frames
    <3> QED
      BY <3>1, <3>2, <3>3
  <2>2. ASSUME NEW f \in Fss, ~fssAvail[f]
        PROVE  fssPte[f] \in UserPtes /\ ent[fssPte[f]].pres /\ ent[fssPte[f]].base = f
    <3>1. PICK p \in Proc, d \in User, i \in Idx :
            /\ Has(p, d) /\ Pte(p, d, i).pres /\ Pte(p, d, i).base = f
            /\ fssPte[f] = <<Tab(p, d), i>>
      BY <2>2 DEF OwnershipInv, Frames
    <3>2. fssPte[f] \in UserPtes /\ ent[fssPte[f]] = Pte(p, d, i)
      BY <1>6, <3>1
    <3> QED
      BY <3>1, <3>2
  <2> QED
    BY <2>1, <2>2 DEF FrameOwnership
<1> QED
  BY <1>4, <1>5, <1>8

LEMMA OwnershipInvariant ==
  ASSUME Disciplined
  PROVE  Spec => []OwnershipInv
<1>1. Init => OwnershipInv
  BY InitOwnership
<1>2. TypeOK /\ OwnershipInv /\ [Next]_vars => OwnershipInv'
  BY OwnershipStep
<1> QED
  BY <1>1, <1>2, TypeCorrect, PTL DEF Spec

\* No table or directory is leaked or shared by vcreate, vmalloc, vfree and
\* kill, however programs that access only what they allocated interleave.
THEOREM TablesOwned ==
  ASSUME Disciplined
  PROVE  Spec => []TableOwnership
<1>1. TypeOK /\ OwnershipInv => TableOwnership
  BY OwnershipExplicit
<1> QED
  BY <1>1, TypeCorrect, OwnershipInvariant, PTL

\* fss_free_track always finds the entry that maps a frame: what
\* pagefault_handler writes through pte_addr when it evicts is that entry.
THEOREM FramesOwned ==
  ASSUME Disciplined
  PROVE  Spec => []FrameOwnership
<1>1. TypeOK /\ OwnershipInv => FrameOwnership
  BY OwnershipExplicit
<1> QED
  BY <1>1, TypeCorrect, OwnershipInvariant, PTL

\* Neither the golden directory and its tables nor a process's kernel entries
\* are ever written by the handler, vmalloc, vfree or kill.
THEOREM KernelMapKept ==
  ASSUME Disciplined
  PROVE  Spec => []KernelMapIntact
<1>1. TypeOK /\ OwnershipInv => KernelMapIntact
  BY OwnershipExplicit
<1> QED
  BY <1>1, TypeCorrect, OwnershipInvariant, PTL

\* Where the gap between a fault and the handler's cli is not interrupted, the
\* handler never serves a page that is present.
THEOREM ServesAbsentPages ==
  ASSUME Disciplined
  PROVE  Spec => []NoResidentFault
<1>1. OwnershipInv => NoResidentFault
  BY DEF OwnershipInv, FaultServed, NoResidentFault, Resident, FaultPte, Pde
<1> QED
  BY <1>1, OwnershipInvariant, PTL

-------------------------------------------------------------------------------
(***************************************************************************)
(* Pages and blocks.                                                       *)
(***************************************************************************)

\* What the types say of a block.
LEMMA BlockType ==
  ASSUME TypeOK, NEW p \in Proc, NEW b \in blocks[p]
  PROVE  /\ b[1] \in Idx \X Idx /\ b[2] \in Sizes /\ b[2] \in Nat /\ b[2] > 0
         /\ Linear(b[1]) \in Nat /\ b = <<b[1], b[2]>>
<1>1. b \in (Idx \X Idx) \X Sizes
  BY DEF TypeOK
<1>2. b[1] \in Idx \X Idx /\ b[2] \in Sizes /\ b = <<b[1], b[2]>>
  BY <1>1
<1> QED
  BY <1>2, LinearType, PagingAssumption

\* The pages of a process's blocks, counted by v_add_counter and not modulo Top.
LEMMA OwnedAllocated ==
  ASSUME TypeOK, Heap, NEW p \in Proc, alive[p], NEW w \in Idx \X Idx
  PROVE  /\ w \in Owned(p) <=> Allocated(p, w)
         /\ Allocated(p, w) => Linear(w) < vAdd[p] /\ w[1] \in User
<1>1. Linear(w) \in Nat /\ VPage(Linear(w)) = w
  <2>1. w = <<w[1], w[2]>> /\ w[1] \in Idx /\ w[2] \in Idx
    OBVIOUS
  <2> QED
    BY <2>1, LinearType, LinearInverse DEF Linear
<1>2. vAdd[p] \in Nat /\ Top \in Nat /\ vAdd[p] < Top /\ NEnt * HeapIdx \in Nat
  BY LinearType DEF TypeOK
<1>3. \A b \in blocks[p] :
        /\ b[2] \in Nat /\ Linear(b[1]) \in Nat /\ Linear(b[1]) + b[2] <= vAdd[p]
        /\ Linear(b[1]) = NEnt * b[1][1] + b[1][2]
  BY BlockType DEF Heap, Live, Linear
<1>4. ASSUME NEW b \in blocks[p]
      PROVE  w \in Run(NEnt * b[1][1] + b[1][2], b[2]) <=>
               Linear(b[1]) <= Linear(w) /\ Linear(w) < Linear(b[1]) + b[2]
  <2> DEFINE k == Linear(b[1])
             n == b[2]
  <2>1. k \in Nat /\ n \in Nat /\ k + n <= vAdd[p] /\ NEnt * b[1][1] + b[1][2] = k
    BY <1>3
  <2> HIDE DEF k, n
  <2>2. \A j \in k .. k + n - 1 : j \in Nat /\ j % Top = j
    BY <1>2, <2>1
  <2>3. ASSUME NEW j \in k .. k + n - 1, w = VPage(j)
        PROVE  Linear(w) = j
    <3>1. w[1] = j \div NEnt /\ w[2] = j % NEnt
      BY <2>3 DEF VPage
    <3> QED
      BY <2>2, <3>1, DivFacts, Regions DEF Linear
  <2>4. w \in Run(k, n) <=> \E j \in k .. k + n - 1 : w = VPage(j)
    BY <2>2 DEF Run
  <2>5. w \in Run(k, n) <=> Linear(w) \in k .. k + n - 1
    BY <1>1, <2>3, <2>4
  <2>6. Linear(w) \in k .. k + n - 1 <=> k <= Linear(w) /\ Linear(w) < k + n
    BY <1>1, <2>1
  <2> QED
    BY <2>1, <2>5, <2>6 DEF k, n
<1>5. w \in Owned(p) <=> \E b \in blocks[p] : w \in Run(NEnt * b[1][1] + b[1][2], b[2])
  BY DEF Owned
<1>6. w \in Owned(p) <=> Allocated(p, w)
  BY <1>4, <1>5 DEF Allocated
<1> QED
  BY <1>6, OwnedBelowCounter

\* Pages that the walk of vfree visits are those of the block: the block lies in
\* one table or starts at the first entry of one.
LEMMA WalkedIsBlock ==
  ASSUME NEW w \in Idx \X Idx, NEW n \in Nat, n > 0, w[2] = 0 \/ w[2] + n <= NEnt,
         Visited(w, n) \subseteq Idx, NEW d \in Idx, NEW i \in Idx
  PROVE  <<d, i>> \in Walked(w, n) <=>
           Linear(w) <= NEnt * d + i /\ NEnt * d + i < Linear(w) + n
<1> DEFINE x == w[1]
           y == w[2]
           c == (n + NEnt - 1) \div NEnt
<1>1. /\ NEnt \in Nat /\ NEnt > 0 /\ x \in Nat /\ y \in Nat /\ y < NEnt /\ d \in Nat /\ i \in Nat
      /\ i < NEnt
  BY Regions DEF Idx
<1>2. /\ c \in Nat /\ \A h \in Nat : NEnt * h <= n + NEnt - 1 => h <= c
      /\ NEnt * c + ((n + NEnt - 1) % NEnt) = n + NEnt - 1
      /\ (n + NEnt - 1) % NEnt \in 0 .. NEnt - 1
  <2>1. n + NEnt - 1 \in Nat
    BY <1>1
  <2> QED
    BY <1>1, <2>1, DivFacts
<1>3. <<d, i>> \in Walked(w, n) <=>
        x <= d /\ d <= x + c - 1 /\ y <= i /\ (d - x) * (NEnt - y) + i - y < n
  <2>1. Visited(w, n) = x .. x + c - 1
    BY DEF Visited
  <2> HIDE DEF c, x, y
  <2> QED
    BY <1>1, <1>2, <2>1 DEF Walked, x, y
<1>4. Linear(w) = NEnt * x + y
  BY DEF Linear
<1> HIDE DEF x, y, c
\* Products with the number of entries, as far as they are needed.
<1>5. \A a, b, m \in Nat : /\ m * a \in Nat
                           /\ a <= b => m * a <= m * b
                           /\ a < b => m * a + m <= m * b
  <2> SUFFICES ASSUME NEW a \in Nat, NEW b \in Nat, NEW m \in Nat
               PROVE  /\ m * a \in Nat
                      /\ a <= b => m * a <= m * b
                      /\ a < b => m * a + m <= m * b
    OBVIOUS
  <2>1. m * a \in Nat /\ m * b \in Nat
    BY SMT
  <2>2. ASSUME a < b
        PROVE  m * a + m <= m * b
    <3>1. b - a - 1 \in Nat /\ b = a + 1 + (b - a - 1)
      BY <2>2, SMT
    <3>2. \A e \in Nat : m * (a + 1 + e) = m * a + m + m * e /\ m * e \in Nat
      BY SMT
    <3>3. m * b = m * a + m + m * (b - a - 1) /\ m * (b - a - 1) \in Nat
      BY <3>1, <3>2
    <3> QED
      BY <2>1, <3>3
  <2>3. a = b \/ a < b \/ a > b
    OBVIOUS
  <2> QED
    BY <2>1, <2>2, <2>3
<1>6. NEnt * x \in Nat /\ NEnt * d \in Nat /\ NEnt * c \in Nat
  BY <1>1, <1>2, <1>5
<1>7. x <= d => (d - x) * NEnt = NEnt * d - NEnt * x
  BY <1>1, SMT
<1>8. CASE y = 0
  <2>1. (d - x) * (NEnt - y) = (d - x) * NEnt
    BY <1>1, <1>8
  <2>2. ASSUME NEnt * x <= NEnt * d + i, NEnt * d + i < NEnt * x + n
        PROVE  x <= d /\ d <= x + c - 1
    <3>1. x <= d
      BY <1>1, <1>5, <1>6, <2>2
    <3>2. d - x \in Nat /\ NEnt * (d - x) \in Nat /\ NEnt * (d - x) = NEnt * d - NEnt * x
      BY <1>1, <1>5, <1>7, <3>1, SMT
    <3>3. NEnt * (d - x) <= n - 1
      BY <1>1, <1>6, <2>2, <3>2
    <3>4. NEnt * (d - x + 1) = NEnt * (d - x) + NEnt /\ d - x + 1 \in Nat
      BY <1>1, <3>2, SMT
    <3>5. d - x + 1 <= c
      BY <1>1, <1>2, <3>2, <3>3, <3>4
    <3> QED
      BY <1>1, <1>2, <3>1, <3>5
  <2>3. x <= d => NEnt * x <= NEnt * d
    BY <1>1, <1>5
  <2> QED
    BY <1>1, <1>3, <1>4, <1>6, <1>7, <1>8, <2>1, <2>2, <2>3
<1>9. CASE y + n <= NEnt
  <2>1. c = 1
    <3>1. 1 <= c
      BY <1>1, <1>2, NEnt * 1 = NEnt
    <3>2. ~(1 < c)
      BY <1>1, <1>2, <1>5, <1>6, <1>9, NEnt * 1 = NEnt
    <3> QED
      BY <1>2, <3>1, <3>2
  <2>2. NEnt * x + y <= NEnt * d + i /\ NEnt * d + i < NEnt * x + y + n => d = x
    BY <1>1, <1>5, <1>6, <1>9
  <2>3. d = x => (d - x) * (NEnt - y) = 0
    BY <1>1
  <2> QED
    BY <1>1, <1>3, <1>4, <1>6, <2>1, <2>2, <2>3
<1> QED
  BY <1>8, <1>9 DEF y

(***************************************************************************)
(* Steps that leave tables, slots and blocks alone.                        *)
(***************************************************************************)
LEMMA PagesUnchanged ==
  ASSUME Apart, Mapped, Slots, SlotsCounted,
         UNCHANGED <<ent, alive, pdbr, blocks, swapAvail, swapUsed>>
  PROVE  Apart' /\ Mapped' /\ Slots' /\ SlotsCounted'
<1>1. Apart'
  BY DEF Apart, Live, Linear
<1>2. \A p \in Proc, d \in User : Has(p, d)' = Has(p, d) /\ Tab(p, d)' = Tab(p, d)
  BY DEF Has, Tab, Pde
<1>3. Mapped'
  <2>1. \A p, w : Allocated(p, w)' = Allocated(p, w)
    BY DEF Allocated, Linear
  <2>2. \A p, d, i : Pte(p, d, i)' = Pte(p, d, i)
    BY DEF Pte, Tab, Pde
  <2> QED
    BY <1>2, <2>1, <2>2 DEF Mapped
<1>4. Slots'
  BY <1>2 DEF Slots
<1>5. SlotsCounted'
  BY DEF SlotsCounted
<1> QED
  BY <1>1, <1>3, <1>4, <1>5

LEMMA ControlStepPages ==
  ASSUME TypeOK, Careful, OwnershipInv, PagesInv, ControlStep
  PROVE  PagesInv'
<1>1. UNCHANGED <<ent, swapAvail, swapUsed, alive, pdbr, blocks>>
  BY ControlFrame DEF tabVars, swapVars, procVars
<1>2. Apart' /\ Mapped' /\ Slots' /\ SlotsCounted'
  BY <1>1, PagesUnchanged DEF PagesInv
<1> SUFFICES FaultAllocated'
  BY <1>2 DEF PagesInv
<1> USE DEF PagesInv
<1>3. \A p, w : Allocated(p, w)' = Allocated(p, w)
  BY <1>1 DEF Allocated, Linear
<1>4. \A p, d : Pde(p, d)' = Pde(p, d)
  BY <1>1 DEF Pde
<1> DEFINE Kept == \A p \in Proc : pc'[p] = "fault" => pc[p] = "fault" /\ cr2' = cr2
<1>5. Kept => FaultAllocated'
  BY <1>3, <1>4 DEF FaultAllocated, Allocated, Linear
<1> Proc \subseteq Thread
  BY DEF Thread
<1>6. CASE Preempt
  BY <1>5, <1>6 DEF Preempt
<1>7. ASSUME NEW p \in Proc, NEW n \in Sizes,
             VmallocOverMaxHeap(p, n) \/ VmallocOverProcHeap(p, n) \/ VfreeRefused(p, n)
      PROVE  FaultAllocated'
  BY <1>5, <1>7 DEF VmallocOverMaxHeap, VmallocOverProcHeap, VfreeRefused
<1>8. ASSUME NEW p \in Proc, NEW w \in Idx \X Idx, Fault(p, w)
      PROVE  FaultAllocated'
  <2>1. /\ currpid = p /\ alive[p] /\ pc' = [pc EXCEPT ![p] = "fault"] /\ cr2' = w
        /\ pc[p] = "user"
        /\ w \in Owned(p) \/ ~Pde(p, w[1]).pres
    BY <1>8 DEF Fault, Executing, MayAccess, Pde, OwnershipInv, Control, Careful
  <2>2. \A q \in Proc : pc'[q] = "fault" => q = p
    BY <2>1 DEF OwnershipInv, Control, TypeOK
  <2>3. Pde(p, w[1]).pres => Allocated(p, w)
    BY <2>1, OwnedAllocated DEF OwnershipInv
  <2> QED
    BY <1>3, <1>4, <2>1, <2>2, <2>3 DEF FaultAllocated, Allocated
<1>9. ASSUME NEW p \in Proc, NEW w \in Idx \X Idx, NEW x \in Data, Store(p, w, x)
      PROVE  FaultAllocated'
  BY <1>5, <1>9 DEF Store, ctlVars
<1>10. ASSUME NEW p \in Proc, Exit(p) \/ SegmentationFault(p)
       PROVE  FaultAllocated'
  BY <1>5, <1>10 DEF Exit, SegmentationFault, EnterKill, TypeOK
<1>11. ASSUME NEW p \in Proc, NEW k \in Thread, KillOther(k, p)
       PROVE  FaultAllocated'
  BY <1>5, <1>11 DEF KillOther
<1> HIDE DEF Kept
<1> QED
  BY <1>6, <1>7, <1>8, <1>9, <1>10, <1>11 DEF ControlStep

(***************************************************************************)
(* vcreate: a process without blocks, in a frame without swap bits.        *)
(***************************************************************************)
LEMMA VcreatePages ==
  ASSUME TypeOK, OwnershipInv, PagesInv, NEW p \in Proc, Vcreate(p)
  PROVE  PagesInv'
<1> USE DEF PagesInv
<1>1. PICK t \in Pdpt :
        /\ pdptAvail[t] /\ pdbr' = [pdbr EXCEPT ![p] = t]
        /\ ent' = [a \in Addr |->
             IF a[1] # t THEN ent[a]
             ELSE IF a[2] \in Kernel THEN ent[<<GoldenPd, a[2]>>]
             ELSE [Zero EXCEPT !.valid = ent[a].valid]]
  BY DEF Vcreate, IsFirst
<1>2. /\ ~alive[p] /\ alive' = [alive EXCEPT ![p] = TRUE] /\ pc[currpid] = "user"
      /\ UNCHANGED <<swapAvail, swapUsed, blocks, pc, cr2, currpid>>
  BY DEF Vcreate, Executing, swapVars, ctlVars
<1>3. blocks[p] = {} /\ \A q \in Proc : alive'[q] <=> q = p \/ alive[q]
  BY <1>2 DEF OwnershipInv, Heap, TypeOK
<1>4. \A q \in Proc : alive[q] => q # p /\ pdbr'[q] = pdbr[q] /\ pdbr[q] # t /\ pdbr[q] \in Pdpt
  BY <1>1, <1>2 DEF OwnershipInv, Tables, TypeOK
<1>5. /\ \A a \in Addr : a[1] # t => ent'[a] = ent[a]
      /\ \A a \in Addr : a[1] = t => ~ent'[a].swap /\ (a[2] \in User => ~ent'[a].pres)
  <2>1. \A d \in Kernel : ent[<<GoldenPd, d>>].swap = FALSE
    <3>1. \A d \in 0 .. NGold - 1 : Mapping(d + 2).swap = FALSE
      BY DEF Mapping
    <3> QED
      BY <3>1, UserFacts DEF OwnershipInv, Directories
  <2>2. \A v \in BOOLEAN : /\ [Zero EXCEPT !.valid = v].swap = FALSE
                           /\ [Zero EXCEPT !.valid = v].pres = FALSE
    BY DEF Zero
  <2>3. \A a \in Addr : ent[a].valid \in BOOLEAN /\ (a[2] \in User => a[2] \notin Kernel)
    BY UserFacts DEF TypeOK, Entry
  <2> QED
    BY <1>1, <2>1, <2>2, <2>3
<1>6. \A q \in Proc, d \in User :
        /\ Has(q, d)' <=> Has(q, d)
        /\ Has(q, d) => /\ Tab(q, d)' = Tab(q, d) /\ q # p /\ Tab(q, d) # t
                        /\ \A i \in Idx : Pte(q, d, i)' = Pte(q, d, i)
  <2>1. ASSUME NEW q \in Proc, NEW d \in User, alive[q]
        PROVE  Pde(q, d)' = Pde(q, d)
    BY <1>4, <1>5, <2>1, UserFacts DEF Pde, Addr
  <2>2. ASSUME NEW d \in User
        PROVE  ~Has(p, d)' /\ ~Has(p, d)
    <3>1. pdbr'[p] = t /\ <<t, d>> \in Addr
      BY <1>1, UserFacts DEF TypeOK, Addr
    <3> QED
      BY <1>2, <1>5, <3>1 DEF Has, Pde
  <2>3. ASSUME NEW q \in Proc, NEW d \in User, Has(q, d)
        PROVE  /\ Tab(q, d)' = Tab(q, d) /\ q # p /\ Tab(q, d) # t
               /\ \A i \in Idx : Pte(q, d, i)' = Pte(q, d, i)
    <3>1. Tab(q, d) \in Pdpt /\ Tab(q, d) # t /\ alive[q] /\ q # p
      BY <1>1, <1>4, <2>3 DEF OwnershipInv, Tables, Has
    <3>2. Tab(q, d)' = Tab(q, d)
      BY <2>1, <3>1 DEF Tab
    <3> QED
      BY <1>5, <3>1, <3>2 DEF Pte, Addr
  <2>4. ASSUME NEW q \in Proc, NEW d \in User, q # p
        PROVE  Has(q, d)' <=> Has(q, d)
    BY <1>3, <2>1, <2>4 DEF Has
  <2> QED
    BY <2>2, <2>3, <2>4
<1>7. Apart'
  BY <1>2, <1>3 DEF Apart, Live, Linear
<1>8. Mapped'
  <2>1. \A q, w : Allocated(q, w)' = Allocated(q, w)
    BY <1>2 DEF Allocated, Linear
  <2>2. \A w : ~Allocated(p, w)
    BY <1>3 DEF Allocated
  <2> QED
    BY <1>3, <1>6, <2>1, <2>2 DEF Mapped
<1>9. Slots'
  <2>1. \A a \in Addr : ent'[a].swap => ent[a].swap /\ ent'[a] = ent[a]
    BY <1>5
  <2>2. \A a \in Addr : ent[a].swap => ent'[a] = ent[a]
    <3>1. \A a \in Addr : ent[a].swap => a[1] # t
      BY <1>6 DEF Slots
    <3> QED
      BY <1>5, <3>1
  <2> QED
    BY <1>2, <1>6, <2>1, <2>2 DEF Slots
<1>10. SlotsCounted'
  BY <1>2 DEF SlotsCounted
<1>11. FaultAllocated'
  <2>1. \A q \in Proc : pc[q] # "fault"
    BY <1>2 DEF OwnershipInv, Control
  <2> QED
    BY <1>2, <2>1 DEF FaultAllocated
<1> QED
  BY <1>7, <1>8, <1>9, <1>10, <1>11

(***************************************************************************)
(* The handler.                                                            *)
(***************************************************************************)

\* Entry a gets frame f; entry b, if there is one, is the one that had it.
Moved(a, f, b, s) ==
  /\ a \in Addr /\ b \in Addr /\ b # a
  /\ ent'[a].pres /\ ~ent'[a].swap /\ ent'[a].base = f /\ ent'[a].valid = ent[a].valid
  /\ ~ent'[b].pres /\ ent'[b].swap /\ ent'[b].base = s /\ ent'[b].valid = ent[b].valid
  /\ ent[b].pres /\ ~ent[b].swap /\ ent[b].base = f /\ \E q \in Proc, d \in User : Has(q, d) /\ Tab(q, d) = b[1]
  /\ \A x \in Addr : x # a /\ x # b => ent'[x] = ent[x]

Filled(a, f) ==
  /\ a \in Addr /\ ent'[a].pres /\ ~ent'[a].swap
  /\ ent'[a].base = f /\ ent'[a].valid = ent[a].valid
  /\ \A x \in Addr : x # a => ent'[x] = ent[x]

\* Whatever the case, the page of the faulting entry a is that of a block, and
\* processes keep their blocks and their tables.
LEMMA ServedPages ==
  ASSUME TypeOK, OwnershipInv, PagesInv, NEW p \in Proc, Faulting(p),
         UNCHANGED <<alive, pdbr, blocks, cr2>>, pc' = [pc EXCEPT ![p] = "user"],
         \A x \in Addr : /\ ent'[x] # ent[x] => \E q \in Proc, d \in User : Has(q, d) /\ Tab(q, d) = x[1]
                         /\ ent'[x].valid = ent[x].valid
                         /\ ent'[x].pres \/ ent'[x].swap =>
                              ent[x].pres \/ ent[x].swap \/ x = FaultPte(p)
  PROVE  /\ Apart' /\ Mapped' /\ FaultAllocated'
         /\ \A q \in Proc, d \in User : Has(q, d)' = Has(q, d) /\ (Has(q, d) => Tab(q, d)' = Tab(q, d))
<1> USE DEF PagesInv
<1>1. \A q \in Proc, d \in Idx : alive[q] => Pde(q, d)' = Pde(q, d)
  <2> SUFFICES ASSUME NEW q \in Proc, NEW d \in Idx, alive[q]
               PROVE  ent'[<<pdbr[q], d>>] = ent[<<pdbr[q], d>>]
    BY DEF Pde
  <2>1. <<pdbr[q], d>> \in Addr
    BY DEF TypeOK, Addr
  <2>2. \A r \in Proc, e \in User : Has(r, e) => Tab(r, e) # pdbr[q]
    BY DEF OwnershipInv, Tables
  <2> QED
    BY <2>1, <2>2
<1>2. \A q \in Proc, d \in User : Has(q, d)' = Has(q, d) /\ (Has(q, d) => Tab(q, d)' = Tab(q, d))
  BY <1>1, UserFacts DEF Has, Tab
<1>3. \A q, w : Allocated(q, w)' = Allocated(q, w)
  BY DEF Allocated, Linear
<1>4. /\ cr2[1] \in User /\ cr2[2] \in Idx /\ Has(p, cr2[1])
      /\ FaultPte(p) = <<Tab(p, cr2[1]), cr2[2]>>
      /\ \A q \in Proc : pc[q] = "fault" => q = p
  BY FaultingEntry
<1>5. Allocated(p, cr2)
  BY <1>4 DEF FaultAllocated, Faulting, Has
<1>6. \A q \in Proc, d \in User, i \in Idx : Has(q, d) =>
        <<Tab(q, d), i>> \in Addr /\ Pte(q, d, i)' = ent'[<<Tab(q, d), i>>]
  <2> SUFFICES ASSUME NEW q \in Proc, NEW d \in User, NEW i \in Idx, Has(q, d)
               PROVE  <<Tab(q, d), i>> \in Addr /\ Pte(q, d, i)' = ent'[<<Tab(q, d), i>>]
    OBVIOUS
  <2>1. Tab(q, d) \in Pdpt /\ Tab(q, d)' = Tab(q, d)
    BY <1>2 DEF OwnershipInv, Tables
  <2> QED
    BY <2>1 DEF Addr, Pte
<1>7. Mapped'
  <2>1. ASSUME NEW q \in Proc, NEW d \in Idx, NEW i \in Idx, alive'[q], Allocated(q, <<d, i>>)'
        PROVE  d \in User /\ Has(q, d)' /\ Pte(q, d, i)'.valid
    <3>1. alive[q] /\ Allocated(q, <<d, i>>)
      BY <1>3, <2>1
    <3>2. d \in User /\ Has(q, d) /\ Pte(q, d, i).valid
      BY <3>1 DEF Mapped
    <3>3. <<Tab(q, d), i>> \in Addr /\ Pte(q, d, i)' = ent'[<<Tab(q, d), i>>]
      BY <1>6, <3>2
    <3>4. ent'[<<Tab(q, d), i>>].valid = ent[<<Tab(q, d), i>>].valid
      BY <3>3
    <3>5. Pte(q, d, i)'.valid = Pte(q, d, i).valid
      BY <3>3, <3>4 DEF Pte
    <3> QED
      BY <1>2, <3>2, <3>5
  <2>2. ASSUME NEW q \in Proc, NEW d \in User, NEW i \in Idx, Has(q, d)',
               Pte(q, d, i)'.pres \/ Pte(q, d, i)'.swap
        PROVE  Allocated(q, <<d, i>>)'
    <3>1. Has(q, d) /\ <<Tab(q, d), i>> \in Addr /\ Pte(q, d, i)' = ent'[<<Tab(q, d), i>>]
      BY <1>2, <1>6, <2>2
    <3>2. CASE <<Tab(q, d), i>> = FaultPte(p)
      <4>1. q = p /\ d = cr2[1] /\ i = cr2[2]
        BY <1>4, <3>1, <3>2 DEF OwnershipInv, Tables
      <4>2. Allocated(p, <<cr2[1], cr2[2]>>)
        BY <1>5 DEF Allocated, Linear
      <4> QED
        BY <1>3, <4>1, <4>2
    <3>3. CASE <<Tab(q, d), i>> # FaultPte(p)
      <4>1. ent[<<Tab(q, d), i>>].pres \/ ent[<<Tab(q, d), i>>].swap
        BY <2>2, <3>1, <3>3
      <4> QED
        BY <1>3, <3>1, <4>1 DEF Mapped, Pte
    <3> QED
      BY <3>2, <3>3
  <2> QED
    BY <2>1, <2>2 DEF Mapped
<1>8. Apart'
  BY DEF Apart, Live, Linear
<1>9. FaultAllocated'
  <2>1. \A q \in Proc : pc'[q] # "fault"
    BY <1>4 DEF TypeOK, Thread
  <2> QED
    BY <2>1 DEF FaultAllocated
<1> QED
  BY <1>2, <1>7, <1>8, <1>9

\* What Install does to the entries.
LEMMA InstallWrites ==
  ASSUME TypeOK, OwnershipInv, NEW p \in Proc, NEW f \in Fss, Faulting(p)
  PROVE  /\ Install(p, ent, FaultPte(p), f) => Filled(FaultPte(p), f)
         /\ \A s \in Swap : FssFull /\ Install(p, SwappedOut(f, s), FaultPte(p), f) =>
              Moved(FaultPte(p), f, fssPte[f], s)
<1> DEFINE a == FaultPte(p)
<1>1. a \in Addr /\ ~ent[a].pres /\ ent[a] \in Entry /\ f \in Base
  <2> DEFINE t == Tab(p, cr2[1])
             i == cr2[2]
  <2>1. a = <<t, i>> /\ t \in Pdpt /\ i \in Idx /\ ~Pte(p, cr2[1], i).pres
    BY FaultingEntry
  <2>2. ent[a] = Pte(p, cr2[1], i)
    BY <2>1 DEF Pte
  <2> HIDE DEF a, t, i
  <2>3. a \in Addr /\ ent[a] \in Entry /\ f \in Base
    BY <2>1, EntryFacts, Regions DEF Addr
  <2> QED
    BY <2>1, <2>2, <2>3
<1>2. ASSUME Install(p, ent, a, f)
      PROVE  Filled(a, f)
  <2>1. ent' = [ent EXCEPT ![a] = Present(@, f)]
    BY <1>2 DEF Install
  <2> HIDE DEF a
  <2>2. ent'[a] = Present(ent[a], f) /\ \A x \in Addr : x # a => ent'[x] = ent[x]
    BY <1>1, <2>1 DEF TypeOK
  <2>3. /\ Present(ent[a], f).pres = TRUE /\ Present(ent[a], f).swap = FALSE
        /\ Present(ent[a], f).base = f /\ Present(ent[a], f).valid = ent[a].valid
    BY <1>1, WrittenEntry
  <2> QED
    BY <1>1, <2>2, <2>3 DEF Filled
<1>3. ASSUME NEW s \in Swap, FssFull, Install(p, SwappedOut(f, s), a, f)
      PROVE  Moved(a, f, fssPte[f], s)
  <2> DEFINE b == fssPte[f]
             E == SwappedOut(f, s)
  <2>1. ~fssAvail[f]
    BY <1>3, FullMeansUsed DEF OwnershipInv
  <2>2. PICK q \in Proc, d \in User, j \in Idx :
          /\ Has(q, d) /\ Pte(q, d, j).pres /\ Pte(q, d, j).base = f
          /\ fssPte[f] = <<Tab(q, d), j>>
    BY <2>1 DEF OwnershipInv, Frames
  <2>3. /\ b \in Addr /\ b[1] = Tab(q, d) /\ ent[b].pres /\ ~ent[b].swap /\ ent[b] \in Entry
        /\ b # a /\ ent[b].base = f
    <3>1. Tab(q, d) \in Pdpt /\ ~Pte(q, d, j).swap
      BY <2>2 DEF OwnershipInv, Tables, Frames
    <3>2. b \in Addr /\ b[1] = Tab(q, d) /\ ent[b] = Pte(q, d, j)
      BY <2>2, <3>1 DEF Addr, Pte
    <3>3. ent[b] \in Entry
      BY <3>2 DEF TypeOK
    <3> QED
      BY <1>1, <2>2, <3>1, <3>2, <3>3
  <2>4. ent' = [E EXCEPT ![a] = Present(@, f)]
    BY <1>3 DEF Install
  <2>5. E = [ent EXCEPT ![b] = Swapped(@, s)] /\ E \in [Addr -> Entry] /\ s \in Base
    BY SwappedOutType, Regions DEF SwappedOut
  <2> HIDE DEF a, b, E
  <2>6. E[b] = Swapped(ent[b], s) /\ \A x \in Addr : x # b => E[x] = ent[x]
    BY <2>3, <2>5 DEF TypeOK
  <2>7. ent'[a] = Present(E[a], f) /\ \A x \in Addr : x # a => ent'[x] = E[x]
    BY <1>1, <2>4, <2>5
  <2>8. /\ ent'[a] = Present(ent[a], f) /\ ent'[b] = Swapped(ent[b], s)
        /\ \A x \in Addr : x # a /\ x # b => ent'[x] = ent[x]
    BY <1>1, <2>3, <2>6, <2>7
  <2>9. /\ ent'[a].pres /\ ~ent'[a].swap /\ ent'[a].base = f /\ ent'[a].valid = ent[a].valid
        /\ ~ent'[b].pres /\ ent'[b].swap /\ ent'[b].base = s /\ ent'[b].valid = ent[b].valid
    <3>1. /\ Present(ent[a], f).pres = TRUE /\ Present(ent[a], f).swap = FALSE
          /\ Present(ent[a], f).base = f /\ Present(ent[a], f).valid = ent[a].valid
      BY <1>1, WrittenEntry
    <3>2. /\ Swapped(ent[b], s).pres = FALSE /\ Swapped(ent[b], s).swap = TRUE
          /\ Swapped(ent[b], s).base = s /\ Swapped(ent[b], s).valid = ent[b].valid
      BY <2>3, <2>5, WrittenEntry
    <3> QED
      BY <2>8, <3>1, <3>2
  <2> QED
    BY <1>1, <2>2, <2>3, <2>8, <2>9 DEF Moved, b
<1> QED
  BY <1>2, <1>3

LEMMA HandlerPages ==
  ASSUME TypeOK, OwnershipInv, PagesInv, NEW p \in Proc, NEW f \in Fss,
         \/ FirstTouch(p, f) \/ SwapIn(p, f) \/ SwapInEvict(p, f)
         \/ \E s \in Swap : FirstTouchEvict(p, f, s)
  PROVE  PagesInv'
<1> DEFINE a == FaultPte(p)
<1> USE DEF PagesInv
<1>1. Faulting(p) /\ \E E : Install(p, E, FaultPte(p), f)
  BY DEF FirstTouch, SwapIn, SwapInEvict, FirstTouchEvict
<1>2. UNCHANGED <<alive, pdbr, blocks, cr2>> /\ pc' = [pc EXCEPT ![p] = "user"]
  BY <1>1 DEF Install, heapVars, procVars
<1>3. a \in Addr /\ \E q \in Proc, d \in User : Has(q, d) /\ Tab(q, d) = a[1]
  BY <1>1, FaultingEntry, UserFacts DEF Addr
<1> DEFINE Rest == /\ Apart' /\ Mapped' /\ FaultAllocated'
                   /\ \A q \in Proc, d \in User :
                        Has(q, d)' = Has(q, d) /\ (Has(q, d) => Tab(q, d)' = Tab(q, d))
<1>4. Filled(a, f) => Rest
  <2> SUFFICES ASSUME Filled(a, f) PROVE Rest
    OBVIOUS
  <2>1. \A x \in Addr : /\ ent'[x] # ent[x] => \E q \in Proc, d \in User : Has(q, d) /\ Tab(q, d) = x[1]
                        /\ ent'[x].valid = ent[x].valid
                        /\ ent'[x].pres \/ ent'[x].swap => ent[x].pres \/ ent[x].swap \/ x = a
    BY <1>3 DEF Filled
  <2> QED
    BY <1>1, <1>2, <2>1, ServedPages
<1>5. ASSUME NEW b, NEW s, Moved(a, f, b, s)
      PROVE  Rest
  <2>1. \A x \in Addr : /\ ent'[x] # ent[x] => \E q \in Proc, d \in User : Has(q, d) /\ Tab(q, d) = x[1]
                        /\ ent'[x].valid = ent[x].valid
                        /\ ent'[x].pres \/ ent'[x].swap => ent[x].pres \/ ent[x].swap \/ x = a
    BY <1>3, <1>5 DEF Moved
  <2> QED
    BY <1>1, <1>2, <2>1, ServedPages
<1> USE DEF Slots
<1> HIDE DEF a
<1>6. CASE FirstTouch(p, f)
  <2>1. Filled(a, f) /\ ~ent[a].swap /\ UNCHANGED <<swapAvail, swapUsed>>
    BY <1>1, <1>6, InstallWrites DEF FirstTouch, swapVars, a
  <2>2. Slots'
    BY <1>4, <2>1 DEF Filled
  <2> QED
    BY <1>4, <2>1, <2>2 DEF SlotsCounted
<1>7. CASE SwapIn(p, f)
  <2> DEFINE s == ent[a].base
             used == {r \in Swap : ~swapAvail[r]}
  <2>1. /\ Filled(a, f) /\ ent[a].swap /\ s \in Swap /\ swapUsed' = Less(swapUsed, 1)
        /\ swapAvail' = [swapAvail EXCEPT ![s] = TRUE]
    BY <1>1, <1>7, InstallWrites DEF SwapIn, a
  <2>2. Slots'
    <3>1. \A x \in Addr : ent'[x].swap => x # a /\ ent[x].swap /\ ent'[x] = ent[x]
      BY <2>1 DEF Filled
    <3>2. \A x \in Addr : ent[x].swap /\ x # a => ent[x].base # s /\ ent'[x] = ent[x]
      BY <1>3, <2>1 DEF Filled
    <3>3. \A r \in Swap : swapAvail'[r] <=> swapAvail[r] \/ r = s
      BY <2>1 DEF TypeOK
    <3> HIDE DEF s
    <3>4. ASSUME NEW x \in Addr, ent'[x].swap
          PROVE  /\ \E q \in Proc, d \in User : Has(q, d)' /\ Tab(q, d)' = x[1]
                 /\ ~ent'[x].pres /\ ent'[x].base \in Swap /\ ~swapAvail'[ent'[x].base]
      BY <1>4, <2>1, <3>1, <3>2, <3>3, <3>4
    <3>5. \A x, y \in Addr : ent'[x].swap /\ ent'[y].swap /\ ent'[x].base = ent'[y].base => x = y
      BY <3>1
    <3>6. ASSUME NEW r \in Swap, ~swapAvail'[r]
          PROVE  \E x \in Addr : ent'[x].swap /\ ent'[x].base = r
      <4>1. PICK x \in Addr : ent[x].swap /\ ent[x].base = r /\ r # s
        BY <3>3, <3>6
      <4> QED
        BY <3>2, <4>1 DEF s
    <3> QED
      BY <3>4, <3>5, <3>6
  <2>3. SlotsCounted'
    <3>1. s \in used /\ used' = used \ {s} /\ IsFiniteSet(used)
      BY <1>3, <2>1, Finite, FS_Subset DEF TypeOK
    <3>2. Cardinality(used') = Cardinality(used) - 1 /\ Cardinality(used) \in Nat
      <4> HIDE DEF used, s
      <4>1. Cardinality(used \ {s}) = Cardinality(used) - 1
        BY <3>1, FS_RemoveElement
      <4> QED
        BY <3>1, <4>1, FS_CardinalityType
    <3>3. swapUsed = Cardinality(used) /\ used # {}
      BY <3>1 DEF SlotsCounted
    <3>4. Cardinality(used) # 0
      BY <3>1, <3>3, FS_EmptySet
    <3> QED
      BY <2>1, <3>2, <3>3, <3>4 DEF SlotsCounted, Less
  <2> QED
    BY <1>4, <2>1, <2>2, <2>3
<1>8. CASE SwapInEvict(p, f)
  <2> DEFINE s == ent[a].base
             b == fssPte[f]
  <2>1. /\ Moved(a, f, b, s) /\ ent[a].swap /\ s \in Swap /\ UNCHANGED <<swapAvail, swapUsed>>
    BY <1>1, <1>8, InstallWrites DEF SwapInEvict, a, swapVars
  <2>2. Slots'
    <3> HIDE DEF b
    <3>1. \A x \in Addr : ent'[x].swap => x = b \/ (x # a /\ ent[x].swap /\ ent'[x] = ent[x])
      BY <2>1 DEF Moved
    <3>2. \A x \in Addr : ent[x].swap /\ x # a => ent[x].base # s /\ ent'[x] = ent[x]
      BY <1>3, <2>1 DEF Moved
    <3>3. b \in Addr /\ ent'[b].swap /\ ent'[b].base = s /\ ~swapAvail[s] /\ ~ent'[b].pres
      BY <1>3, <2>1 DEF Moved
    <3>4. \A x \in Addr : ent'[x].swap =>
            /\ \E q \in Proc, d \in User : Has(q, d)' /\ Tab(q, d)' = x[1]
            /\ ~ent'[x].pres /\ ent'[x].base \in Swap /\ ~swapAvail'[ent'[x].base]
      <4>1. \E q \in Proc, d \in User : Has(q, d)' /\ Tab(q, d)' = b[1]
        BY <1>5, <2>1 DEF Moved
      <4> HIDE DEF s
      <4> QED
        BY <1>5, <2>1, <3>1, <3>3, <4>1
    <3>5. \A x, y \in Addr : ent'[x].swap /\ ent'[y].swap /\ ent'[x].base = ent'[y].base => x = y
      <4> HIDE DEF s
      <4> QED
        BY <3>1, <3>2, <3>3
    <3>6. \A r \in Swap : ~swapAvail'[r] => \E x \in Addr : ent'[x].swap /\ ent'[x].base = r
      <4> SUFFICES ASSUME NEW r \in Swap, ~swapAvail[r], r # s
                   PROVE  \E x \in Addr : ent'[x].swap /\ ent'[x].base = r
        BY <2>1, <3>3
      <4>1. PICK x \in Addr : ent[x].swap /\ ent[x].base = r
        OBVIOUS
      <4> QED
        BY <3>2, <4>1
    <3> QED
      BY <3>4, <3>5, <3>6
  <2> QED
    BY <1>5, <2>1, <2>2 DEF SlotsCounted
<1>9. ASSUME NEW s \in Swap, FirstTouchEvict(p, f, s)
      PROVE  PagesInv'
  <2> DEFINE b == fssPte[f]
             used == {r \in Swap : ~swapAvail[r]}
  <2>1. /\ Moved(a, f, b, s) /\ ~ent[a].swap /\ swapAvail[s] /\ swapUsed' = swapUsed + 1
        /\ swapAvail' = [swapAvail EXCEPT ![s] = FALSE]
    BY <1>1, <1>9, InstallWrites DEF FirstTouchEvict, a, IsFirst
  <2>2. Slots'
    <3> HIDE DEF b
    <3>1. \A x \in Addr : ent'[x].swap => x = b \/ (x # a /\ ent[x].swap /\ ent'[x] = ent[x])
      BY <2>1 DEF Moved
    <3>2. \A x \in Addr : ent[x].swap => ent[x].base # s /\ ent'[x] = ent[x]
      BY <2>1 DEF Moved
    <3>3. b \in Addr /\ ent'[b].swap /\ ent'[b].base = s /\ ~ent'[b].pres
      BY <2>1 DEF Moved
    <3>4. \A r \in Swap : swapAvail'[r] <=> swapAvail[r] /\ r # s
      BY <2>1 DEF TypeOK
    <3>5. \A x \in Addr : ent'[x].swap =>
            /\ \E q \in Proc, d \in User : Has(q, d)' /\ Tab(q, d)' = x[1]
            /\ ~ent'[x].pres /\ ent'[x].base \in Swap /\ ~swapAvail'[ent'[x].base]
      <4>1. \E q \in Proc, d \in User : Has(q, d)' /\ Tab(q, d)' = b[1]
        BY <1>5, <2>1 DEF Moved
      <4> QED
        BY <1>5, <2>1, <3>1, <3>3, <3>4, <4>1
    <3>6. \A x, y \in Addr : ent'[x].swap /\ ent'[y].swap /\ ent'[x].base = ent'[y].base => x = y
      BY <3>1, <3>2, <3>3
    <3>7. ASSUME NEW r \in Swap, ~swapAvail'[r]
          PROVE  \E x \in Addr : ent'[x].swap /\ ent'[x].base = r
      <4>1. CASE r = s
        BY <3>3, <4>1
      <4>2. CASE r # s
        <5>1. PICK x \in Addr : ent[x].swap /\ ent[x].base = r
          BY <3>4, <3>7, <4>2
        <5> QED
          BY <3>2, <5>1
      <4> QED
        BY <4>1, <4>2
    <3> QED
      BY <3>5, <3>6, <3>7
  <2>3. SlotsCounted'
    <3>1. s \notin used /\ used' = used \cup {s} /\ IsFiniteSet(used)
      BY <2>1, Finite, FS_Subset DEF TypeOK
    <3>2. Cardinality(used') = Cardinality(used) + 1
      <4> HIDE DEF used
      <4>1. Cardinality(used \cup {s}) = Cardinality(used) + 1
        BY <3>1, FS_AddElement
      <4> QED
        BY <3>1, <4>1
    <3> QED
      BY <2>1, <3>2 DEF SlotsCounted
  <2> QED
    BY <1>5, <2>1, <2>2, <2>3
<1> QED
  BY <1>6, <1>7, <1>8, <1>9

(***************************************************************************)
(* vmalloc: the new pages are above all others, in tables of the process.  *)
(***************************************************************************)

\* An entry of a table whose page is allocated, or which is swapped out, is not
\* one that vmalloc writes; and one with its swap bit set is as it was.
LEMMA VmallocKeeps ==
  ASSUME TypeOK, Disciplined, OwnershipInv, PagesInv, NEW p \in Proc, NEW n \in Sizes,
         Vmalloc(p, n), NEW missing, NEW alloc, Validates(p, n, missing, alloc),
         Refreshes(p, n, missing, alloc)
  PROVE  /\ \A q \in Proc, d \in User, i \in Idx : Has(q, d) /\ Allocated(q, <<d, i>>) =>
              ent'[<<Tab(q, d), i>>] = ent[<<Tab(q, d), i>>]
         /\ \A a \in Addr : ent[a].swap => ent'[a] = ent[a]
         /\ \A a \in Addr : ent'[a].swap => ent'[a] = ent[a]
<1> DEFINE taken == {alloc[d] : d \in missing}
<1>1. /\ alive[p] /\ pdbr[p] \in Pdpt /\ vAdd[p] \in Nat
      /\ \A q \in Proc, d \in User : Has(q, d) => Tab(q, d) \notin taken /\ Tab(q, d) \in Pdpt
  BY VmallocTables
<1>2. \A u \in Pdpt, i \in Idx :
        \/ ent'[<<u, i>>] = ent[<<u, i>>]
        \/ u = pdbr[p] \/ u \in taken
        \/ \E d \in User : Has(p, d) /\ u = Tab(p, d) /\ NEnt * d + i >= vAdd[p]
  BY DEF Validates
<1>3. \A u \in Pdpt, i \in Idx : ent'[<<u, i>>].swap =>
        ent[<<u, i>>].swap /\ (ent'[<<u, i>>] = ent[<<u, i>>] \/ u \in taken)
  BY DEF Refreshes
<1> HIDE DEF taken
<1>4. ASSUME NEW q \in Proc, NEW d \in User, NEW i \in Idx, Has(q, d), Allocated(q, <<d, i>>)
      PROVE  ent'[<<Tab(q, d), i>>] = ent[<<Tab(q, d), i>>]
  <2>1. Tab(q, d) # pdbr[p] /\ Tab(q, d) \notin taken /\ Tab(q, d) \in Pdpt /\ alive[q]
    BY <1>1, <1>4 DEF OwnershipInv, Tables, Has
  <2>2. NEnt * d + i < vAdd[q] /\ NEnt * d + i \in Nat
    <3>1. Linear(<<d, i>>) < vAdd[q]
      BY <1>4, <2>1, OwnedAllocated, UserFacts DEF OwnershipInv
    <3> QED
      BY <3>1, LinearType, UserFacts DEF Linear
  <2>3. ASSUME NEW e \in User, Has(p, e), Tab(q, d) = Tab(p, e), NEnt * e + i >= vAdd[p]
        PROVE  FALSE
    <3>1. q = p /\ d = e
      BY <1>4, <2>3 DEF OwnershipInv, Tables
    <3> QED
      BY <1>1, <2>2, <2>3, <3>1
  <2> QED
    BY <1>2, <2>1, <2>3
<1>5. ASSUME NEW a \in Addr, ent[a].swap
      PROVE  ent'[a] = ent[a] /\ a[1] \notin taken
  <2>1. PICK q \in Proc, d \in User : Has(q, d) /\ Tab(q, d) = a[1]
    BY <1>5 DEF PagesInv, Slots
  <2>2. a = <<Tab(q, d), a[2]>> /\ a[2] \in Idx
    BY <2>1 DEF Addr
  <2>3. Pte(q, d, a[2]).swap
    BY <1>5, <2>2 DEF Pte
  <2>4. Allocated(q, <<d, a[2]>>)
    BY <2>1, <2>2, <2>3 DEF PagesInv, Mapped
  <2>5. ent'[<<Tab(q, d), a[2]>>] = ent[<<Tab(q, d), a[2]>>]
    BY <1>4, <2>1, <2>2, <2>4
  <2> QED
    BY <1>1, <2>1, <2>2, <2>5
<1>6. ASSUME NEW a \in Addr, ent'[a].swap
      PROVE  ent'[a] = ent[a]
  <2>1. a = <<a[1], a[2]>> /\ a[1] \in Pdpt /\ a[2] \in Idx
    BY DEF Addr
  <2>2. ent[a].swap
    BY <1>3, <1>6, <2>1
  <2> QED
    BY <1>5, <2>2
<1> QED
  BY <1>4, <1>5, <1>6

\* The pages of blocks are those that were, and n at the counter.
LEMMA VmallocAllocates ==
  ASSUME TypeOK, Disciplined, OwnershipInv, NEW p \in Proc, NEW n \in Sizes, Vmalloc(p, n)
  PROVE  /\ \A q \in Proc : \A w : Allocated(q, w) => Allocated(q, w)'
         /\ \A q \in Proc : \A w : Allocated(q, w)' =>
              Allocated(q, w) \/ (q = p /\ vAdd[p] <= Linear(w) /\ Linear(w) < vAdd[p] + n)
         /\ \A w : vAdd[p] <= Linear(w) /\ Linear(w) < vAdd[p] + n => Allocated(p, w)'
<1> DEFINE k == vAdd[p]
           new == <<VPage(k), n>>
<1>1. /\ k \in Nat /\ n \in Nat /\ k + n < Top /\ Top \in Nat
      /\ blocks' = [blocks EXCEPT ![p] = @ \cup {new}]
  BY VmallocWrites, VmallocTables
<1>2. /\ \A q \in Proc : q # p => blocks'[q] = blocks[q]
      /\ blocks'[p] = blocks[p] \cup {new}
  BY <1>1 DEF TypeOK
<1>3. Linear(new[1]) = k /\ new[2] = n
  BY <1>1, DivFacts, Regions DEF VPage, Linear
<1> HIDE DEF k, new
<1> QED
  BY <1>2, <1>3 DEF Allocated, Linear, k

\* No entry of a table, old or new, maps a page that was not there before.
LEMMA VmallocMapped ==
  ASSUME TypeOK, Disciplined, OwnershipInv, PagesInv, NEW p \in Proc, NEW n \in Sizes,
         Vmalloc(p, n), NEW q \in Proc, NEW d \in User, NEW i \in Idx, Has(q, d)',
         Pte(q, d, i)'.pres \/ Pte(q, d, i)'.swap
  PROVE  Has(q, d) /\ Allocated(q, <<d, i>>)
<1>1. PICK missing, alloc : Validates(p, n, missing, alloc) /\ Refreshes(p, n, missing, alloc)
  BY VmallocWrites
<1>2. alive[p] /\ UNCHANGED pdbr
  BY <1>1, VmallocTables
<1>3. /\ Has(q, d) => Tab(q, d)' = Tab(q, d) /\ \A e \in missing : Tab(q, d) # alloc[e]
      /\ ~Has(q, d) => q = p /\ d \in missing
      /\ \A e \in missing : Tab(p, e)' = alloc[e] /\ alloc[e] \in Pdpt
      /\ \A r \in Proc, e \in User : Has(r, e) => \A g \in missing : Tab(r, e) # alloc[g]
  BY <1>1, VmallocTables
<1>4. \A a \in Addr : ent'[a].swap => ent'[a] = ent[a]
  BY <1>1, VmallocKeeps
<1>5. Pte(q, d, i)' = ent'[<<Tab(q, d)', i>>]
  BY DEF Pte
<1>6. CASE Has(q, d)
  <2>1. <<Tab(q, d), i>> \in Addr /\ Tab(q, d)' = Tab(q, d) /\ Tab(q, d) # pdbr[p]
    BY <1>2, <1>3, <1>6 DEF OwnershipInv, Tables, Addr
  <2>2. Pte(q, d, i).pres \/ Pte(q, d, i).swap
    <3>1. CASE ent'[<<Tab(q, d), i>>] = ent[<<Tab(q, d), i>>]
      BY <1>5, <2>1, <3>1 DEF Pte
    <3>2. CASE ent'[<<Tab(q, d), i>>] # ent[<<Tab(q, d), i>>]
      <4>1. ~ent'[<<Tab(q, d), i>>].pres
        BY <1>1, <1>3, <1>6, <2>1, <3>2 DEF Validates, Addr
      <4> QED
        BY <1>4, <1>5, <2>1, <3>2, <4>1
    <3> QED
      BY <3>1, <3>2
  <2> QED
    BY <1>6, <2>2 DEF PagesInv, Mapped
<1>7. CASE ~Has(q, d)
  <2>1. q = p /\ d \in missing /\ Tab(q, d)' = alloc[d] /\ <<alloc[d], i>> \in Addr
    BY <1>3, <1>7 DEF Addr
  <2>2. ~ent'[<<alloc[d], i>>].pres
    BY <1>1, <2>1 DEF Validates
  <2>3. ent'[<<alloc[d], i>>].swap /\ ent[<<alloc[d], i>>].swap
    BY <1>4, <1>5, <2>1, <2>2
  <2> QED
    BY <1>3, <2>1, <2>3 DEF PagesInv, Slots
<1> QED
  BY <1>6, <1>7

LEMMA VmallocPages ==
  ASSUME TypeOK, Disciplined, OwnershipInv, PagesInv, NEW p \in Proc, NEW n \in Sizes,
         Vmalloc(p, n)
  PROVE  PagesInv'
<1>1. PICK missing, alloc : Validates(p, n, missing, alloc) /\ Refreshes(p, n, missing, alloc)
  BY VmallocWrites
<1> DEFINE k == vAdd[p]
           new == <<VPage(k), n>>
<1>2. /\ alive[p] /\ n \in Nat /\ n > 0 /\ k \in Nat /\ k + n < Top /\ k \in 0 .. Top - 1
      /\ pc[p] = "user" /\ currpid = p /\ vAdd'[p] = k + n
      /\ blocks' = [blocks EXCEPT ![p] = @ \cup {new}]
      /\ UNCHANGED <<alive, pdbr, pc, currpid, cr2>>
      /\ \A q \in Proc : q # p => vAdd'[q] = vAdd[q]
  BY <1>1, VmallocTables
<1>3. /\ \A q \in Proc, d \in User :
           /\ Has(q, d) => Has(q, d)' /\ Tab(q, d)' = Tab(q, d) /\ ~(q = p /\ d \in missing)
           /\ Has(q, d)' => Has(q, d) \/ (q = p /\ d \in missing)
      /\ \A d \in missing : Has(p, d)' /\ Tab(p, d)' = alloc[d] /\ alloc[d] \in Pdpt
      /\ \A q \in Proc, d \in User : Has(q, d) => \A e \in missing : Tab(q, d) # alloc[e]
  BY <1>1, VmallocTables
<1>4. /\ \A q \in Proc, d \in User, i \in Idx : Has(q, d) /\ Allocated(q, <<d, i>>) =>
           ent'[<<Tab(q, d), i>>] = ent[<<Tab(q, d), i>>]
      /\ \A a \in Addr : ent[a].swap => ent'[a] = ent[a]
      /\ \A a \in Addr : ent'[a].swap => ent'[a] = ent[a]
  BY <1>1, VmallocKeeps
<1>5. /\ \A q \in Proc : q # p => blocks'[q] = blocks[q]
      /\ blocks'[p] = blocks[p] \cup {new}
  BY <1>2 DEF TypeOK
<1>6. Linear(new[1]) = k /\ new[2] = n
  BY <1>2, DivFacts, Regions DEF VPage, Linear
<1>7. /\ NEnt * HeapIdx <= k
      /\ \A b \in blocks[p] : /\ Linear(b[1]) \in Nat /\ b[2] \in Nat /\ Linear(b[1]) + b[2] <= k
  BY <1>2, BlockType DEF OwnershipInv, Heap, Live
<1> HIDE DEF k, new
<1>8. /\ \A q \in Proc : \A w : Allocated(q, w) => Allocated(q, w)'
      /\ \A q \in Proc : \A w : Allocated(q, w)' =>
           Allocated(q, w) \/ (q = p /\ k <= Linear(w) /\ Linear(w) < k + n)
      /\ \A w : k <= Linear(w) /\ Linear(w) < k + n => Allocated(p, w)'
  BY VmallocAllocates DEF k
<1>9. Apart'
  <2>1. \A b, c \in blocks[p] :
          b = c \/ Linear(b[1]) + b[2] <= Linear(c[1]) \/ Linear(c[1]) + c[2] <= Linear(b[1])
    BY <1>2 DEF PagesInv, Apart, Live
  <2>2. \A b, c \in blocks'[p] :
          b = c \/ Linear(b[1]) + b[2] <= Linear(c[1]) \/ Linear(c[1]) + c[2] <= Linear(b[1])
    BY <1>5, <1>6, <1>7, <2>1
  <2> QED
    BY <1>2, <1>5, <2>2 DEF PagesInv, Apart, Live, Linear
<1>10. Mapped'
  <2>1. ASSUME NEW q \in Proc, NEW d \in Idx, NEW i \in Idx, alive[q], Allocated(q, <<d, i>>)'
        PROVE  d \in User /\ Has(q, d)' /\ Pte(q, d, i)'.valid
    <3>1. CASE Allocated(q, <<d, i>>)
      <4>1. d \in User /\ Has(q, d) /\ Pte(q, d, i).valid
        BY <2>1, <3>1 DEF PagesInv, Mapped
      <4>2. ent'[<<Tab(q, d), i>>] = ent[<<Tab(q, d), i>>] /\ Tab(q, d)' = Tab(q, d) /\ Has(q, d)'
        BY <1>3, <1>4, <3>1, <4>1
      <4> QED
        BY <4>1, <4>2 DEF Pte
    <3>2. CASE ~Allocated(q, <<d, i>>)
      <4>1. q = p /\ k <= NEnt * d + i /\ NEnt * d + i < k + n
        BY <1>8, <2>1, <3>2 DEF Linear
      <4>2. d \in User
        BY <1>2, <1>7, <4>1, HeapDir, LinearType
      <4>3. /\ d \in missing \/ Has(p, d)
            /\ ent'[<<IF d \in missing THEN alloc[d] ELSE Tab(p, d), i>>].valid
        BY <1>1, <4>1, <4>2 DEF Refreshes, k
      <4>4. Has(p, d)' /\ Tab(p, d)' = IF d \in missing THEN alloc[d] ELSE Tab(p, d)
        BY <1>3, <4>2, <4>3
      <4> QED
        BY <4>1, <4>2, <4>3, <4>4 DEF Pte
    <3> QED
      BY <3>1, <3>2
  <2>2. ASSUME NEW q \in Proc, NEW d \in User, NEW i \in Idx, Has(q, d)',
               Pte(q, d, i)'.pres \/ Pte(q, d, i)'.swap
        PROVE  Allocated(q, <<d, i>>)'
    BY <1>8, <2>2, VmallocMapped
  <2> QED
    BY <1>2, <2>1, <2>2 DEF Mapped
<1>11. swapAvail' = swapAvail /\ swapUsed' = swapUsed
  BY DEF Vmalloc, swapVars
<1>12. Slots'
  BY <1>3, <1>4, <1>11 DEF PagesInv, Slots
<1>13. SlotsCounted'
  BY <1>11 DEF PagesInv, SlotsCounted
<1>14. FaultAllocated'
  <2>1. \A q \in Proc : pc[q] # "fault"
    BY <1>2 DEF OwnershipInv, Control
  <2> QED
    BY <1>2, <2>1 DEF FaultAllocated
<1> QED
  BY <1>9, <1>10, <1>12, <1>13, <1>14 DEF PagesInv

(***************************************************************************)
(* Counting.                                                               *)
(***************************************************************************)

\* What a function that tells its arguments apart makes of a set is as large.
LEMMA ImageCount ==
  ASSUME NEW S, NEW g, IsFiniteSet(S), \A a, b \in S : g[a] = g[b] => a = b
  PROVE  /\ IsFiniteSet({g[a] : a \in S})
         /\ Cardinality({g[a] : a \in S}) = Cardinality(S)
<1> DEFINE T == {g[a] : a \in S}
           h == [a \in S |-> g[a]]
<1>1. h \in [S -> T] /\ \A a \in S : h[a] = g[a]
  OBVIOUS
<1>2. \A t \in T : \E a \in S : h[a] = t
  OBVIOUS
<1> HIDE DEF h, T
<1>3. h \in Bijection(S, T) /\ h \in Surjection(S, T)
  BY <1>1, <1>2 DEF Bijection, Injection, Surjection, IsInjective
<1>4. Cardinality(S) = Cardinality(T)
  BY <1>3, FS_Bijection DEF ExistsBijection
<1>5. IsFiniteSet(T)
  BY <1>3, FS_Surjection
<1> QED
  BY <1>4, <1>5 DEF T

\* A counter of pages in use after some of them, and only those, were freed.
LEMMA RemovedCount ==
  ASSUME NEW S, NEW T \in SUBSET S, IsFiniteSet(S), NEW u, u = Cardinality(S)
  PROVE  Less(u, Cardinality(T)) = Cardinality(S \ T)
<1>1. S \cap T = T /\ IsFiniteSet(T)
  BY FS_Subset
<1>2. Cardinality(S \ T) = Cardinality(S) - Cardinality(S \cap T)
  BY FS_Difference
<1>3. Cardinality(T) <= Cardinality(S) /\ Cardinality(T) \in Nat /\ Cardinality(S) \in Nat
  BY <1>1, FS_Subset, FS_CardinalityType
<1> QED
  BY <1>1, <1>2, <1>3 DEF Less

(***************************************************************************)
(* vfree and kill: slots.                                                  *)
(***************************************************************************)

\* The slots given back are those of the entries given back.
LEMMA ReturnedSlots ==
  ASSUME TypeOK, OwnershipInv, PagesInv, NEW p \in Proc, NEW D, NEW A, Returns(p, D, A)
  PROVE  /\ \A s \in Swap : swapAvail'[s] <=> swapAvail[s] \/ \E a \in A : ent[a].swap /\ ent[a].base = s
         /\ SlotsCounted'
<1> DEFINE slots == {a \in A : ~ent[a].pres /\ ent[a].swap /\ ent[a].base \in Swap}
           freed == {ent[a].base : a \in slots}
           inUse == {s \in Swap : ~swapAvail[s]}
<1>1. /\ A \in SUBSET Addr /\ swapUsed' = Less(swapUsed, Cardinality(slots))
      /\ swapAvail' = [s \in Swap |-> swapAvail[s] \/ \E a \in slots : ent[a].base = s]
  BY DEF Returns, Reclaim
<1>2. \A a \in A : ent[a].swap => ~ent[a].pres /\ ent[a].base \in inUse
  BY <1>1 DEF PagesInv, Slots
<1>3. \A s \in Swap : swapAvail'[s] <=> swapAvail[s] \/ \E a \in A : ent[a].swap /\ ent[a].base = s
  BY <1>1, <1>2 DEF TypeOK
<1>4. freed \in SUBSET inUse /\ IsFiniteSet(inUse) /\ IsFiniteSet(slots)
  BY <1>1, <1>2, Finite, FS_Subset
<1>5. Cardinality(freed) = Cardinality(slots)
  <2> DEFINE g == [a \in slots |-> ent[a].base]
  <2>1. \A a, b \in slots : g[a] = g[b] => a = b
    BY <1>1 DEF PagesInv, Slots
  <2>2. freed = {g[a] : a \in slots}
    OBVIOUS
  <2> HIDE DEF slots, freed, g
  <2> QED
    BY <1>4, <2>1, <2>2, ImageCount
<1>6. {s \in Swap : ~swapAvail'[s]} = inUse \ freed
  BY <1>1 DEF TypeOK
<1>7. swapUsed = Cardinality(inUse)
  BY DEF PagesInv, SlotsCounted
<1> HIDE DEF inUse, freed, slots
<1>8. swapUsed' = Cardinality(inUse \ freed)
  BY <1>1, <1>4, <1>5, <1>7, RemovedCount
<1> QED
  BY <1>3, <1>6, <1>8 DEF SlotsCounted

LEMMA ReturnsSlots ==
  ASSUME TypeOK, OwnershipInv, PagesInv, NEW p \in Proc, NEW D, NEW A, Returns(p, D, A),
         alive' \in [Proc -> BOOLEAN]
  PROVE  Slots' /\ SlotsCounted'
<1>1. /\ \A s \in Swap : swapAvail'[s] <=> swapAvail[s] \/ \E a \in A : ent[a].swap /\ ent[a].base = s
      /\ SlotsCounted'
  BY ReturnedSlots
<1>2. /\ ClearsOnly(p, D, A)
      /\ \A q \in Proc, d \in User :
           /\ Has(q, d)' <=> Has(q, d) /\ ~(q = p /\ d \in D)
           /\ Has(q, d)' => Tab(q, d)' = Tab(q, d) /\ alive[q] /\ alive'[q]
  BY ReturnsWrites
<1>3. /\ alive[p] /\ D \in SUBSET User /\ A \in SUBSET Addr
      /\ \A d \in D, i \in Idx :
           <<Tab(p, d), i>> \in A \/ (~Pte(p, d, i).valid /\ ~Pte(p, d, i).pres)
  BY DEF Returns
<1>4. \A a \in Addr : ent'[a].swap => ent'[a] = ent[a] /\ a \notin A
  <2>1. ~Zero.swap
    BY DEF Zero
  <2> QED
    BY <1>2, <2>1 DEF ClearsOnly, Addr
<1>5. ASSUME NEW a \in Addr, ent[a].swap, a \notin A
      PROVE  ent'[a] = ent[a] /\ \E q \in Proc, d \in User : Has(q, d)' /\ Tab(q, d)' = a[1]
  <2>1. PICK q \in Proc, d \in User : Has(q, d) /\ Tab(q, d) = a[1]
    BY <1>5 DEF PagesInv, Slots
  <2>2. a = <<Tab(q, d), a[2]>> /\ a[1] \in Pdpt /\ a[2] \in Idx
    BY <2>1 DEF Addr
  <2>3. ent[a] = Pte(q, d, a[2])
    BY <2>2 DEF Pte
  <2>4. Allocated(q, <<d, a[2]>>)
    BY <1>5, <2>1, <2>2, <2>3 DEF PagesInv, Mapped
  <2>5. Pte(q, d, a[2]).valid
    BY <2>1, <2>2, <2>4, UserFacts DEF PagesInv, Mapped, Has
  <2>6. ~(q = p /\ d \in D)
    BY <1>3, <1>5, <2>2, <2>5
  <2>7. a[1] # pdbr[p]
    BY <1>3, <2>1 DEF OwnershipInv, Tables
  <2>8. ent'[<<a[1], a[2]>>] = ent[<<a[1], a[2]>>]
    BY <1>2, <1>5, <2>2, <2>7 DEF ClearsOnly
  <2> QED
    BY <1>2, <2>1, <2>2, <2>6, <2>8
<1>6. ASSUME NEW a \in Addr, ent'[a].swap
      PROVE  /\ \E q \in Proc, d \in User : Has(q, d)' /\ Tab(q, d)' = a[1]
             /\ ~ent'[a].pres /\ ent'[a].base \in Swap /\ ~swapAvail'[ent'[a].base]
  <2>1. ent'[a] = ent[a] /\ a \notin A /\ ent[a].swap
    BY <1>4, <1>6
  <2>2. ~ent[a].pres /\ ent[a].base \in Swap /\ ~swapAvail[ent[a].base]
    BY <2>1 DEF PagesInv, Slots
  <2>3. \A b \in A : ent[b].swap /\ ent[b].base = ent[a].base => b = a
    BY <1>3, <2>1 DEF PagesInv, Slots
  <2> QED
    BY <1>1, <1>5, <2>1, <2>2, <2>3
<1>7. \A a, b \in Addr : ent'[a].swap /\ ent'[b].swap /\ ent'[a].base = ent'[b].base => a = b
  BY <1>4 DEF PagesInv, Slots
<1>8. ASSUME NEW s \in Swap, ~swapAvail'[s]
      PROVE  \E a \in Addr : ent'[a].swap /\ ent'[a].base = s
  <2>1. PICK a \in Addr : ent[a].swap /\ ent[a].base = s
    BY <1>1, <1>8 DEF PagesInv, Slots
  <2>2. a \notin A
    BY <1>1, <1>8, <2>1
  <2> QED
    BY <1>5, <2>1, <2>2
<1> QED
  BY <1>1, <1>6, <1>7, <1>8 DEF Slots

(***************************************************************************)
(* vfree: the pages cleared are those of the block.                        *)
(***************************************************************************)

\* A page is in no block but b when vfree was asked for b.
LEMMA OtherBlocks ==
  ASSUME TypeOK, PagesInv, NEW p \in Proc, alive[p], NEW b \in blocks[p],
         blocks' = [blocks EXCEPT ![p] = @ \ {b}], NEW w \in Idx \X Idx
  PROVE  /\ Allocated(p, w)' <=>
              Allocated(p, w) /\ ~(Linear(b[1]) <= Linear(w) /\ Linear(w) < Linear(b[1]) + b[2])
         /\ \A q \in Proc : q # p => Allocated(q, w)' = Allocated(q, w)
<1>1. \A q \in Proc : q # p => blocks'[q] = blocks[q]
  BY DEF TypeOK
<1>2. blocks'[p] = blocks[p] \ {b}
  BY DEF TypeOK
<1>3. Linear(w) \in Nat /\ \A c \in blocks[p] : Linear(c[1]) \in Nat /\ c[2] \in Nat
  BY LinearType, BlockType
<1>4. \A c \in blocks[p] : c = b \/ Linear(b[1]) + b[2] <= Linear(c[1])
                               \/ Linear(c[1]) + c[2] <= Linear(b[1])
  BY DEF PagesInv, Apart, Live
<1>5. Allocated(p, w)' <=>
        \E c \in blocks[p] \ {b} : Linear(c[1]) <= Linear(w) /\ Linear(w) < Linear(c[1]) + c[2]
  BY <1>2 DEF Allocated, Linear
<1>6. \A c \in blocks[p] \ {b} :
        Linear(c[1]) <= Linear(w) /\ Linear(w) < Linear(c[1]) + c[2] =>
          ~(Linear(b[1]) <= Linear(w) /\ Linear(w) < Linear(b[1]) + b[2])
  BY <1>3, <1>4
<1>7. Allocated(p, w)' <=>
        Allocated(p, w) /\ ~(Linear(b[1]) <= Linear(w) /\ Linear(w) < Linear(b[1]) + b[2])
  BY <1>5, <1>6 DEF Allocated
<1>8. \A q \in Proc : q # p => Allocated(q, w)' = Allocated(q, w)
  BY <1>1 DEF Allocated, Linear
<1> QED
  BY <1>7, <1>8

LEMMA VfreePages ==
  ASSUME TypeOK, Careful, OwnershipInv, PagesInv, NEW p \in Proc, NEW b \in blocks[p],
         Vfree(p, b[1], b[2])
  PROVE  PagesInv'
<1> DEFINE A == {<<Tab(p, x[1]), x[2]>> : x \in Walked(b[1], b[2])}
           InB(w) == Linear(b[1]) <= Linear(w) /\ Linear(w) < Linear(b[1]) + b[2]
<1>1. PICK D :
        /\ Returns(p, D, A)
        /\ \A x \in Walked(b[1], b[2]) : x[1] \in User /\ x[2] \in Idx /\ Has(p, x[1])
        /\ Visited(b[1], b[2]) \subseteq Idx
  BY VfreeReturns
<1>2. /\ currpid = p /\ pc[p] = "user" /\ alive[p]
      /\ blocks' = [blocks EXCEPT ![p] = @ \ {b}]
      /\ UNCHANGED <<alive, pdbr, pc>>
      /\ b[1][2] = 0 \/ b[1][2] + b[2] <= NEnt
  <2>1. b = <<b[1], b[2]>>
    BY DEF TypeOK
  <2> QED
    BY <2>1 DEF Vfree, Executing, procVars, ctlVars, OwnershipInv, Control, Careful
<1>3. \A d, i \in Idx : <<d, i>> \in Walked(b[1], b[2]) <=> InB(<<d, i>>)
  <2>1. b[1] \in Idx \X Idx /\ b[2] \in Nat /\ b[2] > 0
    BY BlockType
  <2> SUFFICES ASSUME NEW d \in Idx, NEW i \in Idx
               PROVE  <<d, i>> \in Walked(b[1], b[2]) <=> InB(<<d, i>>)
    OBVIOUS
  <2>2. Linear(<<d, i>>) = NEnt * d + i
    BY DEF Linear
  <2>3. <<d, i>> \in Walked(b[1], b[2]) <=>
          Linear(b[1]) <= NEnt * d + i /\ NEnt * d + i < Linear(b[1]) + b[2]
    BY <1>1, <1>2, <2>1, WalkedIsBlock
  <2> QED
    BY <2>2, <2>3
<1>4. \A w \in Idx \X Idx :
        /\ Allocated(p, w)' <=> Allocated(p, w) /\ ~InB(w)
        /\ \A q \in Proc : q # p => Allocated(q, w)' = Allocated(q, w)
  BY <1>2, OtherBlocks
<1>5. alive' \in [Proc -> BOOLEAN]
  BY <1>2 DEF TypeOK
<1>6. /\ ClearsOnly(p, D, A)
      /\ \A q \in Proc, d \in User :
           /\ Has(q, d)' <=> Has(q, d) /\ ~(q = p /\ d \in D)
           /\ Has(q, d)' => Tab(q, d)' = Tab(q, d) /\ alive[q] /\ alive'[q]
  BY <1>1, <1>5, ReturnsWrites
<1>7. Slots' /\ SlotsCounted'
  BY <1>1, <1>5, ReturnsSlots
\* The entries cleared, seen from the tables.
<1>8. \A q \in Proc, d \in User, i \in Idx : Has(q, d) =>
        (<<Tab(q, d), i>> \in A <=> q = p /\ InB(<<d, i>>))
  <2> SUFFICES ASSUME NEW q \in Proc, NEW d \in User, NEW i \in Idx, Has(q, d)
               PROVE  <<Tab(q, d), i>> \in A <=> q = p /\ InB(<<d, i>>)
    OBVIOUS
  <2> HIDE DEF InB
  <2>1. ASSUME NEW x \in Walked(b[1], b[2]), <<Tab(q, d), i>> = <<Tab(p, x[1]), x[2]>>
        PROVE  q = p /\ InB(<<d, i>>)
    <3>1. q = p /\ d = x[1] /\ i = x[2]
      BY <1>1, <2>1 DEF OwnershipInv, Tables
    <3>2. x = <<d, i>>
      BY <3>1 DEF Walked
    <3> QED
      BY <1>3, <3>1, <3>2, UserFacts
  <2>2. ASSUME q = p, InB(<<d, i>>)
        PROVE  <<Tab(q, d), i>> \in A
    <3>1. <<d, i>> \in Walked(b[1], b[2])
      BY <1>3, <2>2, UserFacts
    <3>2. <<Tab(p, <<d, i>>[1]), <<d, i>>[2]>> \in A
      BY <3>1
    <3> QED
      BY <2>2, <3>2
  <2> QED
    BY <2>1, <2>2
<1>9. \A q \in Proc, d \in User, i \in Idx : Has(q, d) /\ <<Tab(q, d), i>> \notin A =>
        ent'[<<Tab(q, d), i>>] = ent[<<Tab(q, d), i>>]
  <2> SUFFICES ASSUME NEW q \in Proc, NEW d \in User, NEW i \in Idx, Has(q, d), <<Tab(q, d), i>> \notin A
               PROVE  ent'[<<Tab(q, d), i>>] = ent[<<Tab(q, d), i>>]
    OBVIOUS
  <2>1. Tab(q, d) \in Pdpt /\ Tab(q, d) # pdbr[p]
    BY <1>2 DEF OwnershipInv, Tables
  <2> QED
    BY <1>6, <2>1 DEF ClearsOnly
<1>10. \A q \in Proc, d \in User, i \in Idx : <<Tab(q, d), i>> \in A /\ Has(q, d) =>
         ~ent'[<<Tab(q, d), i>>].pres /\ ~ent'[<<Tab(q, d), i>>].swap
  <2>1. ~Zero.pres /\ ~Zero.swap
    BY DEF Zero
  <2>2. A \in SUBSET Addr
    BY <1>1 DEF Returns
  <2> HIDE DEF A
  <2> QED
    BY <1>6, <2>1, <2>2 DEF ClearsOnly, Addr
<1>11. \A d \in D, i \in Idx : <<Tab(p, d), i>> \in A \/ ~Pte(p, d, i).valid
  BY <1>1 DEF Returns
<1> HIDE DEF A, InB
<1>12. Mapped'
  <2>1. ASSUME NEW q \in Proc, NEW d \in Idx, NEW i \in Idx, alive[q], Allocated(q, <<d, i>>)'
        PROVE  d \in User /\ Has(q, d)' /\ Pte(q, d, i)'.valid
    <3>1. Allocated(q, <<d, i>>) /\ ~(q = p /\ InB(<<d, i>>))
      BY <1>4, <2>1
    <3>2. d \in User /\ Has(q, d) /\ Pte(q, d, i).valid
      BY <2>1, <3>1 DEF PagesInv, Mapped
    <3>3. <<Tab(q, d), i>> \notin A
      BY <1>8, <3>1, <3>2
    <3>4. ~(q = p /\ d \in D)
      BY <1>11, <3>2, <3>3
    <3>5. Has(q, d)' /\ Tab(q, d)' = Tab(q, d)
      BY <1>6, <3>2, <3>4
    <3> QED
      BY <1>9, <3>2, <3>3, <3>5 DEF Pte
  <2>2. ASSUME NEW q \in Proc, NEW d \in User, NEW i \in Idx, Has(q, d)',
               Pte(q, d, i)'.pres \/ Pte(q, d, i)'.swap
        PROVE  Allocated(q, <<d, i>>)'
    <3>1. Has(q, d) /\ Tab(q, d)' = Tab(q, d) /\ Pte(q, d, i)' = ent'[<<Tab(q, d), i>>]
      BY <1>6, <2>2 DEF Pte
    <3>2. <<Tab(q, d), i>> \notin A
      BY <1>10, <2>2, <3>1
    <3>3. Pte(q, d, i).pres \/ Pte(q, d, i).swap
      BY <1>9, <2>2, <3>1, <3>2 DEF Pte
    <3>4. Allocated(q, <<d, i>>) /\ ~(q = p /\ InB(<<d, i>>))
      BY <1>8, <3>1, <3>2, <3>3 DEF PagesInv, Mapped
    <3> QED
      BY <1>4, <3>4, UserFacts
  <2> QED
    BY <1>2, <2>1, <2>2 DEF Mapped
<1>13. Apart'
  <2>1. \A q \in Proc : blocks'[q] \subseteq blocks[q]
    BY <1>2 DEF TypeOK
  <2> QED
    BY <1>2, <2>1 DEF PagesInv, Apart, Live, Linear
<1>14. FaultAllocated'
  BY <1>2 DEF FaultAllocated, OwnershipInv, Control
<1> QED
  BY <1>7, <1>12, <1>13, <1>14 DEF PagesInv

(***************************************************************************)
(* kill: nothing is left of the process, and nothing of another is taken.  *)
(***************************************************************************)
LEMMA KillPages ==
  ASSUME TypeOK, Careful, OwnershipInv, PagesInv, NEW p \in Proc,
         FinishExit(p) \/ \E k \in Thread : FinishKillOther(k, p)
  PROVE  PagesInv'
<1>1. Bury(p) /\ alive[p] /\ \A q \in Proc : pc[q] # "fault"
  <2>1. None \notin Proc /\ Proc \subseteq Thread
    BY PagingAssumption DEF Thread
  <2>2. CASE FinishExit(p)
    BY <2>1, <2>2 DEF FinishExit, OwnershipInv, Control
  <2>3. CASE \E k \in Thread : FinishKillOther(k, p)
    <3> PICK k \in Thread : FinishKillOther(k, p)
      BY <2>3
    <3>1. Bury(p) /\ currpid = k /\ victim[k] = p
      BY DEF FinishKillOther
    <3> QED
      BY <2>1, <3>1 DEF OwnershipInv, Control
  <2> QED
    BY <2>2, <2>3
<1>2. PICK D, A :
        /\ Returns(p, D, A) /\ D = {d \in User : Has(p, d)}
        /\ \A q \in Proc : alive'[q] <=> alive[q] /\ q # p
        /\ alive' \in [Proc -> BOOLEAN]
  BY <1>1, BuryReturns
<1>3. /\ ClearsOnly(p, D, A)
      /\ \A q \in Proc, d \in User :
           /\ Has(q, d)' <=> Has(q, d) /\ ~(q = p /\ d \in D)
           /\ Has(q, d)' => Tab(q, d)' = Tab(q, d) /\ alive[q] /\ alive'[q]
  BY <1>2, ReturnsWrites
<1>4. Slots' /\ SlotsCounted'
  BY <1>2, ReturnsSlots
<1>5. \A q \in Proc : q # p => blocks'[q] = blocks[q]
  BY <1>1 DEF Bury, TypeOK
<1>6. \A q \in Proc : \A w : q # p => Allocated(q, w)' = Allocated(q, w)
  BY <1>5 DEF Allocated, Linear
<1>7. ASSUME NEW q \in Proc, NEW d \in User, Has(q, d), q # p
      PROVE  /\ Has(q, d)' /\ Tab(q, d)' = Tab(q, d)
             /\ \A i \in Idx : Pte(q, d, i)' = Pte(q, d, i)
  <2>1. Has(q, d)' /\ Tab(q, d)' = Tab(q, d)
    BY <1>3, <1>7
  <2>2. Tab(q, d) \in Pdpt /\ Tab(q, d) # pdbr[p]
    BY <1>1, <1>7 DEF OwnershipInv, Tables
  <2>3. \A i \in Idx : <<Tab(q, d), i>> \notin A
    <3>1. \A a \in A : \E e \in User : Has(p, e) /\ a[1] = Tab(p, e)
      BY <1>2 DEF Returns
    <3> QED
      BY <1>7, <3>1 DEF OwnershipInv, Tables
  <2>4. \A i \in Idx : ent'[<<Tab(q, d), i>>] = ent[<<Tab(q, d), i>>]
    BY <1>3, <2>2, <2>3 DEF ClearsOnly
  <2> QED
    BY <2>1, <2>4 DEF Pte
<1>8. Mapped'
  <2>1. ASSUME NEW q \in Proc, NEW d \in Idx, NEW i \in Idx, alive'[q], Allocated(q, <<d, i>>)'
        PROVE  d \in User /\ Has(q, d)' /\ Pte(q, d, i)'.valid
    <3>1. q # p /\ alive[q] /\ Allocated(q, <<d, i>>)
      BY <1>2, <1>6, <2>1
    <3>2. d \in User /\ Has(q, d) /\ Pte(q, d, i).valid
      BY <3>1 DEF PagesInv, Mapped
    <3> QED
      BY <1>7, <3>1, <3>2
  <2>2. ASSUME NEW q \in Proc, NEW d \in User, NEW i \in Idx, Has(q, d)',
               Pte(q, d, i)'.pres \/ Pte(q, d, i)'.swap
        PROVE  Allocated(q, <<d, i>>)'
    <3>1. Has(q, d) /\ q # p
      BY <1>2, <1>3, <2>2
    <3>2. Allocated(q, <<d, i>>)
      BY <1>7, <2>2, <3>1 DEF PagesInv, Mapped
    <3> QED
      BY <1>6, <3>1, <3>2
  <2> QED
    BY <2>1, <2>2 DEF Mapped
<1>9. Apart'
  BY <1>2, <1>5 DEF PagesInv, Apart, Live, Linear
<1>10. FaultAllocated'
  <2>1. pc' = [pc EXCEPT ![p] = "user"]
    BY <1>1 DEF Bury
  <2> QED
    BY <1>1, <2>1 DEF FaultAllocated, TypeOK, Thread
<1> QED
  BY <1>4, <1>8, <1>9, <1>10 DEF PagesInv

(***************************************************************************)
(* The invariant.                                                          *)
(***************************************************************************)
LEMMA InitPages == Init => PagesInv
<1> SUFFICES ASSUME Init PROVE PagesInv
  OBVIOUS
<1> USE DEF Init
<1>1. Apart /\ FaultAllocated
  BY DEF Apart, FaultAllocated, Live, Thread
<1>2. Mapped
  BY DEF Mapped, Has
<1>3. Slots
  <2>1. ~Zero.swap /\ \A b : ~Mapping(b).swap
    BY DEF Zero, Mapping
  <2> QED
    BY <2>1 DEF Slots
<1>4. SlotsCounted
  <2>1. {s \in Swap : ~swapAvail[s]} = {}
    OBVIOUS
  <2> QED
    BY <2>1, FS_EmptySet DEF SlotsCounted
<1> QED
  BY <1>1, <1>2, <1>3, <1>4 DEF PagesInv

LEMMA PagesStep ==
  ASSUME TypeOK, Careful, OwnershipInv, PagesInv, [Next]_vars
  PROVE  PagesInv'
<1>0. Disciplined
  BY DEF Careful, Disciplined
<1>1. CASE UNCHANGED vars
  <2>1. Apart' /\ Mapped' /\ Slots' /\ SlotsCounted'
    BY <1>1, PagesUnchanged DEF PagesInv, vars, tabVars, swapVars, procVars, heapVars
  <2>2. FaultAllocated'
    BY <1>1 DEF PagesInv, FaultAllocated, Allocated, Pde, Linear, vars, tabVars, procVars, heapVars, ctlVars
  <2> QED
    BY <2>1, <2>2 DEF PagesInv
<1>2. CASE ControlStep
  BY <1>2, ControlStepPages
<1>3. ASSUME NEW p \in Proc, Vcreate(p)
      PROVE  PagesInv'
  BY <1>3, VcreatePages
<1>4. ASSUME NEW p \in Proc, NEW n \in Sizes, Vmalloc(p, n)
      PROVE  PagesInv'
  BY <1>0, <1>4, VmallocPages
<1>5. ASSUME NEW p \in Proc, NEW b \in blocks[p], Vfree(p, b[1], b[2])
      PROVE  PagesInv'
  BY <1>5, VfreePages
<1>6. ASSUME NEW p \in Proc, NEW f \in Fss,
             \/ FirstTouch(p, f) \/ SwapIn(p, f) \/ SwapInEvict(p, f)
             \/ \E s \in Swap : FirstTouchEvict(p, f, s)
      PROVE  PagesInv'
  BY <1>6, HandlerPages
<1>7. ASSUME NEW p \in Proc, FinishExit(p) \/ \E k \in Thread : FinishKillOther(k, p)
      PROVE  PagesInv'
  BY <1>7, KillPages
<1> QED
  BY <1>1, <1>2, <1>3, <1>4, <1>5, <1>6, <1>7 DEF Next, ControlStep

LEMMA PagesInvariant ==
  ASSUME Careful
  PROVE  Spec => []PagesInv
<1>1. Init => PagesInv
  BY InitPages
<1>2. TypeOK /\ OwnershipInv /\ PagesInv /\ [Next]_vars => PagesInv'
  BY PagesStep
<1>3. Spec => []TypeOK
  BY TypeCorrect
<1>4. Spec => []OwnershipInv
  <2>1. Disciplined
    BY DEF Careful, Disciplined
  <2> QED
    BY <2>1, OwnershipInvariant
<1> QED
  BY <1>1, <1>2, <1>3, <1>4, PTL DEF Spec

(***************************************************************************)
(* The used counter of the PDPT region.                                    *)
(***************************************************************************)
LEMMA TablesCountedStep ==
  ASSUME TypeOK, Disciplined, OwnershipInv, TablesCounted, [Next]_vars
  PROVE  TablesCounted'
<1> DEFINE inUse == {t \in Pdpt \ Golden : ~pdptAvail[t]}
<1>1. pdptUsed = Cardinality(inUse) /\ IsFiniteSet(inUse)
  BY Finite, FS_Subset DEF TablesCounted
<1>2. CASE UNCHANGED vars
  BY <1>2 DEF TablesCounted, vars, tabVars
<1>3. CASE ControlStep
  BY <1>3, ControlFrame DEF TablesCounted, tabVars
<1>4. ASSUME NEW p \in Proc, Vcreate(p)
      PROVE  TablesCounted'
  <2>1. PICK t \in Pdpt :
          pdptAvail[t] /\ pdptAvail' = [pdptAvail EXCEPT ![t] = FALSE] /\ pdptUsed' = pdptUsed + 1
    BY <1>4 DEF Vcreate, IsFirst
  <2>2. t \notin inUse /\ inUse' = inUse \cup {t}
    BY <2>1 DEF OwnershipInv, Tables, TypeOK
  <2>3. Cardinality(inUse \cup {t}) = Cardinality(inUse) + 1
    <3> HIDE DEF inUse
    <3> QED
      BY <1>1, <2>2, FS_AddElement
  <2>4. TablesCounted' <=> pdptUsed' = Cardinality(inUse')
    BY DEF TablesCounted
  <2> HIDE DEF inUse
  <2> QED
    BY <1>1, <2>1, <2>2, <2>3, <2>4
<1>5. ASSUME NEW p \in Proc, NEW n \in Sizes, Vmalloc(p, n)
      PROVE  TablesCounted'
  <2>1. PICK missing, alloc : Validates(p, n, missing, alloc) /\ Refreshes(p, n, missing, alloc)
    BY <1>5, VmallocWrites
  <2> DEFINE taken == {alloc[d] : d \in missing}
  <2>2. IsFiniteSet(missing) /\ \A d, e \in missing : alloc[d] = alloc[e] => d = e
    BY <2>1, UserFacts, FS_Subset DEF Validates
  <2>3. IsFiniteSet(taken) /\ Cardinality(taken) = Cardinality(missing)
    BY <2>2, ImageCount
  <2>4. \A t \in taken : t \in Pdpt /\ pdptAvail[t] /\ t \notin Golden
    BY <1>5, <2>1, VmallocTables
  <2>5. pdptAvail' = [t \in Pdpt |-> pdptAvail[t] /\ t \notin taken]
    BY <2>1 DEF Validates
  <2>6. pdptUsed' = pdptUsed + Cardinality(missing)
    BY <2>1 DEF Refreshes
  <2> HIDE DEF taken
  <2>7. inUse' = inUse \cup taken /\ inUse \cap taken = {}
    BY <2>4, <2>5 DEF TypeOK
  <2>8. TablesCounted' <=> pdptUsed' = Cardinality(inUse')
    BY DEF TablesCounted
  <2> HIDE DEF inUse
  <2>9. Cardinality(inUse \cup taken) = Cardinality(inUse) + Cardinality(taken)
    <3>1. Cardinality(inUse \cup taken) =
            Cardinality(inUse) + Cardinality(taken) - Cardinality(inUse \cap taken)
      BY <1>1, <2>3, FS_Union
    <3>2. Cardinality(inUse \cap taken) = 0
      BY <2>7, FS_EmptySet
    <3> QED
      BY <1>1, <2>3, <3>1, <3>2, FS_CardinalityType
  <2> QED
    BY <1>1, <2>3, <2>6, <2>7, <2>8, <2>9
\* The tables T that p had go back to the region.
<1>6. ASSUME NEW T \in SUBSET (Pdpt \ Golden), \A t \in T : ~pdptAvail[t],
             \A t \in Pdpt : pdptAvail'[t] <=> pdptAvail[t] \/ t \in T,
             pdptUsed' = Less(pdptUsed, Cardinality(T))
      PROVE  TablesCounted'
  <2>1. T \subseteq inUse /\ inUse' = inUse \ T
    BY <1>6
  <2>2. TablesCounted' <=> pdptUsed' = Cardinality(inUse')
    BY DEF TablesCounted
  <2> HIDE DEF inUse
  <2> QED
    BY <1>1, <1>6, <2>1, <2>2, RemovedCount
<1>7. ASSUME NEW p \in Proc, NEW b \in blocks[p], Vfree(p, b[1], b[2])
      PROVE  TablesCounted'
  <2>1. PICK D :
          /\ Returns(p, D, {<<Tab(p, x[1]), x[2]>> : x \in Walked(b[1], b[2])})
          /\ pdptUsed' = Less(pdptUsed, Cardinality({Tab(p, d) : d \in D}))
    BY <1>7, VfreeReturns
  <2> DEFINE T == {Tab(p, d) : d \in D}
  <2>2. alive[p] /\ UNCHANGED alive
    BY <1>7, <2>1 DEF Vfree, Returns, procVars
  <2>3. T \in SUBSET (Pdpt \ Golden) /\ \A t \in T : ~pdptAvail[t]
    BY <2>1 DEF Returns, OwnershipInv, Tables
  <2>4. \A t \in Pdpt : pdptAvail'[t] <=> pdptAvail[t] \/ t \in T
    BY <2>1, <2>2 DEF Returns, TypeOK
  <2> HIDE DEF T
  <2> QED
    BY <1>6, <2>1, <2>3, <2>4 DEF T
<1>8. ASSUME NEW p \in Proc, Bury(p), alive[p]
      PROVE  TablesCounted'
  <2>1. PICK D, A :
          /\ Returns(p, D, A)
          /\ pdptUsed' = Less(pdptUsed, Cardinality({Tab(p, d) : d \in D} \cup {pdbr[p]}))
          /\ ~alive'[p]
    BY <1>8, BuryReturns
  <2> DEFINE T == {Tab(p, d) : d \in D} \cup {pdbr[p]}
  <2>2. T \in SUBSET (Pdpt \ Golden) /\ \A t \in T : ~pdptAvail[t]
    BY <1>8, <2>1 DEF Returns, OwnershipInv, Tables
  <2>3. \A t \in Pdpt : pdptAvail'[t] <=> pdptAvail[t] \/ t \in T
    BY <2>1 DEF Returns, TypeOK
  <2> HIDE DEF T
  <2> QED
    BY <1>6, <2>1, <2>2, <2>3 DEF T
<1>9. ASSUME NEW p \in Proc, FinishExit(p) \/ \E k \in Thread : FinishKillOther(k, p)
      PROVE  TablesCounted'
  <2>1. None \notin Proc /\ Proc \subseteq Thread
    BY PagingAssumption DEF Thread
  <2>2. Bury(p) /\ alive[p]
    BY <1>9, <2>1 DEF FinishExit, FinishKillOther, OwnershipInv, Control
  <2> QED
    BY <1>8, <2>2
<1>10. ASSUME NEW p \in Proc, NEW f \in Fss,
              \/ FirstTouch(p, f) \/ SwapIn(p, f) \/ SwapInEvict(p, f)
              \/ \E s \in Swap : FirstTouchEvict(p, f, s)
       PROVE  TablesCounted'
  <2>1. UNCHANGED <<pdptAvail, pdptUsed>>
    BY <1>10 DEF FirstTouch, SwapIn, SwapInEvict, FirstTouchEvict, Install
  <2> QED
    BY <2>1 DEF TablesCounted
<1> HIDE DEF inUse
<1> QED
  BY <1>2, <1>3, <1>4, <1>5, <1>7, <1>9, <1>10 DEF Next, ControlStep

LEMMA TablesCountedInvariant ==
  ASSUME Disciplined
  PROVE  Spec => []TablesCounted
<1>1. Init => TablesCounted
  <2> SUFFICES ASSUME Init PROVE TablesCounted
    OBVIOUS
  <2>1. {t \in Pdpt \ Golden : ~pdptAvail[t]} = {} /\ pdptUsed = 0
    BY DEF Init
  <2> QED
    BY <2>1, FS_EmptySet DEF TablesCounted
<1>2. TypeOK /\ OwnershipInv /\ TablesCounted /\ [Next]_vars => TablesCounted'
  BY TablesCountedStep
<1> QED
  BY <1>1, <1>2, TypeCorrect, OwnershipInvariant, PTL DEF Spec

(***************************************************************************)
(* What the invariant says in the words of the properties.                 *)
(***************************************************************************)
LEMMA SlotsExplicit ==
  ASSUME TypeOK, OwnershipInv, PagesInv
  PROVE  SwapOwnership
<1>1. UserPtes \subseteq Addr
  <2>1. \A p \in Proc, d \in User : Has(p, d) => Tab(p, d) \in Pdpt
    BY DEF OwnershipInv, Tables
  <2> QED
    BY <2>1, PtesExplicit DEF Addr
<1>2. \A a \in Addr : ent[a].swap => a \in UserPtes
  <2> SUFFICES ASSUME NEW a \in Addr, ent[a].swap
               PROVE  a \in UserPtes
    OBVIOUS
  <2>1. PICK p \in Proc, d \in User : Has(p, d) /\ Tab(p, d) = a[1]
    BY DEF PagesInv, Slots
  <2>2. a[2] \in Idx /\ a = <<Tab(p, d), a[2]>>
    BY <2>1 DEF Addr
  <2> QED
    BY <2>1, <2>2, PtesExplicit
<1> QED
  BY <1>1, <1>2 DEF PagesInv, Slots, SwapOwnership

LEMMA PagesExplicit ==
  ASSUME TypeOK, OwnershipInv, PagesInv
  PROVE  BlocksMapped
<1> SUFFICES ASSUME NEW p \in Proc, alive[p]
             PROVE  /\ \A w \in Owned(p) :
                         ent[<<pdbr[p], w[1]>>].pres /\ ent[PteAddr(pdbr[p], w)].valid
                    /\ \A d \in User, i \in Idx : ent[<<pdbr[p], d>>].pres =>
                         LET e == ent[PteAddr(pdbr[p], <<d, i>>)]
                         IN  e.pres \/ e.swap => <<d, i>> \in Owned(p)
  BY DEF BlocksMapped, Live, User
<1>1. Heap
  BY DEF OwnershipInv
<1>2. \A d \in User, i \in Idx :
        /\ Has(p, d) <=> ent[<<pdbr[p], d>>].pres
        /\ PteAddr(pdbr[p], <<d, i>>) = <<Tab(p, d), i>>
        /\ Pte(p, d, i) = ent[<<Tab(p, d), i>>]
  BY DEF Has, Tab, Pde, Pte, PteAddr
<1>3. ASSUME NEW w \in Owned(p)
      PROVE  ent[<<pdbr[p], w[1]>>].pres /\ ent[PteAddr(pdbr[p], w)].valid
  <2>1. w \in Idx \X Idx
    <3>1. PICK b \in blocks[p] : w \in Run(NEnt * b[1][1] + b[1][2], b[2])
      BY DEF Owned
    <3>2. NEnt * b[1][1] + b[1][2] \in Nat /\ b[2] \in Nat
      BY BlockType DEF Linear
    <3> DEFINE k == NEnt * b[1][1] + b[1][2]
               n == b[2]
    <3> HIDE DEF k, n
    <3>3. k \in Nat /\ n \in Nat
      BY <3>2 DEF k, n
    <3>4. PICK j \in k .. k + n - 1 : w = VPage(j % Top)
      BY <3>1 DEF Run, k, n
    <3>5. Top \in Nat /\ Top > 0
      <4>1. NEnt \in Nat /\ NEnt > 0
        BY Regions
      <4> QED
        BY <4>1, SMT DEF Top
    <3>6. j % Top \in 0 .. Top - 1
      BY <3>3, <3>5
    <3> QED
      BY <3>4, <3>6, VPageType
  <2>2. w = <<w[1], w[2]>> /\ w[1] \in Idx /\ w[2] \in Idx
    BY <2>1
  <2>3. Allocated(p, <<w[1], w[2]>>)
    BY <1>1, <2>1, <2>2, OwnedAllocated
  <2>4. w[1] \in User /\ Has(p, w[1]) /\ Pte(p, w[1], w[2]).valid
    BY <2>2, <2>3 DEF PagesInv, Mapped
  <2> QED
    BY <1>2, <2>2, <2>4
<1>4. ASSUME NEW d \in User, NEW i \in Idx, ent[<<pdbr[p], d>>].pres,
             Pte(p, d, i).pres \/ Pte(p, d, i).swap
      PROVE  <<d, i>> \in Owned(p)
  <2>1. Allocated(p, <<d, i>>)
    BY <1>2, <1>4 DEF PagesInv, Mapped
  <2> QED
    BY <1>1, <2>1, OwnedAllocated, UserFacts
<1> QED
  BY <1>2, <1>3, <1>4

\* No slot of the swap region is leaked or shared when pages are evicted,
\* brought back, freed or left behind by a process that dies, for programs that
\* stay clear of the uses that break it: a slot in use holds one page.
THEOREM SwapOwned ==
  ASSUME Careful
  PROVE  Spec => []SwapOwnership
<1>1. TypeOK /\ OwnershipInv /\ PagesInv => SwapOwnership
  BY SlotsExplicit
<1>2. Disciplined
  BY DEF Careful, Disciplined
<1> QED
  BY <1>1, <1>2, TypeCorrect, OwnershipInvariant, PagesInvariant, PTL

\* The pages that vmalloc returned are those that the tables map, whatever was
\* evicted or freed in between: vfree takes the pages of the block it is given
\* and the handler serves no other.
THEOREM PagesMapped ==
  ASSUME Careful
  PROVE  Spec => []BlocksMapped
<1>1. TypeOK /\ OwnershipInv /\ PagesInv => BlocksMapped
  BY PagesExplicit
<1>2. Disciplined
  BY DEF Careful, Disciplined
<1> QED
  BY <1>1, <1>2, TypeCorrect, OwnershipInvariant, PagesInvariant, PTL

\* fss_used_size, swap_used_size and pdpt_used_size, by which the handler, vmalloc
\* and vcreate decide, count exactly the pages in use, and never wrap.
THEOREM CountersAreExact ==
  ASSUME Careful
  PROVE  Spec => []CountersExact
<1>1. TablesCounted => pdptUsed = Cardinality({t \in Pdpt : ~pdptAvail[t]}) - (NGold + 1)
         \/ ~(\A t \in Golden : ~pdptAvail[t])
  <2> SUFFICES ASSUME TablesCounted, \A t \in Golden : ~pdptAvail[t]
               PROVE  pdptUsed = Cardinality({t \in Pdpt : ~pdptAvail[t]}) - (NGold + 1)
    OBVIOUS
  <2> DEFINE all   == {t \in Pdpt : ~pdptAvail[t]}
             inUse == {t \in Pdpt \ Golden : ~pdptAvail[t]}
  <2>1. all = inUse \cup Golden /\ inUse \cap Golden = {}
    BY Regions
  <2>2. IsFiniteSet(inUse) /\ Cardinality(inUse) \in Nat
    BY Finite, FS_Subset, FS_CardinalityType
  <2>3. IsFiniteSet(Golden) /\ Cardinality(Golden) = NGold + 1 /\ NGold \in Nat
    <3>1. NGold + 1 \in Nat /\ NGold \in Nat
      BY PagingAssumption
    <3>2. IsFiniteSet(1 .. NGold + 1) /\ Cardinality(1 .. NGold + 1) = NGold + 1
      <4>1. /\ IsFiniteSet(1 .. NGold + 1)
            /\ Cardinality(1 .. NGold + 1) = IF 1 > NGold + 1 THEN 0 ELSE NGold + 1 - 1 + 1
        BY <3>1, FS_Interval
      <4> QED
        BY <3>1, <4>1
    <3> QED
      BY <3>1, <3>2 DEF Golden
  <2>4. pdptUsed = Cardinality(inUse)
    BY DEF TablesCounted
  <2> HIDE DEF all, inUse
  <2>5. Cardinality(inUse \cup Golden) =
          Cardinality(inUse) + Cardinality(Golden) - Cardinality(inUse \cap Golden)
    BY <2>2, <2>3, FS_Union
  <2>6. Cardinality(inUse \cap Golden) = 0
    BY <2>1, FS_EmptySet
  <2>7. pdptUsed = Cardinality(all) - (NGold + 1)
    BY <2>1, <2>2, <2>3, <2>4, <2>5, <2>6
  <2> QED
    BY <2>7 DEF all
<1>2. OwnershipInv /\ PagesInv /\ TablesCounted => CountersExact
  BY <1>1 DEF OwnershipInv, FramesCounted, Tables, PagesInv, SlotsCounted, CountersExact
<1>3. Disciplined
  BY DEF Careful, Disciplined
<1> QED
  BY <1>2, <1>3, OwnershipInvariant, PagesInvariant, TablesCountedInvariant, PTL

\* "at this point the pte entry must have been validated in vmalloc()"
\* (pagefault_handler.c:53): where vfree finds the pages of a block, the entry of
\* every fault the handler serves was validated.
THEOREM ServesValidatedPages ==
  ASSUME Careful
  PROVE  Spec => []FaultsOnValidated
<1>1. TypeOK /\ OwnershipInv /\ PagesInv => FaultsOnValidated
  <2> SUFFICES ASSUME TypeOK, OwnershipInv, PagesInv, NEW p \in Proc, Faulting(p)
               PROVE  ent[FaultPte(p)].valid
    BY DEF FaultsOnValidated
  <2>1. /\ cr2[1] \in User /\ cr2[2] \in Idx /\ Has(p, cr2[1])
        /\ FaultPte(p) = <<Tab(p, cr2[1]), cr2[2]>>
    BY FaultingEntry
  <2>2. cr2 = <<cr2[1], cr2[2]>>
    BY DEF TypeOK
  <2>3. Allocated(p, cr2) /\ alive[p]
    BY <2>1 DEF PagesInv, FaultAllocated, Faulting, Has
  <2>4. Allocated(p, <<cr2[1], cr2[2]>>)
    BY <2>2, <2>3
  <2>5. Pte(p, cr2[1], cr2[2]).valid
    BY <2>1, <2>3, <2>4, UserFacts DEF PagesInv, Mapped
  <2> QED
    BY <2>1, <2>5 DEF Pte
<1>2. Disciplined
  BY DEF Careful, Disciplined
<1> QED
  BY <1>1, <1>2, TypeCorrect, OwnershipInvariant, PagesInvariant, PTL

-------------------------------------------------------------------------------
(***************************************************************************)
(* Paging implements AddressSpace: for every number of processes, tables,  *)
(* frames, slots and entries and every size of block, a page of a block    *)
(* holds what its owner stored there last.                                 *)
(***************************************************************************)

Inv == TypeOK /\ OwnershipInv /\ PagesInv

\* What a page of a block holds, with the names of the invariant.
Held(p, w) ==
  LET e == Pte(p, w[1], w[2])
  IN  IF ~alive[p] \/ ~Allocated(p, w) THEN Unmapped
      ELSE IF e.pres \/ e.swap THEN data[e.base]
      ELSE Fresh

Mem == [p \in Proc |-> [w \in HeapPage |-> Contents(p, w)]]

Simulated == [Abstract!Next]_(Abstract!vars)

\* Differences of counters, modulo their range.
LEMMA Wrapped ==
  ASSUME NEW t \in Nat, t > 0, NEW x \in Int
  PROVE  /\ 0 <= x /\ x < t => x % t = x
         /\ -t <= x /\ x < 0 => x % t = x + t
<1>1. 0 <= x /\ x < t => x % t = x
  BY SMT
<1>2. ASSUME -t <= x, x < 0
      PROVE  x % t = x + t
  BY <1>2, SMT
<1> QED
  BY <1>1, <1>2

\* A page is in a block of the refinement mapping, which computes with v_add_counter's
\* wrap, just when it is in a block of the invariant, which does not.
LEMMA BlockPages ==
  ASSUME TypeOK, Heap, NEW p \in Proc, alive[p], NEW b \in blocks[p], NEW w \in Idx \X Idx
  PROVE  InBlock(w, b) <=> Linear(b[1]) <= Linear(w) /\ Linear(w) < Linear(b[1]) + b[2]
<1> DEFINE x == Linear(w)
           y == Linear(b[1])
           n == b[2]
<1>1. b[1] \in Idx \X Idx /\ y \in Nat /\ n \in Nat /\ n > 0
  BY BlockType
<1>2. x \in Nat /\ x < Top /\ Top \in Nat
  <2>1. w = <<w[1], w[2]>> /\ w[1] \in Idx /\ w[2] \in Idx
    OBVIOUS
  <2>2. NEnt \in Nat /\ NEnt > 0
    BY Regions
  <2>3. NEnt * w[1] + w[2] \in 0 .. NEnt * NEnt - 1
    BY <2>1, <2>2, DivMod DEF Idx
  <2>4. NEnt * NEnt \in Nat
    BY <2>2, SMT
  <2> QED
    BY <2>3, <2>4 DEF Linear, Top
<1>3. y + n < Top
  <2>1. Linear(b[1]) + b[2] <= vAdd[p] /\ vAdd[p] \in 0 .. Top - 1
    BY DEF Heap, Live, TypeOK
  <2> QED
    BY <1>1, <1>2, <2>1
<1>4. NEnt * (w[1] - b[1][1]) + w[2] - b[1][2] = x - y
  <2>1. /\ NEnt \in Nat /\ w[1] \in Nat /\ w[2] \in Nat /\ b[1][1] \in Nat /\ b[1][2] \in Nat
    BY <1>1, Regions
  <2>2. NEnt * (w[1] - b[1][1]) = NEnt * w[1] - NEnt * b[1][1] /\ NEnt * w[1] \in Nat /\ NEnt * b[1][1] \in Nat
    BY <2>1, SMT
  <2> QED
    BY <2>1, <2>2 DEF Linear
<1>5. InBlock(w, b) <=> (x - y) % Top < n
  BY <1>4 DEF InBlock
<1> HIDE DEF x, y, n
<1>6. CASE x >= y
  <2>1. (x - y) % Top = x - y
    BY <1>1, <1>2, <1>6, Wrapped
  <2> QED
    BY <1>1, <1>2, <1>5, <1>6, <2>1 DEF x, y, n
<1>7. CASE x < y
  <2>1. (x - y) % Top = x - y + Top
    BY <1>1, <1>2, <1>3, <1>7, Wrapped
  <2> QED
    BY <1>1, <1>2, <1>3, <1>5, <1>7, <2>1 DEF x, y, n
<1> QED
  BY <1>1, <1>2, <1>6, <1>7

LEMMA ContentsHeld == Inv => \A p \in Proc, w \in HeapPage : Contents(p, w) = Held(p, w)
<1> SUFFICES ASSUME Inv, NEW p \in Proc, NEW w \in HeapPage
             PROVE  Contents(p, w) = Held(p, w)
  OBVIOUS
<1>1. w \in Idx \X Idx
  BY DEF HeapPage
<1>2. alive[p] => (Allocated(p, w) <=> \E b \in blocks[p] : InBlock(w, b))
  BY <1>1, BlockPages DEF Inv, OwnershipInv, Allocated
<1>3. ent[PteAddr(pdbr[p], w)] = Pte(p, w[1], w[2])
  BY DEF PteAddr, Pte, Tab, Pde
<1> QED
  BY <1>2, <1>3 DEF Contents, Held

LEMMA MemHeld == Inv => Mem = [p \in Proc |-> [w \in HeapPage |-> Held(p, w)]]
  BY ContentsHeld DEF Mem

LEMMA MemHeldNext == Inv' => Mem' = [p \in Proc |-> [w \in HeapPage |-> Held(p, w)']]
<1>1. Inv => \A p \in Proc, w \in HeapPage : Contents(p, w) = Held(p, w)
  BY ContentsHeld
<1>2. (Inv => \A p \in Proc, w \in HeapPage : Contents(p, w) = Held(p, w))'
  BY <1>1, PTL
<1>3. Inv' => \A p \in Proc, w \in HeapPage : Contents(p, w)' = Held(p, w)'
  BY <1>2 DEF HeapPage
<1> QED
  BY <1>3 DEF Mem

(***************************************************************************)
(* Steps seen from AddressSpace.                                           *)
(***************************************************************************)

\* Nothing to see.
LEMMA Stutters ==
  ASSUME Inv, Inv', UNCHANGED alive, \A q \in Proc, w \in HeapPage : Held(q, w)' = Held(q, w)
  PROVE  Simulated
<1>1. Mem' = Mem
  BY MemHeld, MemHeldNext
<1>2. Live' = Live
  BY DEF Live
<1> QED
  BY <1>1, <1>2 DEF Simulated, Abstract!vars, Mem

\* Something to see of process p alone.
LEMMA Changes ==
  ASSUME Inv, Inv', NEW p \in Proc,
         \A q \in Proc, w \in HeapPage : q # p => Held(q, w)' = Held(q, w)
  PROVE  Mem' = [Mem EXCEPT ![p] = [w \in HeapPage |-> Held(p, w)']]
<1>1. /\ Mem = [q \in Proc |-> [w \in HeapPage |-> Held(q, w)]]
      /\ Mem' = [q \in Proc |-> [w \in HeapPage |-> Held(q, w)']]
  BY MemHeld, MemHeldNext
<1>2. \A q \in Proc : q # p => [w \in HeapPage |-> Held(q, w)'] = [w \in HeapPage |-> Held(q, w)]
  OBVIOUS
<1> DEFINE before == [q \in Proc |-> [w \in HeapPage |-> Held(q, w)]]
           after  == [q \in Proc |-> [w \in HeapPage |-> Held(q, w)']]
           own    == [w \in HeapPage |-> Held(p, w)']
<1>3. /\ \A q \in Proc : q # p => after[q] = before[q]
      /\ after[p] = own
  BY <1>2
<1>4. before = [q \in Proc |-> before[q]] /\ after = [q \in Proc |-> after[q]]
  OBVIOUS
<1> HIDE DEF before, after, own
<1>5. after = [before EXCEPT ![p] = own]
  BY <1>3, <1>4
<1> QED
  BY <1>1, <1>5 DEF before, after, own

\* A page that stays in its block holds what it held when its entry and what
\* the entry names are unchanged.
LEMMA HeldSame ==
  ASSUME NEW q \in Proc, NEW w, alive'[q] <=> alive[q], Allocated(q, w)' <=> Allocated(q, w),
         alive[q] /\ Allocated(q, w) =>
           LET e == Pte(q, w[1], w[2])
           IN  e' = e /\ (e.pres \/ e.swap => data'[e.base] = data[e.base])
  PROVE  Held(q, w)' = Held(q, w)
<1> DEFINE e == Pte(q, w[1], w[2])
<1>1. Held(q, w) = IF ~alive[q] \/ ~Allocated(q, w) THEN Unmapped
                   ELSE IF e.pres \/ e.swap THEN data[e.base] ELSE Fresh
  BY DEF Held
<1>2. Held(q, w)' = IF ~alive'[q] \/ ~Allocated(q, w)' THEN Unmapped
                    ELSE IF e'.pres \/ e'.swap THEN data'[e'.base] ELSE Fresh
  BY DEF Held
<1> HIDE DEF e
<1>3. alive[q] /\ Allocated(q, w) => e' = e /\ (e.pres \/ e.swap => data'[e.base] = data[e.base])
  BY DEF e
<1> QED
  BY <1>1, <1>2, <1>3

\* Where the pages of blocks are.
LEMMA PagePlaces ==
  ASSUME Inv
  PROVE  \A q \in Proc, w \in Idx \X Idx : alive[q] /\ Allocated(q, w) =>
           LET e == Pte(q, w[1], w[2])
           IN  /\ w[1] \in User /\ w[2] \in Idx /\ Has(q, w[1]) /\ w \in HeapPage
               /\ Tab(q, w[1]) \in Pdpt /\ <<Tab(q, w[1]), w[2]>> \in Addr
               /\ e.pres => e.base \in Fss /\ ~e.swap /\ ~fssAvail[e.base]
                            /\ fssPte[e.base] = <<Tab(q, w[1]), w[2]>>
               /\ e.swap => e.base \in Swap /\ ~e.pres /\ ~swapAvail[e.base]
<1> SUFFICES ASSUME NEW q \in Proc, NEW w \in Idx \X Idx, alive[q], Allocated(q, w)
             PROVE  LET e == Pte(q, w[1], w[2])
                    IN  /\ w[1] \in User /\ w[2] \in Idx /\ Has(q, w[1]) /\ w \in HeapPage
                        /\ Tab(q, w[1]) \in Pdpt /\ <<Tab(q, w[1]), w[2]>> \in Addr
                        /\ e.pres => e.base \in Fss /\ ~e.swap /\ ~fssAvail[e.base]
                                     /\ fssPte[e.base] = <<Tab(q, w[1]), w[2]>>
                        /\ e.swap => e.base \in Swap /\ ~e.pres /\ ~swapAvail[e.base]
  OBVIOUS
<1>1. w = <<w[1], w[2]>> /\ w[1] \in Idx /\ w[2] \in Idx
  OBVIOUS
<1>2. Allocated(q, <<w[1], w[2]>>)
  BY <1>1
<1>3. w[1] \in User /\ Has(q, w[1])
  BY <1>1, <1>2 DEF Inv, PagesInv, Mapped
<1>4. Tab(q, w[1]) \in Pdpt
  BY <1>3 DEF Inv, OwnershipInv, Tables
<1>5. <<Tab(q, w[1]), w[2]>> \in Addr /\ Pte(q, w[1], w[2]) = ent[<<Tab(q, w[1]), w[2]>>]
  BY <1>1, <1>4 DEF Addr, Pte
<1>6. w \in HeapPage
  <2>1. PICK b \in blocks[q] : Linear(b[1]) <= Linear(w) /\ Linear(w) < Linear(b[1]) + b[2]
    BY DEF Allocated
  <2>2. NEnt * HeapIdx <= Linear(b[1]) /\ Linear(b[1]) \in Nat
    BY BlockType DEF Inv, OwnershipInv, Heap, Live
  <2>3. /\ NEnt \in Nat /\ NEnt > 0 /\ HeapIdx \in Nat /\ w[1] \in Nat /\ w[2] \in 0 .. NEnt - 1
        /\ NEnt * HeapIdx \in Nat
    BY <1>1, Regions, LinearType, PagingAssumption DEF Idx
  <2>4. NEnt * HeapIdx <= NEnt * w[1] + w[2] /\ NEnt * w[1] + w[2] \in Nat
    BY <1>1, <2>1, <2>2, <2>3, LinearType DEF Linear
  <2>5. HeapIdx <= (NEnt * w[1] + w[2]) \div NEnt
    BY <2>3, <2>4, DivFacts
  <2>6. HeapIdx <= w[1]
    BY <1>1, <2>5, LinearInverse
  <2> QED
    BY <2>3, <2>6 DEF HeapPage
<1>7. Pte(q, w[1], w[2]).pres =>
        /\ Pte(q, w[1], w[2]).base \in Fss /\ ~Pte(q, w[1], w[2]).swap
        /\ ~fssAvail[Pte(q, w[1], w[2]).base]
        /\ fssPte[Pte(q, w[1], w[2]).base] = <<Tab(q, w[1]), w[2]>>
  BY <1>1, <1>3 DEF Inv, OwnershipInv, Frames
<1>8. Pte(q, w[1], w[2]).swap =>
        /\ Pte(q, w[1], w[2]).base \in Swap /\ ~Pte(q, w[1], w[2]).pres
        /\ ~swapAvail[Pte(q, w[1], w[2]).base]
  BY <1>5 DEF Inv, PagesInv, Slots
<1> QED
  BY <1>1, <1>3, <1>4, <1>5, <1>6, <1>7, <1>8

\* No two pages are in one place.
LEMMA OnePlace ==
  ASSUME Inv, NEW q \in Proc, NEW r \in Proc, NEW w \in Idx \X Idx, NEW v \in Idx \X Idx,
         alive[q], alive[r], Allocated(q, w), Allocated(r, v), q # r \/ w # v
  PROVE  LET e == Pte(q, w[1], w[2])
             g == Pte(r, v[1], v[2])
         IN  /\ <<Tab(q, w[1]), w[2]>> # <<Tab(r, v[1]), v[2]>>
             /\ (e.pres \/ e.swap) /\ (g.pres \/ g.swap) => e.base # g.base
<1> DEFINE e == Pte(q, w[1], w[2])
           g == Pte(r, v[1], v[2])
           a == <<Tab(q, w[1]), w[2]>>
           c == <<Tab(r, v[1]), v[2]>>
<1>1. /\ w[1] \in User /\ Has(q, w[1]) /\ a \in Addr /\ e = ent[a]
      /\ e.pres => e.base \in Fss /\ fssPte[e.base] = a
      /\ e.swap => e.base \in Swap
  BY PagePlaces DEF Pte
<1>2. /\ v[1] \in User /\ Has(r, v[1]) /\ c \in Addr /\ g = ent[c]
      /\ g.pres => g.base \in Fss /\ fssPte[g.base] = c
      /\ g.swap => g.base \in Swap
  BY PagePlaces DEF Pte
<1>3. a # c
  <2>1. w = <<w[1], w[2]>> /\ v = <<v[1], v[2]>>
    OBVIOUS
  <2> QED
    BY <1>1, <1>2, <2>1 DEF Inv, OwnershipInv, Tables
<1> HIDE DEF a, c, e, g
<1>4. e.swap /\ g.swap => e.base # g.base
  BY <1>1, <1>2, <1>3 DEF Inv, PagesInv, Slots
<1>5. e.pres /\ g.pres => e.base # g.base
  BY <1>1, <1>2, <1>3
<1>6. (e.pres \/ e.swap) /\ (g.pres \/ g.swap) => e.base # g.base
  BY <1>1, <1>2, <1>4, <1>5, Regions
<1> QED
  BY <1>3, <1>6 DEF a, c, e, g

\* A page of a block holds a datum once it was touched, nothing in particular
\* before.
LEMMA HeldData ==
  ASSUME Inv, NEW q \in Proc, NEW w \in Idx \X Idx, alive[q], Allocated(q, w)
  PROVE  /\ Held(q, w) \in Data \cup {Fresh} /\ Held(q, w) # Unmapped
         /\ Pte(q, w[1], w[2]).pres \/ Pte(q, w[1], w[2]).swap =>
              Held(q, w) = data[Pte(q, w[1], w[2]).base] /\ Held(q, w) \in Data
<1> DEFINE e == Pte(q, w[1], w[2])
<1>1. (e.pres => e.base \in Fss) /\ (e.swap => e.base \in Swap)
  BY PagePlaces
<1>2. Held(q, w) = IF e.pres \/ e.swap THEN data[e.base] ELSE Fresh
  BY DEF Held
<1> HIDE DEF e
<1>3. e.pres \/ e.swap => data[e.base] \in Data
  BY <1>1 DEF Inv, TypeOK
<1> QED
  BY <1>2, <1>3, RefinementAssumption DEF e

(***************************************************************************)
(* The actions of AddressSpace, in terms of what pages hold.               *)
(***************************************************************************)

\* The actions, with the refinement mapping put in.
LEMMA MapAction ==
  ASSUME NEW p \in Proc, NEW S
  PROVE  Abstract!Map(p, S) <=>
           /\ p \in Live /\ \A v \in S : Mem[p][v] = Unmapped
           /\ Mem' = [Mem EXCEPT ![p] = [v \in HeapPage |-> IF v \in S THEN Fresh ELSE Mem[p][v]]]
           /\ Live' = Live
  BY DEF Mem, Abstract!Map

LEMMA UnmapAction ==
  ASSUME NEW p \in Proc, NEW S
  PROVE  Abstract!Unmap(p, S) <=>
           /\ p \in Live /\ \A v \in S : Mem[p][v] # Unmapped
           /\ Mem' = [Mem EXCEPT ![p] = [v \in HeapPage |-> IF v \in S THEN Unmapped ELSE Mem[p][v]]]
           /\ Live' = Live
  BY DEF Mem, Abstract!Unmap

LEMMA MaterialiseAction ==
  ASSUME NEW p \in Proc, NEW w, NEW d
  PROVE  Abstract!Materialise(p, w, d) <=>
           /\ p \in Live /\ Mem[p][w] = Fresh
           /\ Mem' = [Mem EXCEPT ![p] = [Mem[p] EXCEPT ![w] = d]] /\ Live' = Live
  BY DEF Mem, Abstract!Materialise

LEMMA StoreAction ==
  ASSUME NEW p \in Proc, NEW w, NEW d
  PROVE  Abstract!Store(p, w, d) <=>
           /\ p \in Live /\ Mem[p][w] \in Data
           /\ Mem' = [Mem EXCEPT ![p] = [Mem[p] EXCEPT ![w] = d]] /\ Live' = Live
  BY DEF Mem, Abstract!Store

LEMMA LifeActions ==
  ASSUME NEW p \in Proc
  PROVE  /\ Abstract!Create(p) <=>
              /\ p \notin Live /\ Live' = Live \cup {p}
              /\ Mem' = [Mem EXCEPT ![p] = [v \in HeapPage |-> Unmapped]]
         /\ Abstract!Destroy(p) <=>
              /\ p \in Live /\ Live' = Live \ {p}
              /\ Mem' = [Mem EXCEPT ![p] = [v \in HeapPage |-> Unmapped]]
  BY DEF Mem, Abstract!Create, Abstract!Destroy, Abstract!Empty

\* Pages S of p change from one kind to another.
LEMMA SeenMap ==
  ASSUME Inv, Inv', NEW p \in Proc, alive[p], UNCHANGED alive, NEW S \in SUBSET HeapPage,
         NEW x, x \in {Fresh, Unmapped},
         \A q \in Proc, w \in HeapPage : q # p \/ w \notin S => Held(q, w)' = Held(q, w),
         \A w \in S : Held(p, w)' = x /\ (x = Fresh <=> Held(p, w) = Unmapped)
  PROVE  Simulated
<1>1. Mem' = [Mem EXCEPT ![p] = [w \in HeapPage |-> Held(p, w)']]
  BY Changes
<1>2. Mem[p] = [w \in HeapPage |-> Held(p, w)]
  BY MemHeld
<1>3. [w \in HeapPage |-> Held(p, w)'] = [w \in HeapPage |-> IF w \in S THEN x ELSE Mem[p][w]]
  BY <1>2
<1>4. Mem' = [Mem EXCEPT ![p] = [w \in HeapPage |-> IF w \in S THEN x ELSE Mem[p][w]]]
  BY <1>1, <1>3
<1>5. p \in Live /\ Live' = Live
  BY DEF Live
<1>6. CASE x = Fresh
  <2>1. \A w \in S : Mem[p][w] = Unmapped
    BY <1>2, <1>6
  <2>2. Abstract!Map(p, S)
    BY <1>4, <1>5, <1>6, <2>1, MapAction
  <2> QED
    BY <2>2 DEF Simulated, Abstract!Next
<1>7. CASE x = Unmapped
  <2>1. \A w \in S : Mem[p][w] # Unmapped
    BY <1>2, <1>7, RefinementAssumption
  <2>2. Abstract!Unmap(p, S)
    BY <1>4, <1>5, <1>7, <2>1, UnmapAction
  <2> QED
    BY <2>2 DEF Simulated, Abstract!Next
<1> QED
  BY <1>6, <1>7

\* Page w of p, which was not touched or holds a datum, holds datum d.
LEMMA SeenStore ==
  ASSUME Inv, Inv', NEW p \in Proc, alive[p], UNCHANGED alive, NEW w \in HeapPage, NEW d \in Data,
         Held(p, w) \in Data \cup {Fresh}, Held(p, w)' = d,
         \A q \in Proc, v \in HeapPage : q # p \/ v # w => Held(q, v)' = Held(q, v)
  PROVE  Simulated
<1>1. Mem' = [Mem EXCEPT ![p] = [v \in HeapPage |-> Held(p, v)']]
  BY Changes
<1>2. Mem[p] = [v \in HeapPage |-> Held(p, v)]
  BY MemHeld
<1>3. [v \in HeapPage |-> Held(p, v)'] = [Mem[p] EXCEPT ![w] = d]
  <2> DEFINE own == Mem[p]
             new == [v \in HeapPage |-> Held(p, v)']
  <2>1. own = [v \in HeapPage |-> own[v]] /\ \A v \in HeapPage : v # w => own[v] = Held(p, v)
    BY <1>2
  <2>2. new = [v \in HeapPage |-> new[v]] /\ new[w] = d /\ \A v \in HeapPage : v # w => new[v] = own[v]
    BY <2>1
  <2> HIDE DEF own, new
  <2>3. new = [own EXCEPT ![w] = d]
    BY <2>1, <2>2
  <2> QED
    BY <2>3 DEF own, new
<1>4. Mem' = [Mem EXCEPT ![p] = [Mem[p] EXCEPT ![w] = d]]
  BY <1>1, <1>3
<1>5. p \in Live /\ Live' = Live
  BY DEF Live
<1>6. Abstract!Materialise(p, w, d) \/ Abstract!Store(p, w, d)
  <2>1. Mem[p][w] = Held(p, w)
    BY <1>2
  <2>2. CASE Held(p, w) = Fresh
    BY <1>4, <1>5, <2>1, <2>2, MaterialiseAction
  <2>3. CASE Held(p, w) \in Data
    BY <1>4, <1>5, <2>1, <2>3, StoreAction
  <2> QED
    BY <2>2, <2>3
<1> QED
  BY <1>6 DEF Simulated, Abstract!Next

\* Process p comes to be or ends; either way it has no pages afterwards.
LEMMA SeenLife ==
  ASSUME Inv, Inv', NEW p \in Proc, \A q \in Proc : q # p => (alive'[q] <=> alive[q]),
         alive[p] <=> ~alive'[p], \A w \in HeapPage : Held(p, w)' = Unmapped,
         \A q \in Proc, w \in HeapPage : q # p => Held(q, w)' = Held(q, w)
  PROVE  Simulated
<1>1. Mem' = [Mem EXCEPT ![p] = [w \in HeapPage |-> Unmapped]]
  <2>1. [w \in HeapPage |-> Held(p, w)'] = [w \in HeapPage |-> Unmapped]
    OBVIOUS
  <2>2. Mem' = [Mem EXCEPT ![p] = [w \in HeapPage |-> Held(p, w)']]
    BY Changes
  <2> QED
    BY <2>1, <2>2
<1>2. CASE alive[p]
  <2>1. p \in Live /\ Live' = Live \ {p}
    BY <1>2 DEF Live
  <2>2. Abstract!Destroy(p)
    BY <1>1, <2>1, LifeActions
  <2> QED
    BY <2>2 DEF Simulated, Abstract!Next
<1>3. CASE ~alive[p]
  <2>1. p \notin Live /\ Live' = Live \cup {p}
    BY <1>3 DEF Live
  <2>2. Abstract!Create(p)
    BY <1>1, <2>1, LifeActions
  <2> QED
    BY <2>2 DEF Simulated, Abstract!Next
<1> QED
  BY <1>2, <1>3

(***************************************************************************)
(* The handler.                                                            *)
(***************************************************************************)

\* What the handler writes leaves directories and blocks alone.
LEMMA ServedTables ==
  ASSUME Inv, NEW p \in Proc, NEW a, NEW b, Faulting(p), a = FaultPte(p),
         UNCHANGED <<pdptAvail, alive, pdbr, blocks>>,
         \A x \in Addr : x # a /\ x # b => ent'[x] = ent[x],
         b = a \/ \E q \in Proc, d \in User : Has(q, d) /\ Tab(q, d) = b[1]
  PROVE  \A q \in Proc, w \in Idx \X Idx : alive[q] /\ Allocated(q, w) =>
           /\ Allocated(q, w)' /\ Tab(q, w[1])' = Tab(q, w[1])
           /\ Pte(q, w[1], w[2])' = ent'[<<Tab(q, w[1]), w[2]>>]
<1>1. Has(p, cr2[1]) /\ cr2[1] \in User /\ a[1] = Tab(p, cr2[1])
  BY FaultingEntry DEF Inv
<1>2. \A t \in Pdpt, i \in Idx : ent'[<<t, i>>] # ent[<<t, i>>] =>
        \E q \in Proc, d \in User : Has(q, d) /\ t = Tab(q, d)
  <2> SUFFICES ASSUME NEW t \in Pdpt, NEW i \in Idx, ent'[<<t, i>>] # ent[<<t, i>>]
               PROVE  \E q \in Proc, d \in User : Has(q, d) /\ t = Tab(q, d)
    OBVIOUS
  <2>1. <<t, i>> = a \/ <<t, i>> = b
    BY DEF Addr
  <2>2. t = a[1] \/ t = b[1]
    BY <2>1
  <2> QED
    BY <1>1, <2>1, <2>2
<1>3. \A q \in Proc, d \in Idx : alive[q] => Pde(q, d)' = Pde(q, d)
  BY <1>2, WritesInTables DEF Inv, OwnershipInv
<1> SUFFICES ASSUME NEW q \in Proc, NEW w \in Idx \X Idx, alive[q], Allocated(q, w)
             PROVE  /\ Allocated(q, w)' /\ Tab(q, w[1])' = Tab(q, w[1])
                    /\ Pte(q, w[1], w[2])' = ent'[<<Tab(q, w[1]), w[2]>>]
  OBVIOUS
<1>4. Tab(q, w[1])' = Tab(q, w[1])
  BY <1>3 DEF Tab
<1>5. Allocated(q, w)'
  BY DEF Allocated, Linear
<1> QED
  BY <1>4, <1>5 DEF Pte

\* The page whose fault is served.
LEMMA ServedPage ==
  ASSUME Inv, NEW p \in Proc, Faulting(p)
  PROVE  /\ cr2 \in Idx \X Idx /\ cr2 \in HeapPage /\ alive[p] /\ Allocated(p, cr2)
         /\ FaultPte(p) = <<Tab(p, cr2[1]), cr2[2]>> /\ FaultPte(p) \in Addr
         /\ Pte(p, cr2[1], cr2[2]) = ent[FaultPte(p)] /\ ~ent[FaultPte(p)].pres
         /\ Held(p, cr2) \in Data \cup {Fresh}
<1>1. cr2 \in Idx \X Idx
  BY DEF Inv, TypeOK
<1>2. /\ cr2[1] \in User /\ cr2[2] \in Idx /\ Has(p, cr2[1])
      /\ FaultPte(p) = <<Tab(p, cr2[1]), cr2[2]>> /\ Tab(p, cr2[1]) \in Pdpt
      /\ ~Pte(p, cr2[1], cr2[2]).pres
  BY FaultingEntry DEF Inv
<1>3. alive[p] /\ Allocated(p, cr2)
  BY <1>2 DEF Has, Faulting, Pde, Inv, PagesInv, FaultAllocated
<1>4. cr2 \in HeapPage
  BY <1>1, <1>3, PagePlaces
<1>5. Held(p, cr2) \in Data \cup {Fresh}
  BY <1>1, <1>3, HeldData
<1> QED
  BY <1>1, <1>2, <1>3, <1>4, <1>5 DEF Pte, Addr

\* A page other than the one served: its entry is another, and it names another
\* place.
LEMMA OtherPage ==
  ASSUME Inv, NEW p \in Proc, Faulting(p), NEW q \in Proc, NEW w \in Idx \X Idx,
         alive[q], Allocated(q, w), q # p \/ w # cr2
  PROVE  LET c == <<Tab(q, w[1]), w[2]>>
             e == ent[c]
             g == ent[FaultPte(p)]
         IN  /\ c \in Addr /\ c # FaultPte(p) /\ e = Pte(q, w[1], w[2])
             /\ e.pres => e.base \in Fss /\ ~e.swap /\ ~fssAvail[e.base] /\ fssPte[e.base] = c
             /\ e.swap => e.base \in Swap /\ ~e.pres /\ ~swapAvail[e.base]
             /\ e.swap /\ g.swap => e.base # g.base
<1>1. /\ cr2 \in Idx \X Idx /\ alive[p] /\ Allocated(p, cr2)
      /\ FaultPte(p) = <<Tab(p, cr2[1]), cr2[2]>>
      /\ Pte(p, cr2[1], cr2[2]) = ent[FaultPte(p)]
  BY ServedPage
<1> DEFINE c == <<Tab(q, w[1]), w[2]>>
<1>2. Pte(q, w[1], w[2]) = ent[c]
  BY DEF Pte
<1>3. /\ c \in Addr
      /\ ent[c].pres => /\ ent[c].base \in Fss /\ ~ent[c].swap /\ ~fssAvail[ent[c].base]
                        /\ fssPte[ent[c].base] = c
      /\ ent[c].swap => ent[c].base \in Swap /\ ~ent[c].pres /\ ~swapAvail[ent[c].base]
  BY <1>2, PagePlaces
<1>4. /\ c # <<Tab(p, cr2[1]), cr2[2]>>
      /\ ent[c].swap /\ ent[FaultPte(p)].swap => ent[c].base # ent[FaultPte(p)].base
  <2> PICK v \in Idx \X Idx : v = cr2
    BY <1>1
  <2>1. Allocated(p, v) /\ (q # p \/ w # v)
    BY <1>1
  <2>2. /\ c # <<Tab(p, v[1]), v[2]>>
        /\ Pte(q, w[1], w[2]).swap /\ Pte(p, v[1], v[2]).swap =>
             Pte(q, w[1], w[2]).base # Pte(p, v[1], v[2]).base
    BY <1>1, <2>1, OnePlace
  <2> QED
    BY <1>1, <1>2, <2>2
<1> QED
  BY <1>1, <1>2, <1>3, <1>4

LEMMA FirstTouchSeen ==
  ASSUME Inv, Inv', NEW p \in Proc, NEW f \in Fss, FirstTouch(p, f)
  PROVE  Simulated
<1> DEFINE a == FaultPte(p)
<1>1. /\ Faulting(p) /\ Install(p, ent, a, f)
      /\ UNCHANGED <<pdptAvail, alive, pdbr, blocks, data>>
  BY DEF FirstTouch, Install, heapVars, procVars
<1>2. Filled(a, f)
  BY <1>1, InstallWrites DEF Inv
<1>3. ent'[a].pres /\ ent'[a].base = f /\ \A x \in Addr : x # a => ent'[x] = ent[x]
  BY <1>2 DEF Filled
<1>4. \A q \in Proc, w \in Idx \X Idx : alive[q] /\ Allocated(q, w) =>
        Allocated(q, w)' /\ Pte(q, w[1], w[2])' = ent'[<<Tab(q, w[1]), w[2]>>]
  BY <1>1, <1>3, ServedTables
<1> PICK v \in Idx \X Idx : v = cr2
  BY ServedPage, <1>1
<1>5. v \in HeapPage /\ alive[p] /\ Allocated(p, v) /\ Held(p, v) \in Data \cup {Fresh}
  BY <1>1, ServedPage
<1>6. a = <<Tab(p, v[1]), v[2]>>
  BY <1>1, ServedPage
<1>7. \A q \in Proc, w \in HeapPage : q # p \/ w # v => Held(q, w)' = Held(q, w)
  <2> SUFFICES ASSUME NEW q \in Proc, NEW w \in HeapPage, q # p \/ w # v
               PROVE  Held(q, w)' = Held(q, w)
    OBVIOUS
  <2>1. w \in Idx \X Idx
    BY DEF HeapPage
  <2>2. Allocated(q, w)' <=> Allocated(q, w)
    BY <1>1 DEF Allocated, Linear
  <2>3. ASSUME alive[q], Allocated(q, w)
        PROVE  Pte(q, w[1], w[2])' = Pte(q, w[1], w[2])
    <3> DEFINE c == <<Tab(q, w[1]), w[2]>>
    <3>1. c \in Addr /\ c # a /\ ent[c] = Pte(q, w[1], w[2])
      BY <1>1, <2>1, <2>3, OtherPage
    <3>2. Pte(q, w[1], w[2])' = ent'[c]
      BY <1>4, <2>1, <2>3
    <3> QED
      BY <1>3, <3>1, <3>2
  <2> QED
    BY <1>1, <2>2, <2>3, HeldSame
<1>8. Held(p, v)' = data[f]
  <2>1. alive'[p] /\ Allocated(p, v)' /\ Pte(p, v[1], v[2])' = ent'[a]
    BY <1>1, <1>4, <1>5, <1>6
  <2> QED
    BY <1>1, <1>3, <2>1 DEF Held
<1>9. data[f] \in Data
  BY DEF Inv, TypeOK
<1> QED
  BY <1>1, <1>5, <1>7, <1>8, <1>9, SeenStore

LEMMA FirstTouchEvictSeen ==
  ASSUME Inv, Inv', NEW p \in Proc, NEW f \in Fss, NEW s \in Swap, FirstTouchEvict(p, f, s)
  PROVE  Simulated
<1> DEFINE a == FaultPte(p)
           b == fssPte[f]
<1>1. /\ Faulting(p) /\ FssFull /\ Install(p, SwappedOut(f, s), a, f)
      /\ UNCHANGED <<pdptAvail, alive, pdbr, blocks>>
      /\ data' = [data EXCEPT ![s] = data[f]] /\ swapAvail[s]
  BY DEF FirstTouchEvict, Install, heapVars, procVars, IsFirst
<1>2. Moved(a, f, b, s)
  BY <1>1, InstallWrites DEF Inv
<1>3. /\ ent'[a].pres /\ ent'[a].base = f
      /\ ~ent'[b].pres /\ ent'[b].swap /\ ent'[b].base = s
      /\ ent[b].pres /\ ent[b].base = f
      /\ \A x \in Addr : x # a /\ x # b => ent'[x] = ent[x]
  BY <1>2 DEF Moved
<1>4. \A q \in Proc, w \in Idx \X Idx : alive[q] /\ Allocated(q, w) =>
        Allocated(q, w)' /\ Pte(q, w[1], w[2])' = ent'[<<Tab(q, w[1]), w[2]>>]
  <2>1. \E q \in Proc, d \in User : Has(q, d) /\ Tab(q, d) = b[1]
    BY <1>2 DEF Moved
  <2> HIDE DEF b
  <2> QED
    BY <1>1, <1>3, <2>1, ServedTables
<1> PICK v \in Idx \X Idx : v = cr2
  BY ServedPage, <1>1
<1>5. v \in HeapPage /\ alive[p] /\ Allocated(p, v) /\ Held(p, v) \in Data \cup {Fresh}
  BY <1>1, ServedPage
<1>6. a = <<Tab(p, v[1]), v[2]>>
  BY <1>1, ServedPage
<1>d. data'[s] = data[f] /\ \A x \in Fss \cup Swap : x # s => data'[x] = data[x]
  BY <1>1 DEF Inv, TypeOK
<1> HIDE DEF a, b
<1>7. \A q \in Proc, w \in HeapPage : q # p \/ w # v => Held(q, w)' = Held(q, w)
  <2> SUFFICES ASSUME NEW q \in Proc, NEW w \in HeapPage, q # p \/ w # v
               PROVE  Held(q, w)' = Held(q, w)
    OBVIOUS
  <2>1. w \in Idx \X Idx
    BY DEF HeapPage
  <2>2. Allocated(q, w)' <=> Allocated(q, w)
    BY <1>1 DEF Allocated, Linear
  <2> DEFINE c == <<Tab(q, w[1]), w[2]>>
  <2>3. ASSUME alive[q], Allocated(q, w)
        PROVE  /\ c \in Addr /\ c # a /\ ent[c] = Pte(q, w[1], w[2])
               /\ ent[c].pres => ent[c].base \in Fss /\ ~ent[c].swap
               /\ ent[c].swap => ent[c].base \in Swap /\ ~ent[c].pres /\ ~swapAvail[ent[c].base]
    BY <1>1, <2>1, <2>3, OtherPage DEF a
  <2>4. ASSUME alive[q], Allocated(q, w)
        PROVE  Pte(q, w[1], w[2])' = ent'[c]
    BY <1>4, <2>1, <2>4
  <2> HIDE DEF c
  <2>5. CASE ~alive[q] \/ ~Allocated(q, w)
    BY <1>1, <2>2, <2>5 DEF Held
  <2>6. CASE alive[q] /\ Allocated(q, w) /\ c = b
    <3>1. Held(q, w) = data[f]
      BY <1>3, <2>3, <2>6 DEF Held
    <3>2. Held(q, w)' = data'[s]
      BY <1>1, <1>3, <2>2, <2>4, <2>6 DEF Held
    <3> QED
      BY <1>d, <3>1, <3>2
  <2>7. CASE alive[q] /\ Allocated(q, w) /\ c # b
    <3>1. ent'[c] = ent[c]
      BY <1>3, <2>3, <2>7
    <3>2. ent[c].pres \/ ent[c].swap => data'[ent[c].base] = data[ent[c].base]
      BY <1>1, <1>d, <2>3, <2>7, Regions
    <3>3. Pte(q, w[1], w[2])' = Pte(q, w[1], w[2])
      BY <2>3, <2>4, <2>7, <3>1
    <3> QED
      BY <1>1, <2>2, <2>3, <2>7, <3>2, <3>3, HeldSame
  <2> QED
    BY <2>5, <2>6, <2>7
<1>8. Held(p, v)' = data[f]
  <2>1. alive'[p] /\ Allocated(p, v)' /\ Pte(p, v[1], v[2])' = ent'[a]
    BY <1>1, <1>4, <1>5, <1>6
  <2>2. f # s
    BY Regions
  <2> QED
    BY <1>3, <1>d, <2>1, <2>2 DEF Held
<1>9. data[f] \in Data
  BY DEF Inv, TypeOK
<1> QED
  BY <1>1, <1>5, <1>7, <1>8, <1>9, SeenStore

LEMMA SwapInSeen ==
  ASSUME Inv, Inv', NEW p \in Proc, NEW f \in Fss, SwapIn(p, f)
  PROVE  Simulated
<1> DEFINE a == FaultPte(p)
           s == ent[a].base
<1>1. /\ Faulting(p) /\ Install(p, ent, a, f) /\ ent[a].swap /\ s \in Swap
      /\ UNCHANGED <<pdptAvail, alive, pdbr, blocks>>
      /\ data' = [data EXCEPT ![f] = data[s]] /\ fssAvail[f]
  BY DEF SwapIn, Install, heapVars, procVars, TakeFrame, IsFirst
<1>2. Filled(a, f)
  BY <1>1, InstallWrites DEF Inv
<1>3. ent'[a].pres /\ ent'[a].base = f /\ \A x \in Addr : x # a => ent'[x] = ent[x]
  BY <1>2 DEF Filled
<1>4. \A q \in Proc, w \in Idx \X Idx : alive[q] /\ Allocated(q, w) =>
        Allocated(q, w)' /\ Pte(q, w[1], w[2])' = ent'[<<Tab(q, w[1]), w[2]>>]
  BY <1>1, <1>3, ServedTables
<1> PICK v \in Idx \X Idx : v = cr2
  BY ServedPage, <1>1
<1>5. v \in HeapPage /\ alive[p] /\ Allocated(p, v)
  BY <1>1, ServedPage
<1>6. a = <<Tab(p, v[1]), v[2]>> /\ ent[a] = Pte(p, v[1], v[2])
  BY <1>1, ServedPage
<1>d. data'[f] = data[s] /\ \A x \in Fss \cup Swap : x # f => data'[x] = data[x]
  BY <1>1 DEF Inv, TypeOK
<1> HIDE DEF a, s
<1>7. \A q \in Proc, w \in HeapPage : q # p \/ w # v => Held(q, w)' = Held(q, w)
  <2> SUFFICES ASSUME NEW q \in Proc, NEW w \in HeapPage, q # p \/ w # v
               PROVE  Held(q, w)' = Held(q, w)
    OBVIOUS
  <2>1. w \in Idx \X Idx
    BY DEF HeapPage
  <2>2. Allocated(q, w)' <=> Allocated(q, w)
    BY <1>1 DEF Allocated, Linear
  <2>3. ASSUME alive[q], Allocated(q, w)
        PROVE  LET e == Pte(q, w[1], w[2])
               IN  e' = e /\ (e.pres \/ e.swap => data'[e.base] = data[e.base])
    <3> DEFINE c == <<Tab(q, w[1]), w[2]>>
    <3>1. /\ c \in Addr /\ c # a /\ ent[c] = Pte(q, w[1], w[2])
          /\ ent[c].pres => ent[c].base \in Fss /\ ~fssAvail[ent[c].base]
          /\ ent[c].swap => ent[c].base \in Swap
      BY <1>1, <2>1, <2>3, OtherPage DEF a
    <3>2. Pte(q, w[1], w[2])' = ent'[c]
      BY <1>4, <2>1, <2>3
    <3> HIDE DEF c
    <3>3. ent'[c] = ent[c]
      BY <1>3, <3>1
    <3>4. ent[c].pres \/ ent[c].swap => data'[ent[c].base] = data[ent[c].base]
      BY <1>1, <1>d, <3>1, Regions
    <3> QED
      BY <3>1, <3>2, <3>3, <3>4
  <2> QED
    BY <1>1, <2>2, <2>3, HeldSame
<1>8. Held(p, v)' = Held(p, v)
  <2>1. alive'[p] /\ Allocated(p, v)' /\ Pte(p, v[1], v[2])' = ent'[a]
    BY <1>1, <1>4, <1>5, <1>6
  <2>2. Held(p, v)' = data'[f]
    BY <1>3, <2>1 DEF Held
  <2>3. Held(p, v) = data[s]
    BY <1>1, <1>5, <1>6 DEF Held, s
  <2> QED
    BY <1>d, <2>2, <2>3
<1> QED
  BY <1>1, <1>7, <1>8, Stutters

LEMMA SwapInEvictSeen ==
  ASSUME Inv, Inv', NEW p \in Proc, NEW f \in Fss, SwapInEvict(p, f)
  PROVE  Simulated
<1> DEFINE a == FaultPte(p)
           b == fssPte[f]
           s == ent[a].base
<1>1. /\ Faulting(p) /\ FssFull /\ Install(p, SwappedOut(f, s), a, f) /\ ent[a].swap /\ s \in Swap
      /\ UNCHANGED <<pdptAvail, alive, pdbr, blocks>>
      /\ data' = [data EXCEPT ![f] = data[s], ![s] = data[f]]
  BY DEF SwapInEvict, Install, heapVars, procVars
<1>2. Moved(a, f, b, s)
  BY <1>1, InstallWrites DEF Inv
<1>3. /\ ent'[a].pres /\ ent'[a].base = f
      /\ ~ent'[b].pres /\ ent'[b].swap /\ ent'[b].base = s
      /\ ent[b].pres /\ ent[b].base = f
      /\ \A x \in Addr : x # a /\ x # b => ent'[x] = ent[x]
  BY <1>2 DEF Moved
<1>4. \A q \in Proc, w \in Idx \X Idx : alive[q] /\ Allocated(q, w) =>
        Allocated(q, w)' /\ Pte(q, w[1], w[2])' = ent'[<<Tab(q, w[1]), w[2]>>]
  <2>1. \E q \in Proc, d \in User : Has(q, d) /\ Tab(q, d) = b[1]
    BY <1>2 DEF Moved
  <2> HIDE DEF b
  <2> QED
    BY <1>1, <1>3, <2>1, ServedTables
<1> PICK v \in Idx \X Idx : v = cr2
  BY ServedPage, <1>1
<1>5. v \in HeapPage /\ alive[p] /\ Allocated(p, v)
  BY <1>1, ServedPage
<1>6. a = <<Tab(p, v[1]), v[2]>> /\ ent[a] = Pte(p, v[1], v[2])
  BY <1>1, ServedPage
<1>d. /\ data'[f] = data[s] /\ data'[s] = data[f]
      /\ \A x \in Fss \cup Swap : x # f /\ x # s => data'[x] = data[x]
  <2> HIDE DEF s
  <2>1. f # s /\ f \in Fss \cup Swap /\ s \in Fss \cup Swap
    BY <1>1, Regions
  <2>2. data \in [Fss \cup Swap -> Data]
    BY DEF Inv, TypeOK
  <2> QED
    BY <1>1, <2>1, <2>2
<1> HIDE DEF a, b, s
<1>7. \A q \in Proc, w \in HeapPage : q # p \/ w # v => Held(q, w)' = Held(q, w)
  <2> SUFFICES ASSUME NEW q \in Proc, NEW w \in HeapPage, q # p \/ w # v
               PROVE  Held(q, w)' = Held(q, w)
    OBVIOUS
  <2>1. w \in Idx \X Idx
    BY DEF HeapPage
  <2>2. Allocated(q, w)' <=> Allocated(q, w)
    BY <1>1 DEF Allocated, Linear
  <2> DEFINE c == <<Tab(q, w[1]), w[2]>>
  <2>3. ASSUME alive[q], Allocated(q, w)
        PROVE  /\ c \in Addr /\ c # a /\ ent[c] = Pte(q, w[1], w[2])
               /\ ent[c].pres => ent[c].base \in Fss /\ (ent[c].base = f => c = b)
               /\ ent[c].swap => ent[c].base \in Swap /\ ent[c].base # s
    BY <1>1, <2>1, <2>3, OtherPage DEF a, b, s
  <2>4. ASSUME alive[q], Allocated(q, w)
        PROVE  Pte(q, w[1], w[2])' = ent'[c]
    BY <1>4, <2>1, <2>4
  <2> HIDE DEF c
  <2>5. CASE ~alive[q] \/ ~Allocated(q, w)
    BY <1>1, <2>2, <2>5 DEF Held
  <2>6. CASE alive[q] /\ Allocated(q, w) /\ c = b
    <3>1. Held(q, w) = data[f]
      BY <1>3, <2>3, <2>6 DEF Held
    <3>2. Held(q, w)' = data'[s]
      BY <1>1, <1>3, <2>2, <2>4, <2>6 DEF Held
    <3> QED
      BY <1>d, <3>1, <3>2
  <2>7. CASE alive[q] /\ Allocated(q, w) /\ c # b
    <3>1. ent'[c] = ent[c]
      BY <1>3, <2>3, <2>7
    <3>2. ent[c].pres \/ ent[c].swap => data'[ent[c].base] = data[ent[c].base]
      BY <1>1, <1>d, <2>3, <2>7, Regions
    <3>3. Pte(q, w[1], w[2])' = Pte(q, w[1], w[2])
      BY <2>3, <2>4, <2>7, <3>1
    <3> QED
      BY <1>1, <2>2, <2>3, <2>7, <3>2, <3>3, HeldSame
  <2> QED
    BY <2>5, <2>6, <2>7
<1>8. Held(p, v)' = Held(p, v)
  <2>1. alive'[p] /\ Allocated(p, v)' /\ Pte(p, v[1], v[2])' = ent'[a]
    BY <1>1, <1>4, <1>5, <1>6
  <2>2. Held(p, v)' = data'[f]
    BY <1>3, <2>1 DEF Held
  <2>3. Held(p, v) = data[s]
    BY <1>1, <1>5, <1>6 DEF Held, s
  <2> QED
    BY <1>d, <2>2, <2>3
<1> QED
  BY <1>1, <1>7, <1>8, Stutters

(***************************************************************************)
(* The operations on processes and blocks.                                 *)
(***************************************************************************)

LEMMA QuietSeen ==
  ASSUME Inv, Inv', UNCHANGED <<ent, alive, pdbr, blocks, data>>
  PROVE  Simulated
<1>1. \A q \in Proc, w \in HeapPage : Held(q, w)' = Held(q, w)
  BY DEF Held, Allocated, Pte, Tab, Pde, Linear
<1> QED
  BY <1>1, Stutters

\* A disciplined store goes to a page of a block of the process.
LEMMA StoreSeen ==
  ASSUME Inv, Inv', Careful, NEW p \in Proc, NEW v \in Idx \X Idx, NEW x \in Data, Store(p, v, x)
  PROVE  Simulated
<1>1. /\ currpid = p /\ pc[p] = "user"
      /\ cr3 = pdbr[p] /\ Resident(pdbr[p], v) /\ v \in Owned(p)
      /\ data' = [data EXCEPT ![ent[PteAddr(pdbr[p], v)].base] = x]
      /\ UNCHANGED <<ent, alive, pdbr, blocks>>
  BY DEF Store, Executing, MayAccess, Careful, Resident, tabVars, procVars, heapVars
<1>2. alive[p]
  BY <1>1 DEF Inv, OwnershipInv, Control
<1>3. Allocated(p, v)
  BY <1>1, <1>2, OwnedAllocated DEF Inv, OwnershipInv
<1>4. v \in HeapPage /\ Held(p, v) \in Data \cup {Fresh}
  BY <1>2, <1>3, PagePlaces, HeldData
<1> DEFINE e == Pte(p, v[1], v[2])
<1>5. e.pres /\ ent[PteAddr(pdbr[p], v)].base = e.base
  BY <1>1 DEF Pte, Tab, Pde, PteAddr, Resident
<1>6. e.base \in Fss
  BY <1>2, <1>3, <1>5, PagePlaces
<1>7. data'[e.base] = x /\ \A y \in Fss \cup Swap : y # e.base => data'[y] = data[y]
  <2> HIDE DEF e
  <2> QED
    BY <1>1, <1>5, <1>6 DEF Inv, TypeOK
<1>8. /\ \A q \in Proc : \A w : Allocated(q, w)' <=> Allocated(q, w)
      /\ \A q \in Proc, w \in HeapPage : Pte(q, w[1], w[2])' = Pte(q, w[1], w[2])
  BY <1>1 DEF Allocated, Linear, Pte, Tab, Pde
<1>9. \A q \in Proc, w \in HeapPage : q # p \/ w # v => Held(q, w)' = Held(q, w)
  <2> SUFFICES ASSUME NEW q \in Proc, NEW w \in HeapPage, q # p \/ w # v
               PROVE  Held(q, w)' = Held(q, w)
    OBVIOUS
  <2>1. w \in Idx \X Idx
    BY DEF HeapPage
  <2> DEFINE g == Pte(q, w[1], w[2])
  <2>2. ASSUME alive[q], Allocated(q, w)
        PROVE  (g.pres => g.base \in Fss) /\ (g.swap => g.base \in Swap)
    BY <2>1, <2>2, PagePlaces
  <2>3. ASSUME alive[q], Allocated(q, w)
        PROVE  g.pres \/ g.swap => g.base # e.base
    BY <1>2, <1>3, <1>5, <2>1, <2>3, OnePlace
  <2>4. alive[q] /\ Allocated(q, w) => (g.pres \/ g.swap => data'[g.base] = data[g.base])
    <3> HIDE DEF e, g
    <3> QED
      BY <1>7, <2>2, <2>3
  <2> QED
    BY <1>1, <1>8, <2>4, HeldSame
<1>10. Held(p, v)' = x
  <2>1. Allocated(p, v)' /\ alive'[p] /\ Pte(p, v[1], v[2])' = e
    BY <1>1, <1>2, <1>3, <1>4, <1>8
  <2> HIDE DEF e
  <2> QED
    BY <1>5, <1>7, <2>1 DEF Held
<1> QED
  BY <1>1, <1>2, <1>4, <1>9, <1>10, SeenStore

LEMMA VcreateSeen ==
  ASSUME Inv, Inv', NEW p \in Proc, Vcreate(p)
  PROVE  Simulated
<1>1. PICK t \in Pdpt :
        /\ pdptAvail[t] /\ pdbr' = [pdbr EXCEPT ![p] = t]
        /\ \A a \in Addr : a[1] # t => ent'[a] = ent[a]
  BY DEF Vcreate, IsFirst
<1>2. /\ ~alive[p] /\ alive'[p] /\ blocks' = blocks /\ data' = data
      /\ \A q \in Proc : q # p => alive'[q] = alive[q] /\ pdbr'[q] = pdbr[q]
  BY <1>1 DEF Vcreate, Inv, TypeOK
<1>3. \A q \in Proc : \A w : Allocated(q, w)' <=> Allocated(q, w)
  BY <1>2 DEF Allocated, Linear
<1>4. \A w \in HeapPage : Held(p, w)' = Unmapped
  <2>1. blocks[p] = {}
    BY <1>2 DEF Inv, OwnershipInv, Heap
  <2> QED
    BY <1>3, <2>1 DEF Held, Allocated
<1>5. \A q \in Proc, w \in HeapPage : q # p => Held(q, w)' = Held(q, w)
  <2> SUFFICES ASSUME NEW q \in Proc, NEW w \in HeapPage, q # p
               PROVE  Held(q, w)' = Held(q, w)
    OBVIOUS
  <2>1. w \in Idx \X Idx
    BY DEF HeapPage
  <2>2. ASSUME alive[q], Allocated(q, w)
        PROVE  Pte(q, w[1], w[2])' = Pte(q, w[1], w[2])
    <3>1. Has(q, w[1]) /\ w[1] \in User /\ <<Tab(q, w[1]), w[2]>> \in Addr
      BY <2>1, <2>2, PagePlaces
    <3>2. Tab(q, w[1]) # t /\ pdbr[q] # t /\ pdbr[q] \in Pdpt
      BY <1>1, <2>2, <3>1 DEF Inv, OwnershipInv, Tables
    <3>3. Tab(q, w[1])' = Tab(q, w[1])
      BY <1>1, <1>2, <2>1, <3>2 DEF Tab, Pde, Addr
    <3> QED
      BY <1>1, <3>1, <3>2, <3>3 DEF Pte
  <2> QED
    BY <1>2, <1>3, <2>2, HeldSame
<1> QED
  BY <1>2, <1>4, <1>5, SeenLife

\* The pages of the new block, and no others, are new, and nothing is in them.
LEMMA VmallocSeen ==
  ASSUME Inv, Inv', Careful, NEW p \in Proc, NEW n \in Sizes, Vmalloc(p, n)
  PROVE  Simulated
<1>0. Disciplined
  BY DEF Careful, Disciplined
<1>1. PICK missing, alloc : Validates(p, n, missing, alloc) /\ Refreshes(p, n, missing, alloc)
  BY <1>0, VmallocWrites DEF Inv
<1>2. /\ alive[p] /\ UNCHANGED <<alive, pdbr, data>>
      /\ \A q \in Proc, d \in User : Has(q, d) => Tab(q, d)' = Tab(q, d)
  <2>1. data' = data
    BY DEF Vmalloc
  <2> QED
    BY <1>0, <1>1, <2>1, VmallocTables DEF Inv
<1>3. /\ \A q \in Proc : \A w : Allocated(q, w) => Allocated(q, w)'
      /\ \A q \in Proc : \A w : Allocated(q, w)' =>
           Allocated(q, w) \/ (q = p /\ vAdd[p] <= Linear(w) /\ Linear(w) < vAdd[p] + n)
      /\ \A w : vAdd[p] <= Linear(w) /\ Linear(w) < vAdd[p] + n => Allocated(p, w)'
  BY <1>0, VmallocAllocates DEF Inv
<1> DEFINE S == {w \in HeapPage : vAdd[p] <= Linear(w) /\ Linear(w) < vAdd[p] + n}
<1>4. \A q \in Proc, w \in HeapPage : q # p \/ w \notin S => Held(q, w)' = Held(q, w)
  <2> SUFFICES ASSUME NEW q \in Proc, NEW w \in HeapPage, q # p \/ w \notin S
               PROVE  Held(q, w)' = Held(q, w)
    OBVIOUS
  <2>1. w \in Idx \X Idx /\ w = <<w[1], w[2]>> /\ w[2] \in Idx
    BY DEF HeapPage
  <2>2. Allocated(q, w)' <=> Allocated(q, w)
    BY <1>3 DEF S
  <2>3. ASSUME alive[q], Allocated(q, w)
        PROVE  Pte(q, w[1], w[2])' = Pte(q, w[1], w[2])
    <3>1. Has(q, w[1]) /\ w[1] \in User
      BY <2>1, <2>3, PagePlaces
    <3>2. ent'[<<Tab(q, w[1]), w[2]>>] = ent[<<Tab(q, w[1]), w[2]>>]
      <4>1. Allocated(q, <<w[1], w[2]>>)
        BY <2>1, <2>3
      <4> QED
        BY <1>0, <1>1, <2>1, <3>1, <4>1, VmallocKeeps DEF Inv
    <3> QED
      BY <1>2, <3>1, <3>2 DEF Pte
  <2> QED
    BY <1>2, <2>2, <2>3, HeldSame
<1>5. \A w \in S : Held(p, w)' = Fresh /\ Held(p, w) = Unmapped
  <2> SUFFICES ASSUME NEW w \in S
               PROVE  Held(p, w)' = Fresh /\ Held(p, w) = Unmapped
    OBVIOUS
  <2>1. w \in Idx \X Idx /\ w = <<w[1], w[2]>> /\ w[1] \in Idx /\ w[2] \in Idx
    BY DEF HeapPage
  <2>2. ~Allocated(p, w)
    <3>1. Allocated(p, w) => Linear(w) < vAdd[p]
      BY <1>2, <2>1, OwnedAllocated DEF Inv, OwnershipInv
    <3>2. vAdd[p] <= Linear(w) /\ Linear(w) \in Nat /\ vAdd[p] \in Nat
      BY <2>1, LinearType DEF Inv
    <3> QED
      BY <3>1, <3>2
  <2>3. Allocated(p, w)' /\ alive'[p]
    BY <1>2, <1>3
  <2>4. w[1] \in User /\ Has(p, w[1])'
    <3>1. Allocated(p, <<w[1], w[2]>>)'
      BY <2>1, <2>3
    <3> QED
      BY <2>1, <2>3, <3>1 DEF Inv, PagesInv, Mapped
  <2>5. ~(Pte(p, w[1], w[2])'.pres \/ Pte(p, w[1], w[2])'.swap)
    <3>1. ~Allocated(p, <<w[1], w[2]>>)
      BY <2>1, <2>2
    <3> QED
      BY <1>0, <2>1, <2>4, <3>1, VmallocMapped DEF Inv
  <2> QED
    BY <2>2, <2>3, <2>5 DEF Held
<1>6. S \in SUBSET HeapPage
  OBVIOUS
<1> HIDE DEF S
<1> QED
  BY <1>2, <1>4, <1>5, <1>6, SeenMap

\* The walks of vfree and kill leave the entries of the pages that stay.
LEMMA ReturnsHeld ==
  ASSUME Inv, Inv', NEW p \in Proc, NEW D, NEW A, Returns(p, D, A),
         NEW q \in Proc, NEW w \in HeapPage, alive'[q] <=> alive[q], Allocated(q, w)' <=> Allocated(q, w)
  PROVE  Held(q, w)' = Held(q, w)
<1>1. w \in Idx \X Idx /\ w = <<w[1], w[2]>> /\ w[1] \in Idx /\ w[2] \in Idx
  BY DEF HeapPage
<1>2. data' = data
  BY DEF Returns, Reclaim
<1>3. ASSUME alive[q], Allocated(q, w)
      PROVE  Pte(q, w[1], w[2])' = Pte(q, w[1], w[2])
  <2>1. alive' \in [Proc -> BOOLEAN]
    BY DEF Inv, TypeOK
  <2>2. Allocated(q, <<w[1], w[2]>>)' /\ alive'[q]
    BY <1>1, <1>3
  <2>3. w[1] \in User /\ Has(q, w[1])' /\ Pte(q, w[1], w[2])'.valid
    BY <1>1, <2>2 DEF Inv, PagesInv, Mapped
  <2>4. ClearsOnly(p, D, A) /\ Tab(q, w[1])' = Tab(q, w[1])
    BY <2>1, <2>3, ReturnsWrites DEF Inv
  <2>5. Tab(q, w[1]) \in Pdpt
    BY <1>1, <1>3, PagePlaces
  <2>6. Pte(q, w[1], w[2])' = ent'[<<Tab(q, w[1]), w[2]>>]
    BY <2>4 DEF Pte
  <2>7. Pte(q, w[1], w[2])' = Zero \/ Pte(q, w[1], w[2])' = ent[<<Tab(q, w[1]), w[2]>>]
    BY <1>1, <2>4, <2>5, <2>6 DEF ClearsOnly
  <2> QED
    BY <2>3, <2>7 DEF Pte, Zero
<1> QED
  BY <1>2, <1>3, HeldSame

LEMMA VfreeSeen ==
  ASSUME Inv, Inv', NEW p \in Proc, NEW b \in blocks[p], Vfree(p, b[1], b[2])
  PROVE  Simulated
<1>1. PICK D : Returns(p, D, {<<Tab(p, x[1]), x[2]>> : x \in Walked(b[1], b[2])})
  BY VfreeReturns DEF Inv
<1>2. alive[p] /\ UNCHANGED alive
  BY <1>1 DEF Returns, Vfree, procVars
<1>3. b = <<b[1], b[2]>>
  BY BlockType DEF Inv
<1>4. blocks' = [blocks EXCEPT ![p] = @ \ {b}]
  BY <1>3 DEF Vfree
<1>5. \A w \in Idx \X Idx :
        /\ Allocated(p, w)' <=>
             Allocated(p, w) /\ ~(Linear(b[1]) <= Linear(w) /\ Linear(w) < Linear(b[1]) + b[2])
        /\ \A q \in Proc : q # p => Allocated(q, w)' <=> Allocated(q, w)
  BY <1>2, <1>4, OtherBlocks DEF Inv
<1> DEFINE S == {w \in HeapPage : Linear(b[1]) <= Linear(w) /\ Linear(w) < Linear(b[1]) + b[2]}
<1>6. \A q \in Proc, w \in HeapPage : q # p \/ w \notin S => Held(q, w)' = Held(q, w)
  <2> SUFFICES ASSUME NEW q \in Proc, NEW w \in HeapPage, q # p \/ w \notin S
               PROVE  Held(q, w)' = Held(q, w)
    OBVIOUS
  <2>1. Allocated(q, w)' <=> Allocated(q, w)
    <3>1. w \in Idx \X Idx
      BY DEF HeapPage
    <3> QED
      BY <1>5, <3>1 DEF S
  <2> QED
    BY <1>1, <1>2, <2>1, ReturnsHeld
<1>7. \A w \in S : Held(p, w)' = Unmapped /\ Held(p, w) # Unmapped
  <2> SUFFICES ASSUME NEW w \in S
               PROVE  Held(p, w)' = Unmapped /\ Held(p, w) # Unmapped
    OBVIOUS
  <2>1. w \in Idx \X Idx
    BY DEF HeapPage
  <2>2. ~Allocated(p, w)' /\ Allocated(p, w)
    BY <1>5, <2>1 DEF Allocated
  <2> QED
    BY <1>2, <2>1, <2>2, HeldData DEF Held
<1>8. S \in SUBSET HeapPage
  OBVIOUS
<1> HIDE DEF S
<1> QED
  BY <1>2, <1>6, <1>7, <1>8, RefinementAssumption, SeenMap

LEMMA KillSeen ==
  ASSUME Inv, Inv', NEW p \in Proc, FinishExit(p) \/ \E k \in Thread : FinishKillOther(k, p)
  PROVE  Simulated
<1>1. Bury(p)
  BY DEF FinishExit, FinishKillOther
<1>2. alive[p]
  <2>1. CASE FinishExit(p)
    BY <2>1 DEF FinishExit, Inv, OwnershipInv, Control
  <2>2. ASSUME NEW k \in Thread, FinishKillOther(k, p)
        PROVE  alive[p]
    BY <2>2, PagingAssumption DEF FinishKillOther, Inv, OwnershipInv, Control
  <2> QED
    BY <2>1, <2>2
<1>3. PICK D, A : Returns(p, D, A) /\ \A q \in Proc : alive'[q] <=> alive[q] /\ q # p
  BY <1>1, <1>2, BuryReturns DEF Inv
<1>4. \A w \in HeapPage : Held(p, w)' = Unmapped
  BY <1>3 DEF Held
<1>5. \A q \in Proc, w \in HeapPage : q # p => Held(q, w)' = Held(q, w)
  <2> SUFFICES ASSUME NEW q \in Proc, NEW w \in HeapPage, q # p
               PROVE  Held(q, w)' = Held(q, w)
    OBVIOUS
  <2>1. Allocated(q, w)' <=> Allocated(q, w)
    <3>1. blocks'[q] = blocks[q]
      BY <1>1 DEF Bury, Inv, TypeOK
    <3> QED
      BY <3>1 DEF Allocated, Linear
  <2>2. alive'[q] <=> alive[q]
    BY <1>3 DEF Inv, TypeOK
  <2> QED
    BY <1>3, <2>1, <2>2, ReturnsHeld
<1> QED
  BY <1>2, <1>3, <1>4, <1>5, SeenLife

LEMMA ControlSeen ==
  ASSUME Inv, Inv', Careful, ControlStep
  PROVE  Simulated
<1>1. CASE \E p \in Proc, v \in Idx \X Idx, x \in Data : Store(p, v, x)
  BY <1>1, StoreSeen
<1>2. CASE ~\E p \in Proc, v \in Idx \X Idx, x \in Data : Store(p, v, x)
  <2>1. data' = data
    BY <1>2 DEF ControlStep, Preempt, VmallocOverMaxHeap, VmallocOverProcHeap, VfreeRefused,
                Fault, Exit, SegmentationFault, EnterKill, KillOther
  <2>2. UNCHANGED <<ent, alive, pdbr, blocks>>
    BY ControlFrame DEF tabVars, procVars
  <2> QED
    BY <2>1, <2>2, QuietSeen
<1> QED
  BY <1>1, <1>2

LEMMA SimulatesStep ==
  ASSUME Inv, Inv', Careful, [Next]_vars
  PROVE  Simulated
<1>1. CASE UNCHANGED vars
  BY <1>1, QuietSeen DEF vars, tabVars, procVars, heapVars
<1>2. CASE ControlStep
  BY <1>2, ControlSeen
<1>3. ASSUME NEW p \in Proc, Vcreate(p)
      PROVE  Simulated
  BY <1>3, VcreateSeen
<1>4. ASSUME NEW p \in Proc, NEW n \in Sizes, Vmalloc(p, n)
      PROVE  Simulated
  BY <1>4, VmallocSeen
<1>5. ASSUME NEW p \in Proc, NEW b \in blocks[p], Vfree(p, b[1], b[2])
      PROVE  Simulated
  BY <1>5, VfreeSeen
<1>6. ASSUME NEW p \in Proc, NEW f \in Fss,
             \/ FirstTouch(p, f) \/ SwapIn(p, f) \/ SwapInEvict(p, f)
             \/ \E s \in Swap : FirstTouchEvict(p, f, s)
      PROVE  Simulated
  BY <1>6, FirstTouchSeen, FirstTouchEvictSeen, SwapInSeen, SwapInEvictSeen
<1>7. ASSUME NEW p \in Proc, FinishExit(p) \/ \E k \in Thread : FinishKillOther(k, p)
      PROVE  Simulated
  BY <1>7, KillSeen
<1> QED
  BY <1>1, <1>2, <1>3, <1>4, <1>5, <1>6, <1>7 DEF Next, ControlStep

LEMMA SimulatesInit == Init => Abstract!Init
<1> SUFFICES ASSUME Init
             PROVE  Abstract!Init
  OBVIOUS
<1>1. \A p \in Proc : ~alive[p]
  BY DEF Init
<1>2. \A p \in Proc, w \in HeapPage : Contents(p, w) = Unmapped
  BY <1>1 DEF Contents
<1>3. Live = {}
  BY <1>1 DEF Live
<1> QED
  BY <1>2, <1>3 DEF Abstract!Init, Abstract!Empty

(***************************************************************************)
(* The theorem.                                                            *)
(***************************************************************************)

\* KeepsMemory (demand paging is invisible to the programs): under Careful every
\* behaviour of the trackers, tables, frames and slots is one of AddressSpace:
\* what a process stored in a page of a block it finds there whatever was
\* evicted, brought back, allocated, freed, created or killed in between.
THEOREM MemoryKept ==
  ASSUME Careful
  PROVE  Spec => KeepsMemory
<1>1. Disciplined
  BY DEF Careful, Disciplined
<1>2. Spec => [](TypeOK /\ OwnershipInv /\ PagesInv)
  <2>1. Spec => []TypeOK
    BY TypeCorrect
  <2>2. Spec => []OwnershipInv
    BY <1>1, OwnershipInvariant
  <2>3. Spec => []PagesInv
    BY PagesInvariant
  <2> QED
    BY <2>1, <2>2, <2>3, PTL
<1>3. Spec => []Inv
  <2>1. TypeOK /\ OwnershipInv /\ PagesInv => Inv
    BY DEF Inv
  <2> QED
    BY <1>2, <2>1, PTL
<1>4. Inv /\ Inv' /\ [Next]_vars => [Abstract!Next]_(Abstract!vars)
  BY SimulatesStep DEF Simulated
<1>5. Init => Abstract!Init
  BY SimulatesInit
<1> QED
  BY <1>3, <1>4, <1>5, PTL DEF Spec, KeepsMemory, Abstract!Spec
==============================================================================
