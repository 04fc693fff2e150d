-------------------------------- MODULE Memory --------------------------------
(***************************************************************************)
(* The heap of the kernel: a list of free blocks, in the order of their    *)
(* addresses, from which getmem takes the first block that fits, getstk    *)
(* the last one, and into which freemem merges what comes back.  Every     *)
(* call runs with interrupts disabled from beginning to end.               *)
(*                                                                         *)
(* meminit does not count the memory it finds: memlist.mlength starts from *)
(* zero and says, modulo 2^32, by how much the free memory has changed.    *)
(***************************************************************************)
EXTENDS Integers, FiniteSetsExt, SequencesExt

CONSTANTS
  MinHeap,    \* first address of the heap, after the kernel's data
  Hole,       \* addresses <<first, end>> of the hole between 640K and 1 MB
  MaxHeap,    \* end of the heap
  MemBlk,     \* sizeof(struct memblk), the unit of allocation
  AddrWord,   \* 2^32: sizes and addresses are unsigned
  Requests    \* sizes, in bytes, that callers ask for and give back

ASSUME MemoryAssumption ==
  /\ MemBlk \in Nat \ {0} /\ MinHeap \in Nat \ {0} /\ MaxHeap \in Nat
  /\ Hole \in Nat \X Nat /\ AddrWord \in Nat
  /\ MinHeap < Hole[1] /\ Hole[1] < Hole[2] /\ Hole[2] < MaxHeap /\ MaxHeap < AddrWord
  /\ \A a \in {MinHeap, Hole[1], Hole[2], MaxHeap, AddrWord} : a % MemBlk = 0
  /\ Requests \subseteq Nat

VARIABLES
  memlist,    \* the free blocks: address and length of each
  memfree,    \* memlist.mlength
  taken       \* history: the units (multiples of MemBlk) that callers hold
memVars == <<memlist, memfree, taken>>

Roundmb(n) == (((n + MemBlk - 1) \div MemBlk) * MemBlk) % AddrWord

UnitsOf(at, n) == {a \in at .. at + n - 1 : a % MemBlk = 0}
Block(at, n) == [at |-> at, len |-> n]

\* Block i of the list without n bytes at its bottom, or at its top.
WithoutBottom(i, n) ==
  IF memlist[i].len = n THEN RemoveAt(memlist, i)
  ELSE ReplaceAt(memlist, i, Block(memlist[i].at + n, memlist[i].len - n))
WithoutTop(i, n) ==
  IF memlist[i].len = n THEN RemoveAt(memlist, i)
  ELSE ReplaceAt(memlist, i, Block(memlist[i].at, memlist[i].len - n))

Fitting(n) == {i \in DOMAIN memlist : memlist[i].len >= n}

Getmem(bytes) ==
  LET n == Roundmb(bytes)
      i == Min(Fitting(n))
  IN
  /\ bytes # 0 /\ Fitting(n) # {}
  /\ memlist' = WithoutBottom(i, n)
  /\ memfree' = (memfree - n) % AddrWord
  /\ taken' = taken \cup UnitsOf(memlist[i].at, n)

Getstk(bytes) ==
  LET n == Roundmb(bytes)
      i == Max(Fitting(n))
  IN
  /\ bytes # 0 /\ Fitting(n) # {}
  /\ memlist' = WithoutTop(i, n)
  /\ memfree' = (memfree - n) % AddrWord
  /\ taken' = taken \cup UnitsOf(memlist[i].at + memlist[i].len - n, n)

\* The list once block b is linked in behind its first k blocks, merged with
\* the block before and the block after where they touch.
Merged_NotAfter(k, b) ==
  LET before == IF k > 0 /\ memlist[k].at + memlist[k].len = b.at THEN 1 ELSE 0
      new    == IF before = 1 THEN Block(memlist[k].at, memlist[k].len + b.len) ELSE b
  IN  SubSeq(memlist, 1, k - before) \o <<new>> \o SubSeq(memlist, k + 1, Len(memlist))
Merged(k, b) ==
  LET before == IF k > 0 /\ memlist[k].at + memlist[k].len = b.at THEN 1 ELSE 0
      new    == IF before = 1 THEN Block(memlist[k].at, memlist[k].len + b.len) ELSE b
      after  == IF k < Len(memlist) /\ new.at + new.len = memlist[k + 1].at THEN 1 ELSE 0
      whole  == IF after = 1 THEN Block(new.at, new.len + memlist[k + 1].len) ELSE new
  IN  SubSeq(memlist, 1, k - before) \o <<whole>> \o SubSeq(memlist, k + 1 + after, Len(memlist))

\* Of a block that lies across free memory the list is left as it is.
Overlaps(k, at, n) ==
  \/ k > 0 /\ at < memlist[k].at + memlist[k].len
  \/ k < Len(memlist) /\ at + n > memlist[k + 1].at

\* freemem, of memory the caller holds or of memory that is free already.
Freemem(at, bytes) ==
  LET n == Roundmb(bytes)
      k == Cardinality({i \in DOMAIN memlist : memlist[i].at < at})
  IN
  /\ bytes # 0 /\ MinHeap <= at /\ at + n <= MaxHeap
  /\ ~Overlaps(k, at, n)
  /\ memlist' = Merged(k, Block(at, n))
  /\ memfree' = (memfree + n) % AddrWord
  /\ taken' = taken \ UnitsOf(at, n)

\* meminit: two blocks that straddle the hole.
MemInit ==
  /\ memlist = <<Block(MinHeap, Hole[1] - MinHeap), Block(Hole[2], MaxHeap - Hole[2])>>
  /\ memfree = 0
  /\ taken = {}

\* Nobody frees the hole: it was never allocated.
MemNext ==
  \E bytes \in Requests :
    \/ Getmem(bytes) \/ Getstk(bytes)
    \/ \E at \in UnitsOf(MinHeap, MaxHeap - MinHeap) :
         UnitsOf(at, bytes) \cap UnitsOf(Hole[1], Hole[2] - Hole[1]) = {} /\ Freemem(at, bytes)

MemSpec == MemInit /\ [][MemNext]_memVars

-------------------------------------------------------------------------------
FreeUnits == UNION {UnitsOf(memlist[i].at, memlist[i].len) : i \in DOMAIN memlist}

\* The free list and what callers hold divide the heap between them, whatever
\* was split, merged, freed in parts or freed twice; the blocks are in order and
\* no two of them touch, so that a request finds any contiguous memory there is;
\* the count has changed by exactly what is held.
HeapExact ==
  /\ FreeUnits \cap taken = {}
  /\ FreeUnits \cup taken = UnitsOf(MinHeap, Hole[1] - MinHeap) \cup UnitsOf(Hole[2], MaxHeap - Hole[2])
  /\ \A i \in 1 .. Len(memlist) - 1 : memlist[i].at + memlist[i].len < memlist[i + 1].at
  /\ \A i \in DOMAIN memlist : memlist[i].len > 0
  /\ (memfree + MemBlk * Cardinality(taken)) % AddrWord = 0
===============================================================================
