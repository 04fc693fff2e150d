----------------------------- MODULE AddressSpace -----------------------------
(***************************************************************************)
(* What the virtual memory of a user process promises its program: every   *)
(* process has pages of its own; a page belongs to the process from the    *)
(* vmalloc that returns it to the vfree (or the death) that gives it back, *)
(* holds nothing in particular until it is first touched, and from then on *)
(* holds what its owner last stored in it.  Where a page is kept (a frame  *)
(* of the FSS region, a slot of the swap region), who evicts it and when   *)
(* it is brought back cannot be seen here.                                 *)
(***************************************************************************)
CONSTANTS
  Proc,      \* user processes (slots of proctab that vcreate fills)
  Page,      \* virtual pages of one address space
  Data,      \* values a page may hold
  Unmapped,  \* the page is not part of any block
  Fresh      \* allocated, never touched

VARIABLES
  live,      \* processes that exist
  mem        \* contents of every page of every process

vars == <<live, mem>>

Empty == [w \in Page |-> Unmapped]

Init ==
  /\ live = {}
  /\ mem = [p \in Proc |-> Empty]

\* A process starts with nothing in its heap.
Create(p) ==
  /\ p \notin live
  /\ live' = live \cup {p}
  /\ mem' = [mem EXCEPT ![p] = Empty]

\* Allocation hands out pages that were in no block.
Map(p, S) ==
  /\ p \in live
  /\ \A w \in S : mem[p][w] = Unmapped
  /\ mem' = [mem EXCEPT ![p] = [w \in Page |-> IF w \in S THEN Fresh ELSE @[w]]]
  /\ UNCHANGED live

\* The first touch of a page finds arbitrary contents.
Materialise(p, w, d) ==
  /\ p \in live /\ mem[p][w] = Fresh
  /\ mem' = [mem EXCEPT ![p][w] = d]
  /\ UNCHANGED live

Store(p, w, d) ==
  /\ p \in live /\ mem[p][w] \in Data
  /\ mem' = [mem EXCEPT ![p][w] = d]
  /\ UNCHANGED live

Unmap(p, S) ==
  /\ p \in live
  /\ \A w \in S : mem[p][w] # Unmapped
  /\ mem' = [mem EXCEPT ![p] = [w \in Page |-> IF w \in S THEN Unmapped ELSE @[w]]]
  /\ UNCHANGED live

Destroy(p) ==
  /\ p \in live
  /\ live' = live \ {p}
  /\ mem' = [mem EXCEPT ![p] = Empty]

Next == \E p \in Proc :
  \/ \E S \in SUBSET Page : Map(p, S) \/ Unmap(p, S)
  \/ \E w \in Page, d \in Data : Materialise(p, w, d) \/ Store(p, w, d)
  \/ Create(p)
  \/ Destroy(p)

Spec == Init /\ [][Next]_vars
==============================================================================
