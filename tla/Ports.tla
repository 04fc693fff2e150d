--------------------------------- MODULE Ports ---------------------------------
(***************************************************************************)
(* Buffer pools and ports, both built on semaphores: processes take        *)
(* buffers from pools, send them through ports, receive and free them,     *)
(* while ports are created, reset and deleted under those that wait.       *)
(*                                                                         *)
(* Calls run with interrupts disabled: a step is a call up to where wait,  *)
(* signal, semreset, semdelete or the caller's disposal function may give  *)
(* the processor away, and any process that waits no more may be the next  *)
(* to run.  A process that was taken off a semaphore's queue goes on with  *)
(* the step named ...Returns.                                              *)
(***************************************************************************)
EXTENDS Integers, FiniteSetsExt, SequencesExt, Semaphores

CONSTANTS
  Client,     \* processes that use pools and ports
  Port,       \* entries of porttab: 0 .. NPORTS - 1
  Pool,       \* entries of buftab: 0 .. NBPOOLS - 1
  NumBufs,    \* buffers in a pool
  MaxCnt,     \* counts passed to ptcreate
  MaxMsgs,    \* maxmsgs passed to ptinit: message nodes in all
  MaxSeq,     \* bound on ptseq
  NoBuf       \* no buffer

ASSUME PortsAssumption ==
  /\ IsFiniteSet(Client) /\ IsFiniteSet(Port) /\ Port # {} /\ Port = 0 .. Cardinality(Port) - 1
  /\ IsFiniteSet(Pool) /\ Pool = 0 .. Cardinality(Pool) - 1
  /\ NumBufs \in Nat \ {0} /\ MaxMsgs \in Nat /\ MaxCnt \subseteq Nat /\ MaxSeq \in Nat
  /\ NoBuf \notin Pool \X (1 .. NumBufs)

Buf == Pool \X (1 .. NumBufs)

VARIABLES
  nbpools, bpnext, bpsem,       \* buftab: the list of free buffers and the semaphore of a pool
  ptstate, ptseq, ptmaxcnt,     \* porttab
  ptlist,                       \* pthead .. pttail: the messages of a port
  ptssem, ptrsem,
  ptfree,                       \* nodes on the free list
  ptnextid,
  doing,                        \* what call a process is in, and where it may come back
  on,                           \* the pool or port of that call
  seq,                          \* its local copy of ptseq
  holds,                        \* the buffer a process has, or NoBuf
  walk                          \* messages _ptclear has yet to dispose of

poolVars == <<nbpools, bpnext, bpsem>>
portVars == <<ptstate, ptseq, ptmaxcnt, ptlist, ptssem, ptrsem, ptfree, ptnextid>>
clientVars == <<doing, on, seq, holds, walk>>
portsVars == <<poolVars, portVars, clientVars>>

Begin(p, what, where, s) ==
  /\ doing' = [doing EXCEPT ![p] = what] /\ on' = [on EXCEPT ![p] = where]
  /\ seq' = [seq EXCEPT ![p] = s]
Done(p) == Begin(p, "idle", 0, 0)

(***************************************************************************)
(* Buffer pools.                                                           *)
(***************************************************************************)
Mkbufpool ==
  /\ nbpools < Cardinality(Pool)
  /\ bpnext' = [bpnext EXCEPT ![nbpools] = [i \in 1 .. NumBufs |-> <<nbpools, i>>]]
  /\ bpsem' = [bpsem EXCEPT ![nbpools] = NewSem(NumBufs)]
  /\ nbpools' = nbpools + 1
  /\ UNCHANGED <<portVars, clientVars>>

\* The first buffer is unlinked.
TakeBuf(p, k) ==
  /\ bpnext[k] # <<>>
  /\ holds' = [holds EXCEPT ![p] = Head(bpnext[k])]
  /\ bpnext' = [bpnext EXCEPT ![k] = Tail(@)]

Getbuf(p, k) ==
  /\ doing[p] = "idle" /\ holds[p] = NoBuf /\ k < nbpools
  /\ bpsem' = [bpsem EXCEPT ![k] = Waits(@, p)]
  /\ IF bpsem[k].count > 0 THEN TakeBuf(p, k) /\ UNCHANGED <<doing, on, seq>>
     ELSE Begin(p, "getbuf", k, 0) /\ UNCHANGED <<holds, bpnext>>
  /\ UNCHANGED <<nbpools, portVars, walk>>

GetbufReturns(p) ==
  LET k == on[p] IN
  /\ doing[p] = "getbuf" /\ ~Queued(bpsem[k], p)
  /\ TakeBuf(p, k) /\ Done(p)
  /\ UNCHANGED <<nbpools, bpsem, portVars, walk>>

\* A buffer says itself which pool it belongs to.
FreeTo(b) ==
  /\ bpnext' = [bpnext EXCEPT ![b[1]] = <<b>> \o @]
  /\ bpsem' = [bpsem EXCEPT ![b[1]] = Signaled(@)]
  /\ UNCHANGED nbpools

Freebuf(p) ==
  /\ doing[p] = "idle" /\ holds[p] # NoBuf
  /\ FreeTo(holds[p])
  /\ holds' = [holds EXCEPT ![p] = NoBuf]
  /\ UNCHANGED <<portVars, doing, on, seq, walk>>

(***************************************************************************)
(* Ports.  semcreate may find no entry for the second semaphore, or none.  *)
(***************************************************************************)
Next1(i) == (i + 1) % Cardinality(Port)

\* The first free entry, searched for from ptnextid on.
FreePort(i) ==
  /\ ptstate[i] = "free"
  /\ \A j \in Port : ptstate[j] = "free" =>
       (i - ptnextid) % Cardinality(Port) <= (j - ptnextid) % Cardinality(Port)

\* The callers' part: the ports together do not promise more nodes than there
\* are.  Nothing in ptcreate checks it.
Promised == SumFunctionOnSet(ptmaxcnt, {j \in Port : ptstate[j] # "free"})

Ptcreate(i, n) ==
  /\ FreePort(i) /\ ptseq[i] < MaxSeq /\ Promised + n <= MaxMsgs
  /\ \E s \in {NewSem(n), BadSem}, r \in {NewSem(0), BadSem} :
       /\ s = BadSem => r = BadSem
       /\ ptssem' = [ptssem EXCEPT ![i] = s] /\ ptrsem' = [ptrsem EXCEPT ![i] = r]
  /\ ptnextid' = Next1(i)
  /\ ptstate' = [ptstate EXCEPT ![i] = "alloc"]
  /\ ptlist' = [ptlist EXCEPT ![i] = <<>>]
  /\ ptseq' = [ptseq EXCEPT ![i] = @ + 1]
  /\ ptmaxcnt' = [ptmaxcnt EXCEPT ![i] = n]
  /\ UNCHANGED <<poolVars, ptfree, clientVars>>

\* The port a process has waited on is still the one it meant.
Same(p, i) == ptstate[i] = "alloc" /\ ptseq[i] = seq[p]

\* A node from the free list, without which ptsend panics, with the message.
Append1(p, i) ==
  /\ ptfree > 0
  /\ ptfree' = ptfree - 1
  /\ ptlist' = [ptlist EXCEPT ![i] = Append(@, holds[p])]
  /\ ptrsem' = [ptrsem EXCEPT ![i] = Signaled(@)]
  /\ holds' = [holds EXCEPT ![p] = NoBuf]

Ptsend(p, i) ==
  /\ doing[p] = "idle" /\ holds[p] # NoBuf /\ ptstate[i] = "alloc" /\ ptssem[i].ok
  /\ ptssem' = [ptssem EXCEPT ![i] = Waits(@, p)]
  /\ IF ptssem[i].count > 0 THEN Append1(p, i) /\ UNCHANGED <<doing, on, seq>>
     ELSE Begin(p, "send", i, ptseq[i]) /\ UNCHANGED <<ptfree, ptlist, ptrsem, holds>>
  /\ UNCHANGED <<poolVars, ptstate, ptseq, ptmaxcnt, ptnextid, walk>>

PtsendReturns(p) ==
  LET i == on[p] IN
  /\ doing[p] = "send" /\ ~Queued(ptssem[i], p)
  /\ IF Same(p, i) THEN Append1(p, i) ELSE UNCHANGED <<ptfree, ptlist, ptrsem, holds>>
  /\ Done(p)
  /\ UNCHANGED <<poolVars, ptssem, ptstate, ptseq, ptmaxcnt, ptnextid, walk>>

\* The first message, whose node goes back to the free list.
Remove1(p, i) ==
  /\ holds' = [holds EXCEPT ![p] = Head(ptlist[i])]
  /\ ptlist' = [ptlist EXCEPT ![i] = Tail(@)]
  /\ ptfree' = ptfree + 1
  /\ ptssem' = [ptssem EXCEPT ![i] = Signaled(@)]

Ptrecv(p, i) ==
  /\ doing[p] = "idle" /\ holds[p] = NoBuf /\ ptstate[i] = "alloc" /\ ptrsem[i].ok
  /\ ptrsem' = [ptrsem EXCEPT ![i] = Waits(@, p)]
  /\ IF ptrsem[i].count > 0 THEN Remove1(p, i) /\ UNCHANGED <<doing, on, seq>>
     ELSE Begin(p, "recv", i, ptseq[i]) /\ UNCHANGED <<ptfree, ptlist, ptssem, holds>>
  /\ UNCHANGED <<poolVars, ptstate, ptseq, ptmaxcnt, ptnextid, walk>>

PtrecvReturns(p) ==
  LET i == on[p] IN
  /\ doing[p] = "recv" /\ ~Queued(ptrsem[i], p)
  /\ IF Same(p, i) THEN Remove1(p, i) ELSE UNCHANGED <<ptfree, ptlist, ptssem, holds>>
  /\ Done(p)
  /\ UNCHANGED <<poolVars, ptrsem, ptstate, ptseq, ptmaxcnt, ptnextid, walk>>

(***************************************************************************)
(* _ptclear: the port is in limbo while the messages are disposed of, the  *)
(* senders let go, and then the receivers.  Buffers are disposed of with   *)
(* freebuf; each of these may let another process run.                     *)
(***************************************************************************)
Ptclear_KeepSeq(p, i, new) ==
  /\ doing[p] = "idle" /\ ptstate[i] = "alloc" /\ ptseq[i] < MaxSeq
  /\ ptstate' = [ptstate EXCEPT ![i] = "limbo"]
  /\ Begin(p, new, i, 0)
  /\ walk' = [walk EXCEPT ![p] = ptlist[i]]
  /\ UNCHANGED <<poolVars, ptmaxcnt, ptlist, ptssem, ptrsem, ptfree, ptnextid, ptseq, holds>>
Ptclear(p, i, new) ==
  /\ doing[p] = "idle" /\ ptstate[i] = "alloc" /\ ptseq[i] < MaxSeq
  /\ ptstate' = [ptstate EXCEPT ![i] = "limbo"]
  /\ ptseq' = [ptseq EXCEPT ![i] = @ + 1]
  /\ Begin(p, new, i, 0)
  /\ walk' = [walk EXCEPT ![p] = ptlist[i]]
  /\ UNCHANGED <<poolVars, ptmaxcnt, ptlist, ptssem, ptrsem, ptfree, ptnextid, holds>>

Dispose(p) ==
  /\ doing[p] \in {"reset", "delete"} /\ walk[p] # <<>>
  /\ FreeTo(Head(walk[p]))
  /\ walk' = [walk EXCEPT ![p] = Tail(@)]
  /\ UNCHANGED <<portVars, doing, on, seq, holds>>

\* The messages' nodes are linked into the free list.  A port that is deleted
\* keeps its pointers to them, which ptcreate clears before they are used.
LetSendersGo_KeepList(p) ==
  LET i == on[p] IN
  /\ doing[p] \in {"reset", "delete"} /\ walk[p] = <<>>
  /\ ptfree' = ptfree + Len(ptlist[i])
  /\ ptssem' = [ptssem EXCEPT ![i] = IF doing[p] = "reset" THEN Emptied(@, ptmaxcnt[i]) ELSE BadSem]
  /\ doing' = [doing EXCEPT ![p] = IF @ = "reset" THEN "reset2" ELSE "delete2"]
  /\ UNCHANGED <<poolVars, ptstate, ptseq, ptmaxcnt, ptlist, ptrsem, ptnextid, on, seq, holds, walk>>
LetSendersGo(p) ==
  LET i == on[p] IN
  /\ doing[p] \in {"reset", "delete"} /\ walk[p] = <<>>
  /\ ptfree' = ptfree + Len(ptlist[i])
  /\ ptlist' = [ptlist EXCEPT ![i] = <<>>]
  /\ ptssem' = [ptssem EXCEPT ![i] = IF doing[p] = "reset" THEN Emptied(@, ptmaxcnt[i]) ELSE BadSem]
  /\ doing' = [doing EXCEPT ![p] = IF @ = "reset" THEN "reset2" ELSE "delete2"]
  /\ UNCHANGED <<poolVars, ptstate, ptseq, ptmaxcnt, ptrsem, ptnextid, on, seq, holds, walk>>

LetReceiversGo(p) ==
  LET i == on[p] IN
  /\ doing[p] \in {"reset2", "delete2"}
  /\ ptrsem' = [ptrsem EXCEPT ![i] = IF doing[p] = "reset2" THEN Emptied(@, 0) ELSE BadSem]
  /\ doing' = [doing EXCEPT ![p] = IF @ = "reset2" THEN "reset3" ELSE "delete3"]
  /\ UNCHANGED <<poolVars, ptstate, ptseq, ptmaxcnt, ptlist, ptssem, ptfree, ptnextid,
                 on, seq, holds, walk>>

PtclearReturns(p) ==
  LET i == on[p] IN
  /\ doing[p] \in {"reset3", "delete3"}
  /\ ptstate' = [ptstate EXCEPT ![i] = IF doing[p] = "reset3" THEN "alloc" ELSE "free"]
  /\ ptnextid' = IF doing[p] = "reset3" THEN ptnextid ELSE i
  /\ Done(p)
  /\ UNCHANGED <<poolVars, ptseq, ptmaxcnt, ptlist, ptssem, ptrsem, ptfree, holds, walk>>

Ptcount(i) ==
  ptrsem[i].count + (IF ptrsem[i].count >= 0 /\ ptssem[i].count < 0 THEN -ptssem[i].count ELSE 0)

\* bufinit and ptinit.
PortsInit ==
  /\ nbpools = 0 /\ bpnext = [k \in Pool |-> <<>>] /\ bpsem = [k \in Pool |-> BadSem]
  /\ ptstate = [i \in Port |-> "free"] /\ ptseq = [i \in Port |-> 0]
  /\ ptmaxcnt = [i \in Port |-> 0] /\ ptlist = [i \in Port |-> <<>>]
  /\ ptssem = [i \in Port |-> BadSem] /\ ptrsem = [i \in Port |-> BadSem]
  /\ ptfree = MaxMsgs /\ ptnextid = 0
  /\ doing = [p \in Client |-> "idle"] /\ on = [p \in Client |-> 0]
  /\ seq = [p \in Client |-> 0] /\ holds = [p \in Client |-> NoBuf]
  /\ walk = [p \in Client |-> <<>>]

PortsNext ==
  \/ Mkbufpool
  \/ \E i \in Port, n \in MaxCnt : Ptcreate(i, n)
  \/ \E p \in Client :
       \/ \E k \in Pool : Getbuf(p, k)
       \/ GetbufReturns(p) \/ Freebuf(p)
       \/ \E i \in Port :
            \/ Ptsend(p, i) \/ Ptrecv(p, i)
            \/ \E new \in {"reset", "delete"} : Ptclear(p, i, new)
       \/ PtsendReturns(p) \/ PtrecvReturns(p)
       \/ Dispose(p) \/ LetSendersGo(p) \/ LetReceiversGo(p) \/ PtclearReturns(p)

PortsSpec == PortsInit /\ [][PortsNext]_portsVars

-------------------------------------------------------------------------------
\* The messages of a port; those of one that is being cleared are in the hands
\* of the process that does it.
InPort(i) == IF ptstate[i] = "alloc" THEN ptlist[i] ELSE <<>>

\* Where a buffer can be: on the list of a pool, in a port, with a process that
\* has yet to dispose of it, or in a process's hands.
Places == ({"pool"} \X Pool) \cup ({"port"} \X Port) \cup ({"walk", "hands"} \X Client)
At(l) == CASE l[1] = "pool"  -> bpnext[l[2]]
           [] l[1] = "port"  -> InPort(l[2])
           [] l[1] = "walk"  -> walk[l[2]]
           [] l[1] = "hands" -> IF holds[l[2]] = NoBuf THEN <<>> ELSE <<holds[l[2]]>>

\* Every buffer of a pool is in one place, once, and nothing else is: sending,
\* resetting or deleting a port neither loses a buffer nor frees it twice.  A
\* buffer that is free is on the list of its own pool.
BufferOwnership ==
  /\ \A l \in Places : IsInjective(At(l))
  /\ \A l \in Places : \A b \in ToSet(At(l)), m \in Places : b \in ToSet(At(m)) => l = m
  /\ UNION {ToSet(At(l)) : l \in Places} = {b \in Buf : b[1] < nbpools}
  /\ \A k \in Pool : \A b \in ToSet(bpnext[k]) : b[1] = k

\* Those that a semaphore has let through and who have yet to go on.
Granted(what, i, s) == Cardinality({p \in Client :
  /\ doing[p] = what /\ on[p] = i /\ ~Queued(s, p)
  /\ what # "getbuf" => ptseq[i] = seq[p]})

\* The semaphores count what they are meant to count: that of a pool its free
\* buffers, that of the receivers the messages, that of the senders the places
\* left, each less those that were granted to a process which has not run yet.
\* A process that waited on a port before it was reset is not among them.
\* While there are none of these, ptcount tells the messages and the senders that
\* wait, or, of an empty port, the receivers.  A sender that was let through finds
\* a node for its message: ptsend does not panic.
CountsAccount ==
  /\ SumFunctionOnSet([i \in Port |-> Granted("send", i, ptssem[i])],
                      {j \in Port : ptstate[j] = "alloc"}) <= ptfree
  /\ \A k \in {m \in Pool : m < nbpools} :
       Len(bpnext[k]) = Avail(bpsem[k]) + Granted("getbuf", k, bpsem[k])
  /\ \A i \in {j \in Port : ptstate[j] = "alloc" /\ ptrsem[j].ok} :
       /\ Len(ptlist[i]) = Avail(ptrsem[i]) + Granted("recv", i, ptrsem[i])
       /\ ptmaxcnt[i] - Len(ptlist[i]) = Avail(ptssem[i]) + Granted("send", i, ptssem[i])
       /\ Granted("send", i, ptssem[i]) + Granted("recv", i, ptrsem[i]) = 0 =>
            Ptcount(i) = IF Ptcount(i) >= 0 THEN Len(ptlist[i]) + Len(ptssem[i].queue)
                         ELSE Len(ptlist[i]) - Len(ptrsem[i].queue)
===============================================================================
