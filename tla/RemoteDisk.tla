------------------------------ MODULE RemoteDisk ------------------------------
(***************************************************************************)
(* The remote disk: processes read, write and sync blocks through a queue  *)
(* of requests, a cache and a free list that share the same buffers; the   *)
(* process rdsprocess takes the requests one at a time to a server, over   *)
(* datagrams that may be lost, with sequence numbers and retries.          *)
(*                                                                         *)
(* A step of a process is a device call up to where it waits, which runs   *)
(* with interrupts disabled; a step of rdsprocess is what it does for one  *)
(* request up to where it waits for a reply, or from there on.  The        *)
(* contents of a block are the number of the write they come from.         *)
(***************************************************************************)
EXTENDS Integers, FiniteSetsExt, SequencesExt, Semaphores

CONSTANTS
  RdProc,     \* processes that use the disk
  RdBuffer,   \* the buffers: RD_BUFFS of them
  Blk,        \* block numbers; 0 is that of a sync request as well
  RdRetries,  \* RD_RETRIES
  MaxWrites,  \* bound on the writes
  MaxSeqNo,   \* bound on rd_seq
  NoBuffer,
  RdHazards   \* uses admitted: "late" datagrams, "shared" blocks, a sync among those that
              \* share block 0, "slow" readers, "steal", "close"

ASSUME RemoteDiskAssumption ==
  /\ IsFiniteSet(RdProc) /\ IsFiniteSet(RdBuffer) /\ Blk \subseteq Nat
  /\ {NoBuffer, "wait"} \cap RdBuffer = {} /\ NoBuffer # "ok"
  /\ RdRetries \in Nat \ {0} /\ MaxWrites \in Nat /\ MaxSeqNo \in Nat

VARIABLES
  rdstate,             \* rd_state
  rdbuf,               \* the headers and contents of the buffers
  rdreq, rdcache, rdfree,   \* request queue and cache from head to tail, free list
  availsem, reqsem,
  rdseq,
  comm,      \* what rdsprocess is doing: "wait", or an exchange for a buffer
  msgblk,    \* rd_blk of rdsprocess's message: NoBlk until a write set it
  exch,      \* the exchange with the server that rdscomm is in
  net,       \* datagrams under way
  disk,      \* the server's blocks
  rdcall,    \* the call a process is in, and for what
  rdmsg,     \* the message a process was sent: a buffer, or "ok"
  latest,    \* history: the last write queued for each block, 0 for none
  before,    \* history: what latest was when a process asked for a sync
  writes,    \* writes so far
  rdpanic,   \* whether panic was called, for want of "buffers" or of the "server"
  ruined     \* the request queue's pointers are wrong
listVars == <<rdbuf, rdreq, rdcache, rdfree, availsem, reqsem>>
exchVars == <<rdseq, exch, net>>
rdVars == <<rdstate, listVars, exchVars, comm, msgblk, disk, rdcall, rdmsg, latest, before, writes,
            rdpanic, ruined>>

NoBlk == -1
Idle == [op |-> "none", at |-> "", blk |-> NoBlk, data |-> 0]
Call(op, at, blk, data) == [op |-> op, at |-> at, blk |-> blk, data |-> data]
NoExchange == [type |-> "none", seq |-> 0, tries |-> 0]

Up == rdpanic = "no" /\ ~ruined

\* The processes run when rdsprocess waits for a request or for the server: its
\* priority, RD_PRIO, is higher than theirs.
Users == Up /\ ~(comm = "wait" /\ reqsem.count > 0)

\* Those that availsem has let through and who have yet to take a buffer.
Entitled == {p \in RdProc : rdcall[p].at = "alloc" /\ ~Queued(availsem, p)}

\* The calls with a block's number.  While a read is under way, rdsprocess takes any
\* other request with that number for a second read, and unlinks it with the wrong
\* neighbours: unless "shared" is admitted, reads and writes of a block wait until
\* nobody else is in one, and so do reads of block 0 and syncs, whose number is 0.
CallsFor(b) == {rdcall[p].op : p \in {q \in RdProc : rdcall[q].blk = b}}
MayRead(b) == CallsFor(b) = {} \/ "shared" \in RdHazards
MayWrite(b) == CallsFor(b) \subseteq {"sync"} \/ "shared" \in RdHazards
MaySync == "read" \notin CallsFor(0) \/ "shared" \in RdHazards

\* A reader whose block has come runs before others take buffers: until then
\* availsem counts the buffer that it refers to.
\* Nor is the disk used while it is deleted: rdsprocess would take the reply.
Prompt == \A p \in RdProc : rdcall[p].op = "read" => rdmsg[p] = NoBuffer
MayTake == Users /\ exch.type # "delete" /\ (Prompt \/ "slow" \in RdHazards)

(***************************************************************************)
(* Buffers.                                                                *)
(***************************************************************************)
\* Unlinked from the list it is on.
Without(list, b) ==
  IF b \in ToSet(list) THEN RemoveAt(list, CHOOSE i \in DOMAIN list : list[i] = b) ELSE list

\* Where the cache has those that no reader refers to; the last is the oldest.
Unused == {i \in DOMAIN rdcache : rdbuf[rdcache[i]].refcnt <= 0}

\* rdsbufalloc, once through its semaphore: a buffer from the free list, or the
\* oldest of the cache; none, and the system stops.
Rdsbufalloc ==
  IF rdfree # <<>> THEN {Head(rdfree)} ELSE IF Unused # {} THEN {rdcache[Max(Unused)]} ELSE {}

Header(op, blk, p, data) ==
  [op |-> op, refcnt |-> IF op = "write" THEN 0 ELSE 1, blk |-> blk,
   valid |-> op = "write", pid |-> p, data |-> data]

\* A request at the tail of the queue; a reader waits for a message, having
\* cleared what it had, a writer is done.
Request(p, op, blk, data, b) ==
  /\ rdbuf' = [rdbuf EXCEPT ![b] = Header(op, blk, p, data)]
  /\ rdreq' = Append(rdreq, b)
  /\ reqsem' = Signaled(reqsem)
  /\ rdcall' = [rdcall EXCEPT ![p] = IF op = "write" THEN Idle ELSE Call(op, "receive", blk, data)]
  /\ rdmsg' = [rdmsg EXCEPT ![p] = IF op = "write" THEN @ ELSE NoBuffer]
  /\ latest' = IF op = "write" THEN [latest EXCEPT ![blk] = data] ELSE latest

\* For a request at the tail of the queue.
Allocate(p, op, blk, data) ==
  \/ \E b \in Rdsbufalloc :
       /\ rdfree' = Without(rdfree, b) /\ rdcache' = Without(rdcache, b)
       /\ Request(p, op, blk, data, b)
       /\ UNCHANGED rdpanic
  \/ /\ Rdsbufalloc = {} /\ rdpanic' = "buffers"
     /\ UNCHANGED <<rdbuf, rdreq, rdcache, rdfree, reqsem, rdcall, rdmsg, latest>>

Enqueue(p, op, blk, data) ==
  IF availsem.count > 0
  THEN Allocate(p, op, blk, data)
  ELSE /\ rdcall' = [rdcall EXCEPT ![p] = Call(op, "alloc", blk, data)]
       /\ UNCHANGED <<rdbuf, rdreq, rdcache, rdfree, reqsem, rdmsg, rdpanic, latest>>

\* What a call was let through the semaphore for; what it found in the lists
\* before is not looked at again.
AllocReturns(p) ==
  LET c == rdcall[p] IN
  /\ MayTake /\ p \in Entitled
  /\ Allocate(p, c.op, c.blk, c.data)
  /\ UNCHANGED <<rdstate, availsem, exchVars, comm, msgblk, disk, before, writes, ruined>>

(***************************************************************************)
(* Reading, writing and syncing.                                           *)
(***************************************************************************)
Matching(list, blk) == {i \in DOMAIN list : rdbuf[list[i]].blk = blk}

\* What rdsread finds without asking the server: the first copy in the cache, if
\* it is valid, or else the last request in the queue, if it is a write.
InCache(blk) ==
  LET m == Matching(rdcache, blk)
  IN  IF m # {} /\ rdbuf[rdcache[Min(m)]].valid THEN {rdcache[Min(m)]} ELSE {}
InQueue(blk) ==
  LET m == Matching(rdreq, blk)
  IN  IF m # {} /\ rdbuf[rdreq[Max(m)]].op = "write" THEN {rdreq[Max(m)]} ELSE {}
AtHand(blk) == IF InCache(blk) # {} THEN InCache(blk) ELSE InQueue(blk)

Rdsread(p, blk) ==
  /\ MayTake /\ rdstate = "open" /\ rdcall[p] = Idle /\ AtHand(blk) = {} /\ MayRead(blk)
  /\ availsem' = Waits(availsem, p)
  /\ Enqueue(p, "read", blk, 0)
  /\ UNCHANGED <<rdstate, exchVars, comm, msgblk, disk, before, writes, ruined>>

\* The block has come.  A copy that is not the first in the cache was only kept
\* for this read, and goes to the free list with its last reader.  The search
\* runs off the list if a close has taken the buffer out of the cache.
RdsreadReturns(p) ==
  LET b == rdmsg[p]
      left == rdbuf[b].refcnt - 1
      earlier == {j \in DOMAIN rdcache : /\ \A i \in 1 .. j : rdcache[i] # b
                                         /\ rdbuf[rdcache[j]].blk = rdcall[p].blk}
  IN
  /\ Users /\ rdcall[p].op = "read" /\ rdcall[p].at = "receive" /\ b # NoBuffer
  /\ rdbuf' = [rdbuf EXCEPT ![b].refcnt = left]
  /\ IF left > 0 \/ earlier = {} THEN UNCHANGED <<rdcache, rdfree>>
     ELSE rdcache' = Without(rdcache, b) /\ rdfree' = <<b>> \o rdfree
  /\ ruined' = (left <= 0 /\ b \notin ToSet(rdcache))
  /\ rdcall' = [rdcall EXCEPT ![p] = Idle] /\ rdmsg' = [rdmsg EXCEPT ![p] = NoBuffer]
  /\ UNCHANGED <<rdstate, rdreq, availsem, reqsem, exchVars, comm, msgblk, disk, latest, before,
                 writes, rdpanic>>

\* rdswrite replaces the contents of a write that is queued, or takes the cached
\* copy if nobody reads it, and its unit of the semaphore, or a buffer.
Queuedwrite(blk) == {i \in Matching(rdreq, blk) : rdbuf[rdreq[i]].op = "write"}
Cachedcopy_Last(blk) ==
  LET m == Matching(rdcache, blk)
  IN  IF m # {} /\ rdbuf[rdcache[Max(m)]].refcnt <= 0 THEN {rdcache[Max(m)]} ELSE {}
Cachedcopy(blk) ==
  LET m == Matching(rdcache, blk)
  IN  IF m # {} /\ rdbuf[rdcache[Min(m)]].refcnt <= 0 THEN {rdcache[Min(m)]} ELSE {}

\* semreset to one less, which is refused when that is negative.
OneTaken_Not(sem) == sem
OneTaken(sem) == IF sem.count > 0 THEN Emptied(sem, sem.count - 1) ELSE sem

Rdswrite(p, blk) ==
  LET v == writes + 1 IN
  /\ MayTake /\ rdstate = "open" /\ rdcall[p] = Idle /\ writes < MaxWrites /\ MayWrite(blk)
  /\ writes' = v
  /\ IF Queuedwrite(blk) # {}
     THEN /\ rdbuf' = [rdbuf EXCEPT ![rdreq[Min(Queuedwrite(blk))]].data = v]
          /\ latest' = [latest EXCEPT ![blk] = v]
          /\ UNCHANGED <<rdreq, rdcache, rdfree, availsem, reqsem, rdcall, rdmsg, rdpanic>>
     ELSE IF Cachedcopy(blk) # {}
     THEN /\ availsem.count > 0 \/ "steal" \in RdHazards
          /\ rdcache' = Without(rdcache, CHOOSE b \in Cachedcopy(blk) : TRUE)
          /\ Request(p, "write", blk, v, CHOOSE b \in Cachedcopy(blk) : TRUE)
          /\ availsem' = OneTaken(availsem)
          /\ UNCHANGED <<rdfree, rdpanic>>
     ELSE availsem' = Waits(availsem, p) /\ Enqueue(p, "write", blk, v)
  /\ UNCHANGED <<rdstate, exchVars, comm, msgblk, disk, before, ruined>>

\* rdscontrol, RDS_CTL_SYNC: a request whose block number, "unused", is 0.
RdsSync(p) ==
  /\ MayTake /\ rdstate = "open" /\ rdcall[p] = Idle /\ MaySync
  /\ availsem' = Waits(availsem, p)
  /\ Enqueue(p, "sync", 0, 0)
  /\ before' = [before EXCEPT ![p] = latest]
  /\ UNCHANGED <<rdstate, exchVars, comm, msgblk, disk, writes, ruined>>

RdsSyncReturns(p) ==
  /\ Users /\ rdcall[p].op = "sync" /\ rdcall[p].at = "receive" /\ rdmsg[p] # NoBuffer
  /\ rdcall' = [rdcall EXCEPT ![p] = Idle] /\ rdmsg' = [rdmsg EXCEPT ![p] = NoBuffer]
  /\ UNCHANGED <<rdstate, listVars, exchVars, comm, msgblk, disk, latest, before, writes, rdpanic, ruined>>

(***************************************************************************)
(* rdscomm: one exchange with the server.                                  *)
(***************************************************************************)
Ask(type, blk, data) ==
  [kind |-> "request", type |-> type, seq |-> rdseq, blk |-> blk, data |-> data]

StartExchange(type, blk, data) ==
  /\ rdseq < MaxSeqNo /\ rdseq' = rdseq + 1
  /\ exch' = [type |-> type, seq |-> rdseq, tries |-> 1, ask |-> Ask(type, blk, data)]
  /\ net' = net \cup {Ask(type, blk, data)}

\* The server carries out a request each time it gets it.  Unless "late" is
\* admitted requests do not overtake each other, and a reply that comes in a
\* later exchange is not of its type.
InTime(m) == \/ "late" \in RdHazards
             \/ m.kind = "reply" /\ m.seq = exch.seq
             \/ m.kind = "request" /\ \A n \in net : n.kind = "request" => n.seq >= m.seq

Server(m) ==
  /\ Up /\ m \in net /\ m.kind = "request" /\ InTime(m)
  /\ disk' = IF m.type = "write" THEN [disk EXCEPT ![m.blk] = m.data] ELSE disk
  /\ net' = (net \ {m}) \cup {[m EXCEPT !.kind = "reply",
                                        !.data = IF m.type = "read" THEN disk[m.blk] ELSE 0]}
  /\ UNCHANGED <<rdstate, listVars, rdseq, exch, comm, msgblk, rdcall, rdmsg, latest, before, writes,
                 rdpanic, ruined>>

\* A reply is accepted when its type is right, even if its number is that of an
\* earlier exchange: then xmit is cleared, which matters only for a wrong type.
Accepts(m) == m.kind = "reply" /\ m.type = exch.type /\ m.seq <= exch.seq

\* The time for a reply has run out: the request is sent again, unless it was
\* the last try.  What is under way may be lost or may still arrive.
RdsTimeout ==
  /\ Up /\ exch # NoExchange /\ exch.tries < RdRetries
  /\ exch' = [exch EXCEPT !.tries = @ + 1]
  /\ \E kept \in {{}, net} : net' = kept \cup {exch.ask}
  /\ UNCHANGED <<rdstate, listVars, rdseq, comm, msgblk, disk, rdcall, rdmsg, latest, before, writes,
                 rdpanic, ruined>>

\* A reply of another type uses up a try; after one with an old number the
\* request is not sent again.
RdsIgnore(m) ==
  /\ Up /\ m \in net /\ exch # NoExchange /\ m.kind = "reply" /\ ~Accepts(m) /\ exch.tries < RdRetries
  /\ exch' = [exch EXCEPT !.tries = @ + 1]
  /\ net' = (net \ {m}) \cup (IF m.seq < exch.seq THEN {} ELSE {exch.ask})
  /\ UNCHANGED <<rdstate, listVars, rdseq, comm, msgblk, disk, rdcall, rdmsg, latest, before, writes,
                 rdpanic, ruined>>

(***************************************************************************)
(* rdsprocess.                                                             *)
(***************************************************************************)
Taking == Up /\ comm = "wait" /\ reqsem.count > 0

\* A read: rd_blk of the message is not set.  Before the first write it is what
\* the stack held, here any block.
StartRead ==
  LET b == Head(rdreq) IN
  /\ Taking /\ rdreq # <<>> /\ rdbuf[b].op = "read"
  /\ reqsem' = Waits(reqsem, "rdsprocess") /\ comm' = b
  /\ \E blk \in (IF msgblk = NoBlk THEN Blk ELSE {msgblk}) :
       msgblk' = blk /\ StartExchange("read", blk, 0)
  /\ UNCHANGED <<rdstate, rdbuf, rdreq, rdcache, rdfree, availsem, disk, rdcall, rdmsg, latest,
                 before, writes, rdpanic, ruined>>

\* The first other request with the number of the block, of whatever kind.
Sharing(b, queue) ==
  LET same == {i \in DOMAIN queue : rdbuf[queue[i]].blk = rdbuf[b].blk}
  IN  IF same = {} THEN {} ELSE {queue[Min(same)]}

\* The block goes from the queue to the head of the cache with one reader; its
\* status is not set.  The other request is answered with it as well, a sync too,
\* and unlinked with the wrong neighbours.
EndRead(m) ==
  LET b == comm
      queue == Tail(rdreq)
      other == Sharing(b, queue)
  IN
  /\ Up /\ m \in net /\ exch # NoExchange /\ exch.type = "read" /\ Accepts(m) /\ InTime(m)
  /\ net' = net \ {m} /\ exch' = NoExchange /\ comm' = "wait"
  /\ rdbuf' = [rdbuf EXCEPT ![b].data = m.data, ![b].refcnt = 1 + Cardinality(other)]
  /\ rdreq' = queue /\ rdcache' = <<b>> \o rdcache
  /\ availsem' = Signaled(availsem)
  /\ rdmsg' = [p \in RdProc |-> IF \E c \in {b} \cup other : rdbuf[c].pid = p THEN b ELSE rdmsg[p]]
  /\ ruined' = (other # {})
  /\ UNCHANGED <<rdstate, rdfree, reqsem, rdseq, msgblk, disk, rdcall, latest, before, writes, rdpanic>>

\* A write: the buffer goes to the cache, free to be used again, before its
\* copy is sent.
StartWrite ==
  LET b == Head(rdreq) IN
  /\ Taking /\ rdreq # <<>> /\ rdbuf[b].op = "write"
  /\ reqsem' = Waits(reqsem, "rdsprocess") /\ comm' = b
  /\ msgblk' = rdbuf[b].blk /\ StartExchange("write", rdbuf[b].blk, rdbuf[b].data)
  /\ rdreq' = Tail(rdreq) /\ rdcache' = <<b>> \o rdcache
  /\ availsem' = Signaled(availsem)
  /\ UNCHANGED <<rdstate, rdbuf, rdfree, disk, rdcall, rdmsg, latest, before, writes, rdpanic, ruined>>

EndWrite(m) ==
  /\ Up /\ m \in net /\ exch # NoExchange /\ exch.type = "write" /\ Accepts(m) /\ InTime(m)
  /\ net' = net \ {m} /\ exch' = NoExchange /\ comm' = "wait"
  /\ UNCHANGED <<rdstate, listVars, rdseq, msgblk, disk, rdcall, rdmsg, latest, before, writes, rdpanic, ruined>>

SyncReached ==
  LET b == Head(rdreq) IN
  /\ Taking /\ rdreq # <<>> /\ rdbuf[b].op = "sync"
  /\ reqsem' = Waits(reqsem, "rdsprocess")
  /\ rdmsg' = [rdmsg EXCEPT ![rdbuf[b].pid] = "ok"]
  /\ rdreq' = Tail(rdreq) /\ rdfree' = <<b>> \o rdfree
  /\ availsem' = Signaled(availsem)
  /\ UNCHANGED <<rdstate, rdbuf, rdcache, exchVars, comm, msgblk, disk, rdcall, latest, before, writes,
                 rdpanic, ruined>>

\* The tries are exhausted, or UDP refuses one of them, or the server reports an
\* error.  What is under way may still arrive.
GivesUp_Skips ==
  /\ Up /\ exch # NoExchange
  /\ rdstate' = (IF exch.type = "open" THEN "free" ELSE rdstate)
  /\ exch' = NoExchange /\ net' \in {{}, net} /\ comm' = "wait" /\ UNCHANGED rdpanic
  /\ UNCHANGED <<listVars, rdseq, msgblk, disk, rdcall, rdmsg, latest, before, writes, ruined>>
GivesUp ==
  /\ Up /\ exch # NoExchange
  /\ IF exch.type \in {"open", "delete"}
     THEN /\ rdstate' = IF exch.type = "open" THEN "free" ELSE rdstate
          /\ exch' = NoExchange /\ net' \in {{}, net} /\ comm' = "wait" /\ UNCHANGED rdpanic
     ELSE rdpanic' = "server" /\ UNCHANGED <<rdstate, exch, net, comm>>
  /\ UNCHANGED <<listVars, rdseq, msgblk, disk, rdcall, rdmsg, latest, before, writes, ruined>>

(***************************************************************************)
(* Opening and closing.                                                    *)
(***************************************************************************)
Rdsopen ==
  /\ Users /\ rdstate = "free" /\ exch = NoExchange
  /\ rdstate' = "pend"
  /\ StartExchange("open", 0, 0)
  /\ UNCHANGED <<listVars, comm, msgblk, disk, rdcall, rdmsg, latest, before, writes, rdpanic, ruined>>

\* rdsprocess waits in udp_recv, for the last write before a close: the request is
\* sent, but the slot has its reader, and udp_recv refuses another.
RdsopenRefused ==
  /\ Users /\ rdstate = "free" /\ exch # NoExchange /\ rdseq < MaxSeqNo
  /\ rdseq' = rdseq + 1 /\ net' = net \cup {Ask("open", 0, 0)}
  /\ UNCHANGED <<rdstate, listVars, exch, comm, msgblk, disk, rdcall, rdmsg, latest, before, writes,
                 rdpanic, ruined>>

RdsopenReturns(m) ==
  /\ Up /\ m \in net /\ exch # NoExchange /\ exch.type = "open" /\ Accepts(m) /\ InTime(m)
  /\ net' = net \ {m} /\ exch' = NoExchange
  /\ \E status \in {"open", "free"} : rdstate' = status
  /\ UNCHANGED <<listVars, rdseq, comm, msgblk, disk, rdcall, rdmsg, latest, before, writes, rdpanic, ruined>>

\* The queue must be empty; a reader that was sent its block but has not run yet
\* would lose it.
Closed ==
  /\ rdstate' = "free"
  /\ rdcache' = <<>> /\ rdfree' = Reverse(rdcache) \o rdfree
  /\ rdbuf' = [b \in RdBuffer |-> [rdbuf[b] EXCEPT !.valid = @ /\ b \notin ToSet(rdcache)]]
  /\ UNCHANGED <<rdreq, availsem, reqsem>>

Quiet == \A p \in RdProc : rdcall[p] = Idle

Rdsclose ==
  /\ Users /\ exch.type # "delete" /\ rdstate = "open" /\ rdreq = <<>> /\ (Quiet \/ "close" \in RdHazards)
  /\ Closed
  /\ UNCHANGED <<exchVars, comm, msgblk, disk, rdcall, rdmsg, latest, before, writes, rdpanic, ruined>>

\* rdscontrol, RDS_CTL_DEL: an exchange of the caller's own, then a close.
RdsDelete ==
  /\ MayTake /\ rdstate = "open" /\ rdreq = <<>> /\ Quiet /\ comm = "wait" /\ exch = NoExchange
  /\ StartExchange("delete", 0, 0)
  /\ UNCHANGED <<rdstate, listVars, comm, msgblk, disk, rdcall, rdmsg, latest, before, writes, rdpanic, ruined>>

RdsDeleteReturns(m) ==
  /\ Up /\ m \in net /\ exch # NoExchange /\ exch.type = "delete" /\ Accepts(m) /\ InTime(m)
  /\ net' = net \ {m} /\ exch' = NoExchange
  /\ Closed \/ UNCHANGED <<rdstate, listVars>>
  /\ UNCHANGED <<rdseq, comm, msgblk, disk, rdcall, rdmsg, latest, before, writes, rdpanic, ruined>>

\* rdsinit.
RdInit ==
  /\ rdstate = "free"
  /\ rdbuf = [b \in RdBuffer |-> [op |-> "none", refcnt |-> 0, blk |-> NoBlk, valid |-> FALSE,
                                  pid |-> NoBuffer, data |-> 0]]
  /\ rdreq = <<>> /\ rdcache = <<>> /\ rdfree = SetToSeq(RdBuffer)
  /\ availsem = NewSem(Cardinality(RdBuffer)) /\ reqsem = NewSem(0)
  /\ rdseq = 1 /\ comm = "wait" /\ msgblk = NoBlk /\ exch = NoExchange /\ net = {}
  /\ disk = [b \in Blk |-> 0] /\ latest = [b \in Blk |-> 0] /\ writes = 0
  /\ before = [p \in RdProc |-> [b \in Blk |-> 0]]
  /\ rdcall = [p \in RdProc |-> Idle] /\ rdmsg = [p \in RdProc |-> NoBuffer]
  /\ rdpanic = "no" /\ ruined = FALSE

RdNext ==
  \/ Rdsopen \/ RdsopenRefused \/ Rdsclose \/ RdsDelete
  \/ \E p \in RdProc :
       \/ \E blk \in Blk : Rdsread(p, blk) \/ Rdswrite(p, blk)
       \/ RdsSync(p) \/ AllocReturns(p) \/ RdsreadReturns(p) \/ RdsSyncReturns(p)
  \/ StartRead \/ StartWrite \/ SyncReached
  \/ RdsTimeout \/ GivesUp
  \/ \E m \in net :
       Server(m) \/ RdsIgnore(m) \/ EndRead(m) \/ EndWrite(m)
       \/ RdsopenReturns(m) \/ RdsDeleteReturns(m)

RdSpec == RdInit /\ [][RdNext]_rdVars

-------------------------------------------------------------------------------
\* Every buffer is on one of the three lists, and availsem counts those that are
\* free or cached, less those granted to a process that has yet to take one;
\* whoever was let through finds one: rdsbufalloc never panics.
BuffersAccounted ==
  /\ rdpanic # "buffers" /\ ~ruined
  /\ Up => Len(rdreq) + Len(rdcache) + Len(rdfree) = Cardinality(RdBuffer)
        /\ ToSet(rdreq) \cup ToSet(rdcache) \cup ToSet(rdfree) = RdBuffer
        /\ Len(rdfree) + Len(rdcache) = Avail(availsem) + Cardinality(Entitled)

\* What a read is given without asking the server is the last write accepted.
CacheFresh ==
  Up => \A blk \in Blk : \A b \in AtHand(blk) : rdbuf[b].data = latest[blk]

\* A sync returns, whatever it was sent, when the writes queued before it, or later
\* ones for the same blocks, are on the server's disk, whatever datagrams were lost.
SyncMeansWritten ==
  \A p \in RdProc : rdcall[p].op = "sync" /\ rdcall[p].at = "receive" /\ rdmsg[p] # NoBuffer =>
    \A blk \in Blk : disk[blk] >= before[p][blk]
===============================================================================
