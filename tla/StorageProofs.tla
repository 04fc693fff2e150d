----------------------------- MODULE StorageProofs -----------------------------
(***************************************************************************)
(* The remote disk: the proofs of BuffersAccounted, of CacheFresh and of   *)
(* SyncMeansWritten, for every number of processes, buffers, blocks, tries *)
(* and writes; the remote file system: the proof of ReadsWhatWasWritten.   *)
(*                                                                         *)
(* BuffersInv says where each buffer is and what for: which call each      *)
(* request of the queue is of, which reader each cached buffer that is     *)
(* referred to has, which copies of a block are current, and what          *)
(* availsem's count and queue mean.  The first two follow from it.  For    *)
(* the third, WrittenInv follows a write from the queue through the        *)
(* exchange to the server's disk, and orders the datagrams under way.      *)
(*                                                                         *)
(* RfInv, after them, relates the files of the server of remote files to   *)
(* what the acknowledged calls have left in them: the server carries out   *)
(* changes in the order of their numbers, if the network keeps that order  *)
(* ("late" is not admitted); the exchange under way is about the last of   *)
(* them, and those that are late can do nothing more.                      *)
(***************************************************************************)
EXTENDS RemoteDisk, RemoteFiles, CommonProofs

-------------------------------------------------------------------------------
(* The remote disk: the invariant of the buffers *)

\* The uses under which the buffers are accounted for; datagrams may be late.
Careful == RdHazards \cap {"shared", "slow", "steal", "close"} = {}

Kinds == {"none", "read", "write", "sync"}
Exchanges == {"open", "delete", "read", "write"}

\* The block that a call or a buffer is about: that of a sync has the number 0, which is
\* that of a block as well, but is about none.
About(op, blk) == IF op \in {"read", "write"} THEN blk ELSE NoBlk
On(r) == About(r.op, r.blk)
Numbered(r) == (r.op \in {"read", "write"} => r.blk \in Blk) /\ (r.op = "sync" => r.blk = 0)

Contents == {r \in [op : Kinds, refcnt : Int, blk : Int, valid : BOOLEAN,
                    pid : RdProc \cup {NoBuffer}, data : Nat] : Numbered(r)}
Places == {"", "alloc", "receive"}
Calls == {c \in [op : Kinds, at : Places, blk : Int, data : Nat] : Numbered(c)}
Datagrams == [kind : {"request", "reply"}, type : Exchanges, seq : Nat, blk : Blk \cup {0}, data : Nat]
Datagram == {m \in Datagrams : m.type \in {"read", "write"} => m.blk \in Blk}
Exchange == [type : Exchanges, seq : Nat, tries : Nat, ask : Datagram]

HoldTypes ==
  /\ rdbuf \in [RdBuffer -> Contents] /\ rdcall \in [RdProc -> Calls]
  /\ rdmsg \in [RdProc -> RdBuffer \cup {"ok", NoBuffer}]
  /\ rdreq \in Seq(RdBuffer) /\ rdcache \in Seq(RdBuffer) /\ rdfree \in Seq(RdBuffer)
  /\ latest \in [Blk -> Nat]
ServeTypes ==
  /\ disk \in [Blk -> Nat] /\ before \in [RdProc -> [Blk -> Nat]]
  /\ writes \in Nat /\ rdseq \in Nat /\ msgblk \in Blk \cup {NoBlk} /\ comm \in RdBuffer \cup {"wait"}
  /\ net \in SUBSET Datagram /\ exch \in Exchange \cup {NoExchange}
DiskTypes == HoldTypes /\ ServeTypes

\* Each buffer is on one list, once.
Requested == ToSet(rdreq)
Cached == ToSet(rdcache)
Spare == ToSet(rdfree)
Lists ==
  /\ IsInjective(rdreq) /\ IsInjective(rdcache) /\ IsInjective(rdfree)
  /\ Requested \cap Cached = {} /\ Requested \cap Spare = {}
  /\ Cached \cap Spare = {}
  /\ Requested \cup Cached \cup Spare = RdBuffer

\* Those who are about to take a buffer, or wait for one.
Allocating == {p \in RdProc : rdcall[p].at = "alloc"}
Available ==
  /\ SoundSem(RdProc, availsem) /\ availsem.ok /\ ToSet(availsem.queue) \subseteq Allocating
  /\ Len(rdfree) + Len(rdcache) = Units(Allocating, availsem)

\* The copies of a block that hold what was last written to it.
Current(blk) == {b \in Requested \cup Cached : rdbuf[b].valid /\ On(rdbuf[b]) = blk}

\* A call: nobody else is in one for its block, of which there is no current copy
\* and, as long as it has no buffer, no request.  A reader's block is cached for it.
CallOf(p) ==
  LET c == rdcall[p] IN
  /\ c.op = "none" <=> c.at = ""
  /\ c.op \in {"read", "write"} <=> On(c) # NoBlk
  /\ c.op = "none" => c = Idle
  /\ c.op = "write" => c.at = "alloc"
  /\ \A q \in RdProc : q # p /\ On(rdcall[q]) = On(c) => On(c) = NoBlk
  /\ rdmsg[p] # NoBuffer => c.at = "receive"
  /\ \A blk \in Blk : On(c) = blk /\ rdmsg[p] = NoBuffer => Current(blk) = {}
  /\ On(c) # NoBlk /\ c.at = "alloc" => \A b \in Requested : On(rdbuf[b]) # On(c)
  /\ c.op = "read" /\ rdmsg[p] # NoBuffer =>
       rdmsg[p] \in Cached /\ rdbuf[rdmsg[p]].pid = p /\ rdbuf[rdmsg[p]].refcnt = 1

\* A request in the queue: but for a write, a process waits for it, and for no other.
\* A read is the only request for its block.
RequestOf(b) ==
  LET r == rdbuf[b] IN
  /\ r.op # "none" /\ (r.op = "sync" <=> On(r) = NoBlk) /\ (r.valid <=> r.op = "write")
  /\ r.op = "write" => r.refcnt = 0
  /\ r.op # "write" =>
       /\ r.pid \in RdProc /\ rdcall[r.pid].op = r.op /\ rdcall[r.pid].at = "receive"
       /\ On(rdcall[r.pid]) = On(r) /\ rdmsg[r.pid] = NoBuffer
       /\ \A c \in Requested : c # b /\ rdbuf[c].op # "write" => rdbuf[c].pid # r.pid
  /\ r.op = "read" => \A c \in Requested : c # b => On(rdbuf[c]) # On(r)

\* A cached buffer that is referred to was sent to a reader that has yet to run; its
\* status is not valid.
CachedFor(b) ==
  LET r == rdbuf[b] IN
  /\ On(r) # NoBlk
  /\ r.refcnt > 0 => ~r.valid /\ r.pid \in RdProc /\ rdcall[r.pid].op = "read" /\ rdmsg[r.pid] = b

\* A block has one current copy at most, which is the first in the cache.
First(list) ==
  \A j \in 1 .. Len(list) : rdbuf[list[j]].valid =>
    \A i \in 1 .. j - 1 : On(rdbuf[list[i]]) # On(rdbuf[list[j]])
Copies ==
  /\ \A blk \in Blk : \A b, c \in Current(blk) : b = c
  /\ \A blk \in Blk : \A b \in Current(blk) : rdbuf[b].data = latest[blk]
  /\ First(rdcache)

\* What rdsprocess reads for is the head of the queue; a disk is deleted when
\* nobody uses it.
Process ==
  /\ comm = "wait" <=> exch.type \notin {"read", "write"}
  /\ exch.type = "read" => rdreq # <<>> /\ Head(rdreq) = comm /\ rdbuf[comm].op = "read"
  /\ exch.type = "delete" => rdreq = <<>> /\ Quiet

Shape ==
  /\ Lists /\ (\A p \in RdProc : CallOf(p))
  /\ (\A b \in Requested : RequestOf(b)) /\ (\A b \in Cached : CachedFor(b))
  /\ Copies /\ Process

\* Block 0 is not read while there is a sync, whose request has that number.
SyncsApart ==
  \A p, q \in RdProc : rdcall[p].op = "read" /\ rdcall[p].blk = 0 => rdcall[q].op # "sync"

BuffersInv == DiskTypes /\ Shape /\ Available /\ SyncsApart /\ rdpanic # "buffers" /\ ~ruined

-------------------------------------------------------------------------------
(* Lists *)

\* A list without a buffer.
LEMMA WithoutFacts ==
  ASSUME NEW s \in Seq(RdBuffer), IsInjective(s), NEW b
  PROVE  /\ Without(s, b) \in Seq(RdBuffer) /\ IsInjective(Without(s, b))
         /\ ToSet(Without(s, b)) = ToSet(s) \ {b}
         /\ b \in ToSet(s) => Len(Without(s, b)) = Len(s) - 1
         /\ b \notin ToSet(s) => Without(s, b) = s
         /\ First(s) => First(Without(s, b))
<1>1. CASE b \notin ToSet(s)
  <2>1. Without(s, b) = s
    BY <1>1 DEF Without
  <2> QED
    BY <1>1, <2>1
<1>2. CASE b \in ToSet(s)
  <2> DEFINE i == CHOOSE k \in DOMAIN s : s[k] = b
             r == RemoveAt(s, i)
  <2>1. i \in 1 .. Len(s) /\ s[i] = b
    BY <1>2 DEF ToSet
  <2>2. Without(s, b) = r
    BY <1>2 DEF Without
  <2> HIDE DEF i
  <2>3. /\ r \in Seq(RdBuffer) /\ Len(r) = Len(s) - 1 /\ Len(s) \in Nat
        /\ \A j \in 1 .. Len(s) - 1 : r[j] = s[IF j < i THEN j ELSE j + 1]
        /\ IsInjective(r) /\ ToSet(r) = ToSet(s) \ {b}
    BY <2>1, OneOut
  <2> HIDE DEF r
  <2>4. ASSUME First(s)
        PROVE  First(r)
    <3> DEFINE from(j) == IF j < i THEN j ELSE j + 1
    <3>1. /\ \A j \in 1 .. Len(r) : from(j) \in 1 .. Len(s) /\ r[j] = s[from(j)]
          /\ \A j \in 1 .. Len(r) : \A k \in 1 .. j - 1 :
               k \in 1 .. Len(r) /\ from(k) \in 1 .. from(j) - 1
      BY <2>1, <2>3
    <3> HIDE DEF from
    <3> SUFFICES ASSUME NEW j \in 1 .. Len(r), rdbuf[r[j]].valid, NEW k \in 1 .. j - 1
                 PROVE  On(rdbuf[r[k]]) # On(rdbuf[r[j]])
      BY DEF First
    <3>2. /\ r[j] = s[from(j)] /\ from(j) \in 1 .. Len(s)
          /\ r[k] = s[from(k)] /\ from(k) \in 1 .. from(j) - 1
      BY <3>1
    <3> QED
      BY <2>4, <3>2 DEF First
  <2> QED
    BY <1>2, <2>2, <2>3, <2>4
<1> QED
  BY <1>1, <1>2

\* One behind the others stays the first in front.
LEMMA AppendHead ==
  ASSUME NEW S, NEW s \in Seq(S), s # <<>>, NEW b \in S
  PROVE  Append(s, b) # <<>> /\ Head(Append(s, b)) = Head(s)
OBVIOUS

\* What the order of the cache depends on.
LEMMA FirstKept ==
  ASSUME NEW s \in Seq(RdBuffer), First(s),
         \A b \in ToSet(s) : rdbuf'[b].valid = rdbuf[b].valid /\ On(rdbuf'[b]) = On(rdbuf[b])
  PROVE  \A j \in 1 .. Len(s) : rdbuf'[s[j]].valid =>
           \A i \in 1 .. j - 1 : On(rdbuf'[s[i]]) # On(rdbuf'[s[j]])
<1>1. \A j \in 1 .. Len(s) : s[j] \in ToSet(s)
  BY DEF ToSet
<1> SUFFICES ASSUME NEW j \in 1 .. Len(s), rdbuf'[s[j]].valid, NEW i \in 1 .. j - 1
             PROVE  On(rdbuf'[s[i]]) # On(rdbuf'[s[j]])
  OBVIOUS
<1>2. i \in 1 .. Len(s) /\ s[i] \in ToSet(s) /\ s[j] \in ToSet(s)
  BY <1>1
<1> QED
  BY <1>2 DEF First

\* A buffer goes to the front.
LEMMA FirstPrepended ==
  ASSUME NEW s \in Seq(RdBuffer), First(s), NEW b \in RdBuffer,
         \A c \in ToSet(s) : rdbuf[c].valid => On(rdbuf[c]) # On(rdbuf[b])
  PROVE  First(<<b>> \o s)
<1> DEFINE t == <<b>> \o s
<1>1. /\ Len(t) = Len(s) + 1 /\ Len(s) \in Nat /\ t[1] = b
      /\ \A j \in 2 .. Len(s) + 1 : t[j] = s[j - 1] /\ j - 1 \in 1 .. Len(s)
  OBVIOUS
<1>2. \A j \in 1 .. Len(s) : s[j] \in ToSet(s)
  BY DEF ToSet
<1> HIDE DEF t
<1>3. ASSUME NEW j \in 1 .. Len(t), rdbuf[t[j]].valid, NEW i \in 1 .. j - 1
      PROVE  On(rdbuf[t[i]]) # On(rdbuf[t[j]])
  <2>1. j \in 2 .. Len(s) + 1 /\ t[j] = s[j - 1] /\ j - 1 \in 1 .. Len(s) /\ s[j - 1] \in ToSet(s)
    BY <1>1, <1>2
  <2>2. CASE i = 1
    BY <1>1, <1>3, <2>1, <2>2
  <2>3. CASE i # 1
    <3>1. i \in 2 .. Len(s) + 1 /\ t[i] = s[i - 1] /\ i - 1 \in 1 .. (j - 1) - 1
      BY <1>1, <2>1, <2>3
    <3> QED
      BY <1>3, <2>1, <3>1 DEF First
  <2> QED
    BY <2>2, <2>3
<1>4. First(t)
  BY <1>3 DEF First
<1> QED
  BY <1>4 DEF t

-------------------------------------------------------------------------------
(* Fields *)

\* What the types say of a buffer, of a call and of a datagram.
LEMMA FieldTypes ==
  ASSUME DiskTypes
  PROVE  /\ \A b \in RdBuffer :
              /\ rdbuf[b] \in Contents /\ rdbuf[b].op \in Kinds /\ rdbuf[b].refcnt \in Int
              /\ On(rdbuf[b]) \in Blk \cup {NoBlk} /\ rdbuf[b].valid \in BOOLEAN
              /\ rdbuf[b].pid \in RdProc \cup {NoBuffer} /\ rdbuf[b].data \in Nat
              /\ rdbuf[b].op \in {"read", "write"} => rdbuf[b].blk \in Blk /\ On(rdbuf[b]) = rdbuf[b].blk
              /\ rdbuf[b].op \notin {"read", "write"} => On(rdbuf[b]) = NoBlk
              /\ rdbuf[b].op = "sync" => rdbuf[b].blk = 0
         /\ \A p \in RdProc :
              /\ rdcall[p] \in Calls /\ rdcall[p].op \in Kinds /\ rdcall[p].at \in Places
              /\ On(rdcall[p]) \in Blk \cup {NoBlk} /\ rdcall[p].data \in Nat
              /\ rdcall[p].op \in {"read", "write"} => rdcall[p].blk \in Blk /\ On(rdcall[p]) = rdcall[p].blk
              /\ rdcall[p].op \notin {"read", "write"} => On(rdcall[p]) = NoBlk
              /\ rdcall[p].op = "sync" => rdcall[p].blk = 0
         /\ \A m \in net :
              /\ m \in Datagram /\ m.kind \in {"request", "reply"} /\ m.type \in Exchanges /\ m.seq \in Nat
              /\ m.blk \in Blk \cup {0} /\ m.data \in Nat /\ (m.type \in {"read", "write"} => m.blk \in Blk)
         /\ exch # NoExchange =>
              /\ exch \in Exchange /\ exch.type \in Exchanges /\ exch.seq \in Nat /\ exch.tries \in Nat
              /\ exch.ask \in Datagram
         /\ exch = NoExchange => exch.type = "none"
         /\ exch.type \in Exchanges => exch # NoExchange
<1>1. \A b \in RdBuffer : rdbuf[b] \in Contents
  BY DEF DiskTypes, HoldTypes
<1>2. \A b \in RdBuffer :
        /\ rdbuf[b].op \in Kinds /\ rdbuf[b].refcnt \in Int
        /\ On(rdbuf[b]) \in Blk \cup {NoBlk} /\ rdbuf[b].valid \in BOOLEAN
        /\ rdbuf[b].pid \in RdProc \cup {NoBuffer} /\ rdbuf[b].data \in Nat
        /\ rdbuf[b].op \in {"read", "write"} => rdbuf[b].blk \in Blk /\ On(rdbuf[b]) = rdbuf[b].blk
        /\ rdbuf[b].op \notin {"read", "write"} => On(rdbuf[b]) = NoBlk
        /\ rdbuf[b].op = "sync" => rdbuf[b].blk = 0
  BY <1>1 DEF Contents, Numbered, On, About
<1>3. \A p \in RdProc : rdcall[p] \in Calls
  BY DEF DiskTypes, HoldTypes
<1>4. \A p \in RdProc : /\ rdcall[p].op \in Kinds /\ rdcall[p].at \in Places
                        /\ On(rdcall[p]) \in Blk \cup {NoBlk} /\ rdcall[p].data \in Nat
                        /\ rdcall[p].op \in {"read", "write"} => rdcall[p].blk \in Blk /\ On(rdcall[p]) = rdcall[p].blk
                        /\ rdcall[p].op \notin {"read", "write"} => On(rdcall[p]) = NoBlk
                        /\ rdcall[p].op = "sync" => rdcall[p].blk = 0
  BY <1>3 DEF Calls, Numbered, On, About
<1>5. \A m \in net : m \in Datagram
  BY DEF DiskTypes, ServeTypes
<1>6. \A m \in net : /\ m.kind \in {"request", "reply"} /\ m.type \in Exchanges /\ m.seq \in Nat
                     /\ m.blk \in Blk \cup {0} /\ m.data \in Nat
                     /\ (m.type \in {"read", "write"} => m.blk \in Blk)
  BY <1>5 DEF Datagram, Datagrams
<1>7. exch # NoExchange =>
        /\ exch \in Exchange /\ exch.type \in Exchanges /\ exch.seq \in Nat /\ exch.tries \in Nat
        /\ exch.ask \in Datagram
  BY DEF DiskTypes, ServeTypes, Exchange
<1>8. exch = NoExchange => exch.type = "none"
  BY DEF NoExchange
<1>9. exch.type \in Exchanges => exch # NoExchange
  BY <1>8 DEF Exchanges
<1> QED
  BY <1>1, <1>2, <1>3, <1>4, <1>5, <1>6, <1>7, <1>8, <1>9

\* The assumptions on the constants.
LEMMA DiskBasics ==
  /\ IsFiniteSet(RdProc) /\ IsFiniteSet(RdBuffer) /\ Blk \subseteq Nat /\ Blk \subseteq Int /\ NoBlk \notin Blk /\ NoBlk \in Int
  /\ NoBuffer \notin RdBuffer /\ "wait" \notin RdBuffer /\ RdRetries \in Nat \ {0}
BY RemoteDiskAssumption DEF NoBlk

\* Calls, and what they are about.
LEMMA CallIs ==
  /\ Idle \in Calls /\ Idle.op = "none" /\ On(Idle) = NoBlk /\ Idle.at # "alloc"
  /\ \A op, at, blk, data :
       /\ Call(op, at, blk, data).op = op /\ Call(op, at, blk, data).at = at
       /\ Call(op, at, blk, data).blk = blk /\ Call(op, at, blk, data).data = data
       /\ On(Call(op, at, blk, data)) = About(op, blk)
  /\ \A op \in Kinds : \A at \in {"alloc", "receive"} : \A blk \in Int : \A data \in Nat :
       (op \in {"read", "write"} => blk \in Blk) /\ (op = "sync" => blk = 0) => Call(op, at, blk, data) \in Calls
<1>1. ASSUME NEW op \in Kinds, NEW at \in Places, NEW blk \in Int, NEW data \in Nat,
             op \in {"read", "write"} => blk \in Blk, op = "sync" => blk = 0
      PROVE  [op |-> op, at |-> at, blk |-> blk, data |-> data] \in Calls
  BY <1>1 DEF Calls, Numbered
<1>2. "" \in Places /\ "alloc" \in Places /\ "receive" \in Places
  BY Zenon DEF Places
<1>3. "none" \in Kinds /\ "none" \notin {"read", "write"} /\ "none" # "sync" /\ NoBlk \in Int /\ 0 \in Nat
  BY DiskBasics DEF Kinds
<1>4. Idle \in Calls
  BY <1>1, <1>2, <1>3, Zenon DEF Idle
<1>5. Idle.op = "none" /\ Idle.at # "alloc" /\ On(Idle) = NoBlk
  <2>1. Idle.op = "none" /\ Idle.at = "" /\ Idle.blk = NoBlk
    BY Zenon DEF Idle
  <2> QED
    BY <2>1, Zenon DEF On, About
<1>6. \A op, at, blk, data :
        /\ Call(op, at, blk, data).op = op /\ Call(op, at, blk, data).at = at
        /\ Call(op, at, blk, data).blk = blk /\ Call(op, at, blk, data).data = data
        /\ On(Call(op, at, blk, data)) = About(op, blk)
  BY DEF Call, On
<1>7. \A op \in Kinds : \A at \in {"alloc", "receive"} : \A blk \in Int : \A data \in Nat :
        (op \in {"read", "write"} => blk \in Blk) /\ (op = "sync" => blk = 0) => Call(op, at, blk, data) \in Calls
  BY <1>1, <1>2 DEF Call
<1> QED
  BY <1>4, <1>5, <1>6, <1>7

\* A header with another count of readers.
LEMMA Recounted ==
  ASSUME NEW x \in Contents, NEW n \in Int
  PROVE  LET r == [x EXCEPT !.refcnt = n] IN
         /\ r \in Contents /\ r.op = x.op /\ On(r) = On(x) /\ r.pid = x.pid /\ r.refcnt = n /\ r.valid = x.valid /\ r.data = x.data
<1> DEFINE r == [x EXCEPT !.refcnt = n]
<1>1. /\ x \in [op : Kinds, refcnt : Int, blk : Int, valid : BOOLEAN, pid : RdProc \cup {NoBuffer}, data : Nat]
      /\ Numbered(x)
  BY DEF Contents
<1>2. /\ r \in [op : Kinds, refcnt : Int, blk : Int, valid : BOOLEAN, pid : RdProc \cup {NoBuffer}, data : Nat]
      /\ r.op = x.op /\ r.blk = x.blk /\ r.pid = x.pid /\ r.refcnt = n /\ r.valid = x.valid /\ r.data = x.data
  BY <1>1
<1> HIDE DEF r
<1>3. Numbered(r) /\ On(r) = On(x)
  BY <1>1, <1>2 DEF Numbered, On
<1>4. r \in Contents
  BY <1>2, <1>3 DEF Contents
<1>5. /\ r \in Contents /\ r.op = x.op /\ On(r) = On(x) /\ r.pid = x.pid /\ r.refcnt = n /\ r.valid = x.valid /\ r.data = x.data
  BY <1>2, <1>3, <1>4
<1> QED
  BY <1>5 DEF r

\* Another status.
LEMMA Revalued ==
  ASSUME NEW x \in Contents, NEW v \in BOOLEAN
  PROVE  LET r == [x EXCEPT !.valid = v] IN
         /\ r \in Contents /\ r.op = x.op /\ On(r) = On(x) /\ r.pid = x.pid /\ r.valid = v /\ r.refcnt = x.refcnt /\ r.data = x.data
<1> DEFINE r == [x EXCEPT !.valid = v]
<1>1. /\ x \in [op : Kinds, refcnt : Int, blk : Int, valid : BOOLEAN, pid : RdProc \cup {NoBuffer}, data : Nat]
      /\ Numbered(x)
  BY DEF Contents
<1>2. /\ r \in [op : Kinds, refcnt : Int, blk : Int, valid : BOOLEAN, pid : RdProc \cup {NoBuffer}, data : Nat]
      /\ r.op = x.op /\ r.blk = x.blk /\ r.pid = x.pid /\ r.valid = v /\ r.refcnt = x.refcnt /\ r.data = x.data
  BY <1>1
<1> HIDE DEF r
<1>3. Numbered(r) /\ On(r) = On(x)
  BY <1>1, <1>2 DEF Numbered, On
<1>4. r \in Contents
  BY <1>2, <1>3 DEF Contents
<1>5. /\ r \in Contents /\ r.op = x.op /\ On(r) = On(x) /\ r.pid = x.pid /\ r.valid = v /\ r.refcnt = x.refcnt /\ r.data = x.data
  BY <1>2, <1>3, <1>4
<1> QED
  BY <1>5 DEF r

\* Other contents.
LEMMA Refilled ==
  ASSUME NEW x \in Contents, NEW d \in Nat
  PROVE  LET r == [x EXCEPT !.data = d] IN
         /\ r \in Contents /\ r.op = x.op /\ On(r) = On(x) /\ r.pid = x.pid /\ r.data = d /\ r.valid = x.valid /\ r.refcnt = x.refcnt
<1> DEFINE r == [x EXCEPT !.data = d]
<1>1. /\ x \in [op : Kinds, refcnt : Int, blk : Int, valid : BOOLEAN, pid : RdProc \cup {NoBuffer}, data : Nat]
      /\ Numbered(x)
  BY DEF Contents
<1>2. /\ r \in [op : Kinds, refcnt : Int, blk : Int, valid : BOOLEAN, pid : RdProc \cup {NoBuffer}, data : Nat]
      /\ r.op = x.op /\ r.blk = x.blk /\ r.pid = x.pid /\ r.data = d /\ r.valid = x.valid /\ r.refcnt = x.refcnt
  BY <1>1
<1> HIDE DEF r
<1>3. Numbered(r) /\ On(r) = On(x)
  BY <1>1, <1>2 DEF Numbered, On
<1>4. r \in Contents
  BY <1>2, <1>3 DEF Contents
<1>5. /\ r \in Contents /\ r.op = x.op /\ On(r) = On(x) /\ r.pid = x.pid /\ r.data = d /\ r.valid = x.valid /\ r.refcnt = x.refcnt
  BY <1>2, <1>3, <1>4
<1> QED
  BY <1>5 DEF r

\* The buffers of the lists.
LEMMA Listed ==
  ASSUME DiskTypes
  PROVE  /\ Requested \subseteq RdBuffer /\ Cached \subseteq RdBuffer /\ Spare \subseteq RdBuffer
         /\ Len(rdreq) \in Nat /\ Len(rdcache) \in Nat /\ Len(rdfree) \in Nat
         /\ \A i \in 1 .. Len(rdreq) : rdreq[i] \in Requested
         /\ \A i \in 1 .. Len(rdcache) : rdcache[i] \in Cached
         /\ rdreq = <<>> => Requested = {}
         /\ rdreq # <<>> => Head(rdreq) \in Requested
<1>1. rdreq \in Seq(RdBuffer) /\ rdcache \in Seq(RdBuffer) /\ rdfree \in Seq(RdBuffer)
  BY DEF DiskTypes, HoldTypes
<1>2. /\ DOMAIN rdreq = 1 .. Len(rdreq) /\ Len(rdreq) \in Nat
      /\ DOMAIN rdcache = 1 .. Len(rdcache) /\ Len(rdcache) \in Nat
      /\ DOMAIN rdfree = 1 .. Len(rdfree) /\ Len(rdfree) \in Nat
  BY <1>1
<1>3. /\ \A i \in 1 .. Len(rdreq) : rdreq[i] \in RdBuffer
      /\ \A i \in 1 .. Len(rdcache) : rdcache[i] \in RdBuffer
      /\ \A i \in 1 .. Len(rdfree) : rdfree[i] \in RdBuffer
  BY <1>1
<1>4. /\ Requested = {rdreq[i] : i \in 1 .. Len(rdreq)} /\ Cached = {rdcache[i] : i \in 1 .. Len(rdcache)}
      /\ Spare = {rdfree[i] : i \in 1 .. Len(rdfree)}
  BY <1>2 DEF Requested, Cached, Spare, ToSet
<1>5. rdreq = <<>> => Requested = {}
  BY DEF Requested, ToSet
<1>6. rdreq # <<>> => Head(rdreq) \in Requested
  BY <1>1, HeadOut DEF Requested
<1> QED
  BY <1>2, <1>3, <1>4, <1>5, <1>6

\* No reader was sent its block and has yet to run: nobody refers to a cached buffer.
LEMMA Unreferred ==
  ASSUME DiskTypes, \A b \in Cached : CachedFor(b), Prompt
  PROVE  \A b \in Cached : rdbuf[b].refcnt <= 0 /\ b \in RdBuffer
<1> SUFFICES ASSUME NEW b \in Cached
             PROVE  rdbuf[b].refcnt <= 0 /\ b \in RdBuffer
  OBVIOUS
<1>1. b \in RdBuffer /\ b # NoBuffer /\ rdbuf[b].refcnt \in Int
  BY Listed, FieldTypes, DiskBasics
<1>2. ~(rdbuf[b].refcnt > 0)
  BY <1>1 DEF CachedFor, Prompt
<1> QED
  BY <1>1, <1>2

\* A set of places has a last one.
LEMMA MaxPlace ==
  ASSUME NEW n \in Nat, NEW S \in SUBSET (1 .. n), S # {}
  PROVE  Max(S) \in S /\ \A i \in S : i <= Max(S)
<1> DEFINE T == {n - i : i \in S}
<1>1. T \in SUBSET Nat /\ T # {}
  <2>1. \A i \in S : n - i \in Nat
    OBVIOUS
  <2> QED
    BY <2>1
<1>2. PICK x \in T : \A y \in T : x <= y
  BY <1>1, Least
<1>3. PICK m \in S : x = n - m
  BY <1>2
<1>4. \A i \in S : n - i \in T /\ i \in Int
  OBVIOUS
<1>5. \A i \in S : n - m <= n - i
  BY <1>2, <1>3, <1>4
<1>6. \A i \in S : m >= i
  BY <1>3, <1>4, <1>5
<1>7. Max(S) \in S /\ \A i \in S : Max(S) >= i
  BY <1>3, <1>6 DEF Max
<1> QED
  BY <1>4, <1>7

\* And a first one.
LEMMA MinPlace ==
  ASSUME NEW n \in Nat, NEW S \in SUBSET (1 .. n), S # {}
  PROVE  Min(S) \in S /\ \A i \in S : Min(S) <= i
<1>1. S \in SUBSET Nat
  OBVIOUS
<1>2. PICK x \in S : \A y \in S : x <= y
  BY <1>1, Least
<1> QED
  BY <1>2 DEF Min

\* rdsbufalloc: what it takes is free, or cached and not referred to; if none is
\* referred to it finds one.
LEMMA BufallocFacts ==
  ASSUME DiskTypes
  PROVE  /\ \A b \in Rdsbufalloc : b \in Spare \/ (b \in Cached /\ rdbuf[b].refcnt <= 0)
         /\ /\ \A b \in Cached : rdbuf[b].refcnt <= 0
            /\ Len(rdfree) + Len(rdcache) >= 1
            => Rdsbufalloc # {}
<1>1. /\ rdfree \in Seq(RdBuffer) /\ rdcache \in Seq(RdBuffer) /\ Len(rdcache) \in Nat
      /\ \A i \in 1 .. Len(rdcache) : rdcache[i] \in Cached
  BY Listed DEF DiskTypes, HoldTypes
<1>2. CASE rdfree # <<>>
  <2>1. Rdsbufalloc = {Head(rdfree)}
    BY <1>2 DEF Rdsbufalloc
  <2>2. Head(rdfree) \in Spare
    BY <1>1, <1>2, HeadOut DEF Spare
  <2> QED
    BY <2>1, <2>2
<1>3. CASE rdfree = <<>>
  <2>1. Unused \in SUBSET (1 .. Len(rdcache)) /\ \A i \in Unused : rdbuf[rdcache[i]].refcnt <= 0
    BY <1>1 DEF Unused
  <2>2. Unused # {} => /\ Rdsbufalloc = {rdcache[Max(Unused)]} /\ Max(Unused) \in Unused
    BY <1>1, <1>3, <2>1, MaxPlace DEF Rdsbufalloc
  <2>3. Unused = {} => Rdsbufalloc = {}
    BY <1>3 DEF Rdsbufalloc
  <2>4. Unused # {} => rdcache[Max(Unused)] \in Cached /\ rdbuf[rdcache[Max(Unused)]].refcnt <= 0
    BY <1>1, <2>1, <2>2
  <2>5. ASSUME \A b \in Cached : rdbuf[b].refcnt <= 0, Len(rdfree) + Len(rdcache) >= 1
        PROVE  Unused # {}
    <3>1. Len(rdfree) = 0
      BY <1>3
    <3>2. 1 \in 1 .. Len(rdcache)
      BY <1>1, <2>5, <3>1
    <3>3. rdcache[1] \in Cached /\ rdbuf[rdcache[1]].refcnt <= 0
      BY <1>1, <2>5, <3>2
    <3>4. 1 \in Unused
      BY <3>2, <3>3 DEF Unused
    <3> QED
      BY <3>4
  <2> QED
    BY <2>2, <2>3, <2>4, <2>5
<1> QED
  BY <1>2, <1>3

-------------------------------------------------------------------------------
(* A request is queued *)

\* A process may ask for a block: nobody else is in a call for it, there is no
\* request for it, and no reader is about to run.
MayAsk(p, op, blk, data) ==
  /\ op \in {"read", "write", "sync"} /\ data \in Nat
  /\ IF op = "sync" THEN blk = 0 ELSE blk \in Blk
  /\ rdcall[p].at # "receive"
  /\ op # "sync" => /\ \A q \in RdProc : q # p => On(rdcall[q]) # blk
                    /\ \A c \in Requested : On(rdbuf[c]) # blk
  /\ Prompt /\ exch.type # "delete"

\* It asks with a buffer of the cache or of the free list, which is the only one that
\* may be current.
Asks(p, op, blk, data, b) ==
  /\ b \in Cached \cup Spare /\ (op # "sync" => Current(blk) \subseteq {b})
  /\ rdcache' = Without(rdcache, b) /\ rdfree' = Without(rdfree, b)
  /\ Request(p, op, blk, data, b)
  /\ UNCHANGED <<comm, exch>>

\* It does, or it waits for a buffer.
Goes(p, op, blk, data) ==
  /\ MayAsk(p, op, blk, data)
  /\ \/ \E b \in Cached \cup Spare : Asks(p, op, blk, data, b)
     \/ /\ rdcall' = [rdcall EXCEPT ![p] = Call(op, "alloc", blk, data)]
        /\ UNCHANGED <<rdbuf, rdreq, rdmsg, latest>>

\* Or what it writes takes the place of a write that is queued.
Replaces(blk, v) ==
  \E b \in Requested :
    /\ rdbuf[b].op = "write" /\ On(rdbuf[b]) = blk
    /\ rdbuf' = [rdbuf EXCEPT ![b].data = v] /\ latest' = [latest EXCEPT ![blk] = v]
    /\ UNCHANGED <<rdreq, rdcall, rdmsg>>

\* What the request is, and what is left alone.
LEMMA AsksFacts ==
  ASSUME DiskTypes, Lists, NEW p \in RdProc, NEW op, NEW blk, NEW data, NEW b,
         MayAsk(p, op, blk, data), Asks(p, op, blk, data, b)
  PROVE  /\ b \in RdBuffer /\ b \notin Requested
         /\ rdbuf' \in [RdBuffer -> Contents] /\ rdcall' \in [RdProc -> Calls]
         /\ rdmsg' \in [RdProc -> RdBuffer \cup {"ok", NoBuffer}] /\ latest' \in [Blk -> Nat]
         /\ rdreq' \in Seq(RdBuffer) /\ rdcache' \in Seq(RdBuffer) /\ rdfree' \in Seq(RdBuffer)
         /\ rdbuf'[b].op = op /\ On(rdbuf'[b]) = About(op, blk) /\ rdbuf'[b].data = data
         /\ (rdbuf'[b].valid <=> op = "write") /\ rdbuf'[b].pid = p
         /\ (op = "write" => rdbuf'[b].refcnt = 0)
         /\ \A c \in RdBuffer : c # b => rdbuf'[c] = rdbuf[c]
         /\ rdcall'[p] = (IF op = "write" THEN Idle ELSE Call(op, "receive", blk, data))
         /\ rdmsg'[p] = (IF op = "write" THEN rdmsg[p] ELSE NoBuffer)
         /\ \A q \in RdProc : q # p => rdcall'[q] = rdcall[q] /\ rdmsg'[q] = rdmsg[q]
         /\ \A x \in Blk : latest'[x] = (IF op = "write" /\ x = blk THEN data ELSE latest[x])
<1>1. b \in RdBuffer /\ b \notin Requested
  BY Listed DEF Asks, Lists
<1>2. /\ data \in Nat /\ op \in Kinds /\ op \in {"read", "write", "sync"}
      /\ (op # "sync" => blk \in Blk) /\ (op = "sync" => blk = 0) /\ blk \in Int
  <2>1. /\ data \in Nat /\ op \in {"read", "write", "sync"}
        /\ (op # "sync" => blk \in Blk) /\ (op = "sync" => blk = 0)
    BY DEF MayAsk
  <2>2. op \in Kinds
    BY <2>1 DEF Kinds
  <2>3. blk \in Int
    <3>1. CASE op = "sync"
      BY <2>1, <3>1
    <3>2. CASE op # "sync"
      BY <2>1, <3>2, DiskBasics
    <3> QED
      BY <3>1, <3>2
  <2> QED
    BY <2>1, <2>2, <2>3
<1> DEFINE h == Header(op, blk, p, data)
           c == IF op = "write" THEN Idle ELSE Call(op, "receive", blk, data)
<1>3. /\ h \in Contents /\ h.op = op /\ On(h) = About(op, blk) /\ h.data = data /\ (h.valid <=> op = "write")
      /\ h.pid = p /\ (op = "write" => h.refcnt = 0)
  <2> DEFINE v == op = "write"
             n == IF op = "write" THEN 0 ELSE 1
  <2>1. h = [op |-> op, refcnt |-> n, blk |-> blk, valid |-> v, pid |-> p, data |-> data]
    BY DEF Header
  <2>2. v \in BOOLEAN /\ n \in Int /\ (op = "write" => n = 0)
    OBVIOUS
  <2> HIDE DEF v, n
  <2>3. h \in Contents /\ h.valid = v /\ h.refcnt = n
    BY <1>2, <2>1, <2>2 DEF Contents, Numbered
  <2>4. h.op = op /\ On(h) = About(op, blk) /\ h.data = data /\ h.pid = p
    BY <2>1 DEF On
  <2> QED
    BY <2>2, <2>3, <2>4 DEF v
<1>4. c \in Calls
  <2>1. op \in {"read", "write"} => blk \in Blk
    BY <1>2
  <2> QED
    BY <1>2, <2>1, CallIs
<1> HIDE DEF h, c
<1>5. /\ rdbuf' = [rdbuf EXCEPT ![b] = h] /\ rdcall' = [rdcall EXCEPT ![p] = c]
      /\ rdmsg' = [rdmsg EXCEPT ![p] = IF op = "write" THEN @ ELSE NoBuffer]
      /\ latest' = IF op = "write" THEN [latest EXCEPT ![blk] = data] ELSE latest
      /\ rdreq' = Append(rdreq, b)
  BY DEF Asks, Request, h, c
<1>6. /\ rdbuf \in [RdBuffer -> Contents] /\ rdcall \in [RdProc -> Calls]
      /\ rdmsg \in [RdProc -> RdBuffer \cup {"ok", NoBuffer}] /\ latest \in [Blk -> Nat]
      /\ rdreq \in Seq(RdBuffer) /\ rdcache \in Seq(RdBuffer) /\ rdfree \in Seq(RdBuffer)
  BY DEF DiskTypes, HoldTypes
<1>7. /\ rdbuf' \in [RdBuffer -> Contents] /\ rdbuf'[b] = h
      /\ \A x \in RdBuffer : x # b => rdbuf'[x] = rdbuf[x]
  BY <1>1, <1>3, <1>5, <1>6
<1>8. /\ rdcall' \in [RdProc -> Calls] /\ rdcall'[p] = c
      /\ \A q \in RdProc : q # p => rdcall'[q] = rdcall[q]
  BY <1>4, <1>5, <1>6
<1>9. /\ rdmsg' \in [RdProc -> RdBuffer \cup {"ok", NoBuffer}]
      /\ rdmsg'[p] = (IF op = "write" THEN rdmsg[p] ELSE NoBuffer)
      /\ \A q \in RdProc : q # p => rdmsg'[q] = rdmsg[q]
  BY <1>5, <1>6
<1>10. /\ latest' \in [Blk -> Nat]
       /\ \A x \in Blk : latest'[x] = (IF op = "write" /\ x = blk THEN data ELSE latest[x])
  BY <1>2, <1>5, <1>6
<1>11. rdreq' \in Seq(RdBuffer)
  BY <1>1, <1>5, <1>6, AppendIn
<1>12. rdcache' \in Seq(RdBuffer) /\ rdfree' \in Seq(RdBuffer)
  BY <1>6, WithoutFacts DEF Asks, Lists
<1> QED
  BY <1>1, <1>3, <1>7, <1>8, <1>9, <1>10, <1>11, <1>12 DEF c

\* The buffer is on the queue now, and on no other list.
LEMMA AsksLists ==
  ASSUME DiskTypes, Lists, NEW p \in RdProc, NEW op, NEW blk, NEW data, NEW b,
         MayAsk(p, op, blk, data), Asks(p, op, blk, data, b)
  PROVE  /\ Lists' /\ Len(rdfree') + Len(rdcache') = Len(rdfree) + Len(rdcache) - 1
         /\ Requested' = Requested \cup {b} /\ Cached' = Cached \ {b} /\ Spare' = Spare \ {b}
         /\ rdreq' # <<>> /\ (rdreq # <<>> => Head(rdreq') = Head(rdreq))
<1>1. b \in RdBuffer /\ b \notin Requested
  BY AsksFacts
<1>2. /\ rdreq \in Seq(RdBuffer) /\ rdcache \in Seq(RdBuffer) /\ rdfree \in Seq(RdBuffer)
      /\ IsInjective(rdreq) /\ IsInjective(rdcache) /\ IsInjective(rdfree)
      /\ Len(rdreq) \in Nat /\ Len(rdcache) \in Nat /\ Len(rdfree) \in Nat
  BY Listed DEF DiskTypes, HoldTypes, Lists
<1>3. rdreq' = Append(rdreq, b) /\ rdcache' = Without(rdcache, b) /\ rdfree' = Without(rdfree, b)
  BY DEF Asks, Request
<1>4. ToSet(rdreq') = ToSet(rdreq) \cup {b} /\ IsInjective(rdreq')
  BY <1>1, <1>2, <1>3, AppendIn DEF Requested
<1>5. /\ ToSet(rdcache') = ToSet(rdcache) \ {b} /\ IsInjective(rdcache')
      /\ ToSet(rdfree') = ToSet(rdfree) \ {b} /\ IsInjective(rdfree')
      /\ b \in ToSet(rdcache) => Len(rdcache') = Len(rdcache) - 1
      /\ b \notin ToSet(rdcache) => rdcache' = rdcache
      /\ b \in ToSet(rdfree) => Len(rdfree') = Len(rdfree) - 1
      /\ b \notin ToSet(rdfree) => rdfree' = rdfree
  BY <1>2, <1>3, WithoutFacts
<1>6. /\ (b \in ToSet(rdcache) /\ b \notin ToSet(rdfree)) \/ (b \notin ToSet(rdcache) /\ b \in ToSet(rdfree))
      /\ Lists
  BY DEF Asks, Lists, Cached, Spare
<1>7. Len(rdfree') + Len(rdcache') = Len(rdfree) + Len(rdcache) - 1
  BY <1>2, <1>5, <1>6
<1>8. Requested' = Requested \cup {b} /\ Cached' = Cached \ {b} /\ Spare' = Spare \ {b}
  BY <1>4, <1>5 DEF Requested, Cached, Spare
<1>9. Lists'
  BY <1>1, <1>4, <1>5, <1>6, <1>8 DEF Lists
<1>10. rdreq' # <<>> /\ (rdreq # <<>> => Head(rdreq') = Head(rdreq))
  BY <1>1, <1>2, <1>3, AppendHead
<1> QED
  BY <1>7, <1>8, <1>9, <1>10

\* The current copies: the others as they were, and the new one if it is a write.
LEMMA AsksCurrent ==
  ASSUME DiskTypes, Lists, NEW p \in RdProc, NEW op, NEW blk, NEW data, NEW b,
         MayAsk(p, op, blk, data), Asks(p, op, blk, data, b)
  PROVE  /\ \A x \in Blk : x # About(op, blk) => Current(x)' \subseteq Current(x)
         /\ op # "sync" => Current(blk)' \subseteq {b} /\ (op # "write" => Current(blk)' = {})
<1> DEFINE k == About(op, blk)
<1>1. /\ Requested' = Requested \cup {b} /\ Cached' = Cached \ {b}
      /\ Requested \subseteq RdBuffer /\ Cached \subseteq RdBuffer
  BY AsksLists, Listed
<1>2. /\ \A c \in RdBuffer : c # b => rdbuf'[c] = rdbuf[c]
      /\ On(rdbuf'[b]) = k /\ (rdbuf'[b].valid <=> op = "write")
  BY AsksFacts
<1>3. op # "sync" => k = blk /\ Current(k) \subseteq {b}
  BY DEF Asks, MayAsk, About
<1> HIDE DEF k
<1>4. ASSUME NEW x, x # k
      PROVE  Current(x)' \subseteq Current(x)
  BY <1>1, <1>2, <1>4 DEF Current
<1>5. ASSUME op # "sync"
      PROVE  Current(k)' \subseteq {b} /\ (op # "write" => Current(k)' = {})
  <2>1. \A c \in Current(k)' : c = b
    <3> SUFFICES ASSUME NEW c \in Current(k)', c # b
                 PROVE  c \in Current(k)
      BY <1>3, <1>5
    <3> QED
      BY <1>1, <1>2 DEF Current
  <2>2. b \in Current(k)' => rdbuf'[b].valid
    BY DEF Current
  <2> QED
    BY <1>2, <2>1, <2>2
<1> QED
  BY <1>3, <1>4, <1>5 DEF k

\* Everything has its place.
LEMMA AsksShape ==
  ASSUME DiskTypes, Shape, NEW p \in RdProc, NEW op, NEW blk, NEW data, NEW b,
         MayAsk(p, op, blk, data), Asks(p, op, blk, data, b)
  PROVE  Shape'
<1> DEFINE k == About(op, blk)
<1>1. Lists /\ Copies /\ Process /\ \A q \in RdProc : CallOf(q)
  BY DEF Shape
<1>2. /\ b \in RdBuffer /\ b \notin Requested
      /\ rdbuf'[b].op = op /\ On(rdbuf'[b]) = k /\ rdbuf'[b].data = data
      /\ (rdbuf'[b].valid <=> op = "write") /\ rdbuf'[b].pid = p
      /\ (op = "write" => rdbuf'[b].refcnt = 0)
      /\ \A c \in RdBuffer : c # b => rdbuf'[c] = rdbuf[c]
      /\ rdcall'[p] = (IF op = "write" THEN Idle ELSE Call(op, "receive", blk, data))
      /\ rdmsg'[p] = (IF op = "write" THEN rdmsg[p] ELSE NoBuffer)
      /\ \A q \in RdProc : q # p => rdcall'[q] = rdcall[q] /\ rdmsg'[q] = rdmsg[q]
      /\ \A x \in Blk : latest'[x] = (IF op = "write" /\ x = blk THEN data ELSE latest[x])
  BY <1>1, AsksFacts
<1>3. /\ Lists' /\ Requested' = Requested \cup {b} /\ Cached' = Cached \ {b}
      /\ Requested \subseteq RdBuffer /\ Cached \subseteq RdBuffer
      /\ rdreq' # <<>> /\ (rdreq # <<>> => Head(rdreq') = Head(rdreq))
  BY <1>1, AsksLists, Listed
<1>4. /\ \A x \in Blk : x # k => Current(x)' \subseteq Current(x)
      /\ k # NoBlk => Current(k)' \subseteq {b} /\ (op # "write" => Current(k)' = {})
  <2>1. /\ \A x \in Blk : x # k => Current(x)' \subseteq Current(x)
        /\ op # "sync" => Current(blk)' \subseteq {b} /\ (op # "write" => Current(blk)' = {})
    BY <1>1, AsksCurrent
  <2>2. k # NoBlk => op # "sync" /\ k = blk
    BY DEF About
  <2> HIDE DEF k
  <2> QED
    BY <2>1, <2>2
<1>5. /\ op \in {"read", "write", "sync"} /\ k \in Blk \cup {NoBlk} /\ (op = "sync" <=> k = NoBlk)
      /\ k # NoBlk => k = blk
      /\ rdcall[p].at # "receive" /\ rdmsg[p] = NoBuffer /\ NoBlk \notin Blk
      /\ \A q \in RdProc : q # p /\ On(rdcall[q]) = k => k = NoBlk
      /\ k # NoBlk => \A c \in Requested : On(rdbuf[c]) # k
      /\ \A q \in RdProc : rdcall[q].op = "read" => rdmsg[q] = NoBuffer
      /\ exch.type # "delete" /\ comm' = comm /\ exch' = exch
  BY <1>1, DiskBasics DEF MayAsk, Asks, Prompt, CallOf, About
<1>6. ASSUME NEW q \in RdProc
      PROVE  CallOf(q)'
  <2>1. CASE q = p
    <3>1. rdmsg'[p] = NoBuffer
      BY <1>2, <1>5
    <3>2. \A x \in RdProc : x # p /\ On(rdcall'[x]) = k => k = NoBlk
      BY <1>2, <1>5
    <3>3. CASE op = "write"
      <4>1. rdcall'[p] = Idle /\ Idle.op = "none" /\ Idle.at = "" /\ On(Idle) = NoBlk
        <5>1. Idle.at = ""
          BY Zenon DEF Idle
        <5> QED
          BY <1>2, <3>3, <5>1, CallIs, Zenon
      <4> QED
        BY <1>5, <2>1, <3>1, <4>1 DEF CallOf
    <3>4. CASE op # "write"
      <4>1. rdcall'[p].op = op /\ rdcall'[p].at = "receive" /\ On(rdcall'[p]) = k
        <5>1. rdcall'[p] = Call(op, "receive", blk, data)
          BY <1>2, <3>4
        <5> QED
          BY <5>1, CallIs
      <4>2. k # NoBlk => Current(k)' = {}
        BY <1>4, <3>4
      <4> QED
        BY <1>5, <2>1, <3>1, <3>2, <3>4, <4>1, <4>2 DEF CallOf
    <3> QED
      BY <3>3, <3>4
  <2>2. CASE q # p
    <3> DEFINE c == rdcall[q]
    <3>1. rdcall'[q] = c /\ rdmsg'[q] = rdmsg[q]
      BY <1>2, <2>2
    <3>2. /\ c.op = "none" <=> c.at = ""
          /\ c.op \in {"read", "write"} <=> On(c) # NoBlk
          /\ c.op = "none" => c = Idle
          /\ c.op = "write" => c.at = "alloc"
          /\ \A x \in RdProc : x # q /\ On(rdcall[x]) = On(c) => On(c) = NoBlk
          /\ rdmsg[q] # NoBuffer => c.at = "receive"
          /\ \A x \in Blk : On(c) = x /\ rdmsg[q] = NoBuffer => Current(x) = {}
          /\ On(c) # NoBlk /\ c.at = "alloc" => \A y \in Requested : On(rdbuf[y]) # On(c)
          /\ c.op = "read" => rdmsg[q] = NoBuffer
      BY <1>1, <1>5 DEF CallOf
    <3>3. On(c) # NoBlk => On(c) # k /\ On(c) \in Blk
      BY <1>5, <2>2, FieldTypes
    <3>4. On(rdcall'[p]) \in {k, NoBlk}
      <4>1. On(Idle) = NoBlk /\ On(Call(op, "receive", blk, data)) = k
        BY CallIs
      <4> QED
        BY <1>2, <4>1
    <3> HIDE DEF c
    <3>5. \A x \in RdProc : x # q /\ On(rdcall'[x]) = On(c) => On(c) = NoBlk
      BY <1>2, <3>2, <3>3, <3>4, ZenonT(30)
    <3>6. \A x \in Blk : On(c) = x /\ rdmsg[q] = NoBuffer => Current(x)' = {}
      BY <1>4, <1>5, <3>2, <3>3
    <3>7. On(c) # NoBlk /\ c.at = "alloc" => \A y \in Requested' : On(rdbuf'[y]) # On(c)
      BY <1>2, <1>3, <3>2, <3>3
    <3> QED
      BY <3>1, <3>2, <3>5, <3>6, <3>7 DEF CallOf
  <2> QED
    BY <2>1, <2>2
<1>7. ASSUME NEW c \in Requested'
      PROVE  RequestOf(c)'
  <2>1. CASE c = b
    <3>1. rdbuf'[c].op # "write" => rdcall'[p].op = op /\ rdcall'[p].at = "receive"
                                    /\ On(rdcall'[p]) = k /\ rdmsg'[p] = NoBuffer
      <4>1. op # "write" => rdcall'[p] = Call(op, "receive", blk, data)
        BY <1>2
      <4>2. op # "write" => rdcall'[p].op = op /\ rdcall'[p].at = "receive" /\ On(rdcall'[p]) = k
        BY <4>1, CallIs
      <4> QED
        BY <1>2, <1>5, <2>1, <4>2, Zenon
    <3>2. \A x \in Requested' : x # b /\ rdbuf'[x].op # "write" => rdbuf'[x].pid # p
      <4> SUFFICES ASSUME NEW x \in Requested, x # b, rdbuf[x].op # "write"
                   PROVE  rdbuf[x].pid # p
        BY <1>2, <1>3
      <4>1. rdcall[rdbuf[x].pid].at = "receive"
        BY DEF Shape, RequestOf
      <4> QED
        BY <1>5, <4>1
    <3>3. op = "read" => \A x \in Requested' : x # b => On(rdbuf'[x]) # k
      BY <1>2, <1>3, <1>5
    <3> QED
      BY <1>2, <1>5, <2>1, <3>1, <3>2, <3>3 DEF RequestOf
  <2>2. CASE c # b
    <3> DEFINE r == rdbuf[c]
    <3>1. c \in Requested /\ rdbuf'[c] = r
      BY <1>2, <1>3, <2>2
    <3>2. RequestOf(c)
      BY <3>1 DEF Shape
    <3>3. /\ r.op # "none" /\ (r.op = "sync" <=> On(r) = NoBlk) /\ (r.valid <=> r.op = "write")
          /\ r.op = "write" => r.refcnt = 0
          /\ r.op # "write" =>
               /\ r.pid \in RdProc /\ rdcall[r.pid].op = r.op /\ rdcall[r.pid].at = "receive"
               /\ On(rdcall[r.pid]) = On(r) /\ rdmsg[r.pid] = NoBuffer
               /\ \A x \in Requested : x # c /\ rdbuf[x].op # "write" => rdbuf[x].pid # r.pid
          /\ r.op = "read" => \A x \in Requested : x # c => On(rdbuf[x]) # On(r)
      BY <3>2 DEF RequestOf
    <3>4. k # NoBlk => On(r) # k
      BY <1>5, <3>1
    <3> HIDE DEF r
    <3>5. r.op # "write" => r.pid # p
      BY <1>5, <3>3
    <3>6. r.op # "write" =>
            /\ rdcall'[r.pid].op = r.op /\ rdcall'[r.pid].at = "receive"
            /\ On(rdcall'[r.pid]) = On(r) /\ rdmsg'[r.pid] = NoBuffer
      BY <1>2, <3>3, <3>5
    <3>7. r.op # "write" => \A x \in Requested' : x # c /\ rdbuf'[x].op # "write" => rdbuf'[x].pid # r.pid
      BY <1>2, <1>3, <3>3, <3>5
    <3>8. r.op = "read" => \A x \in Requested' : x # c => On(rdbuf'[x]) # On(r)
      BY <1>2, <1>3, <3>3, <3>4
    <3> QED
      BY <3>1, <3>3, <3>6, <3>7, <3>8 DEF RequestOf
  <2> QED
    BY <2>1, <2>2
<1>8. ASSUME NEW c \in Cached'
      PROVE  CachedFor(c)'
  <2>1. c \in Cached /\ rdbuf'[c] = rdbuf[c]
    BY <1>2, <1>3
  <2>2. CachedFor(c) /\ rdbuf[c].refcnt <= 0 /\ rdbuf[c].refcnt \in Int
    BY <2>1, Unreferred, FieldTypes DEF Shape, MayAsk
  <2> QED
    BY <2>1, <2>2 DEF CachedFor
<1>9. Copies'
  <2>1. /\ \A x \in Blk : \A y, z \in Current(x) : y = z
        /\ \A x \in Blk : \A y \in Current(x) : rdbuf[y].data = latest[x]
        /\ First(rdcache)
    BY <1>1 DEF Copies
  <2>2. \A x \in Blk : \A y, z \in Current(x)' : y = z
    BY <1>4, <1>5, <2>1
  <2>3. ASSUME NEW x \in Blk, NEW y \in Current(x)'
        PROVE  rdbuf'[y].data = latest'[x]
    <3>1. CASE x = k
      <4>1. k # NoBlk /\ k = blk
        BY <1>5, <2>3, <3>1
      <4>2. y = b /\ op = "write"
        BY <1>4, <2>3, <3>1, <4>1
      <4> HIDE DEF k
      <4> QED
        BY <1>2, <3>1, <4>1, <4>2
    <3>2. CASE x # k
      <4>1. y \in Current(x) /\ latest'[x] = latest[x]
        <5>1. op = "write" => k = blk
          BY <1>5
        <5> HIDE DEF k
        <5> QED
          BY <1>2, <1>4, <2>3, <3>2, <5>1
      <4>2. y \in RdBuffer /\ On(rdbuf[y]) = x
        BY <1>3, <4>1 DEF Current
      <4>3. On(rdbuf'[y]) = x
        BY <2>3 DEF Current
      <4>4. y # b
        BY <1>2, <3>2, <4>3
      <4> QED
        BY <1>2, <2>1, <4>1, <4>2, <4>4
    <3> QED
      BY <1>1, <3>1, <3>2
  <2>4. First(rdcache)'
    <3>1. rdcache' = Without(rdcache, b) /\ rdcache \in Seq(RdBuffer) /\ IsInjective(rdcache)
      BY <1>1 DEF Asks, DiskTypes, HoldTypes, Lists
    <3>2. First(rdcache') /\ rdcache' \in Seq(RdBuffer) /\ ToSet(rdcache') = ToSet(rdcache) \ {b}
      BY <2>1, <3>1, WithoutFacts
    <3>3. \A c \in ToSet(rdcache') : rdbuf'[c] = rdbuf[c]
      BY <1>2, <1>3, <3>2 DEF Cached
    <3> QED
      BY <3>2, <3>3, FirstKept DEF First
  <2> QED
    BY <2>2, <2>3, <2>4 DEF Copies
<1>10. Process'
  <2>1. exch.type = "read" => comm # b
    <3>1. exch.type = "read" => comm \in Requested
      BY <1>1, Listed DEF Process
    <3> QED
      BY <1>2, <3>1
  <2>2. exch.type = "read" => comm \in RdBuffer
    BY <1>1, <1>3, Listed DEF Process
  <2> QED
    BY <1>1, <1>2, <1>3, <1>5, <2>1, <2>2 DEF Process
<1> QED
  BY <1>3, <1>6, <1>7, <1>8, <1>9, <1>10 DEF Shape

-------------------------------------------------------------------------------
(* Other changes of the lists *)

\* A process waits for a buffer.
LEMMA WaitShape ==
  ASSUME DiskTypes, Shape, NEW p \in RdProc, NEW op, NEW blk, NEW data,
         MayAsk(p, op, blk, data), op # "sync" => Current(blk) = {},
         rdcall' = [rdcall EXCEPT ![p] = Call(op, "alloc", blk, data)],
         UNCHANGED <<rdbuf, rdreq, rdcache, rdfree, rdmsg, latest, comm, exch>>
  PROVE  Shape'
<1> DEFINE k == About(op, blk)
<1>1. Lists /\ Copies /\ Process /\ \A q \in RdProc : CallOf(q)
  BY DEF Shape
<1> DEFINE n == Call(op, "alloc", blk, data)
<1>2. /\ n.op = op /\ n.at = "alloc" /\ On(n) = k
  BY DEF Call, On
<1> HIDE DEF n
<1>3. rdcall'[p] = n /\ \A q \in RdProc : q # p => rdcall'[q] = rdcall[q]
  BY DEF DiskTypes, HoldTypes, n
<1>4. /\ Requested' = Requested /\ Cached' = Cached /\ Spare' = Spare
      /\ \A x : Current(x)' = Current(x)
  BY DEF Requested, Cached, Spare, Current
<1>5. /\ op \in {"read", "write", "sync"} /\ k \in Blk \cup {NoBlk} /\ (op = "sync" <=> k = NoBlk)
      /\ k # NoBlk => k = blk
      /\ rdcall[p].at # "receive" /\ rdmsg[p] = NoBuffer /\ NoBlk \notin Blk
      /\ \A q \in RdProc : q # p /\ On(rdcall[q]) = k => k = NoBlk
      /\ k # NoBlk => \A c \in Requested : On(rdbuf[c]) # k
      /\ exch.type # "delete"
      /\ \A q \in RdProc : rdcall[q].op = "read" => rdmsg[q] = NoBuffer
  BY <1>1, DiskBasics DEF MayAsk, CallOf, Prompt, About
<1>6. ASSUME NEW q \in RdProc
      PROVE  CallOf(q)'
  <2>1. CASE q = p
    <3>1. \A x \in RdProc : x # p /\ On(rdcall'[x]) = k => k = NoBlk
      BY <1>3, <1>5
    <3>2. \A x \in Blk : k = x => Current(x)' = {}
      BY <1>4, <1>5
    <3>3. k # NoBlk => \A c \in Requested' : On(rdbuf'[c]) # k
      BY <1>4, <1>5
    <3> QED
      BY <1>2, <1>3, <1>5, <2>1, <3>1, <3>2, <3>3 DEF CallOf
  <2>2. CASE q # p
    <3> DEFINE c == rdcall[q]
    <3>1. rdcall'[q] = c /\ rdmsg'[q] = rdmsg[q] /\ rdbuf' = rdbuf
      BY <1>3, <2>2
    <3>2. CallOf(q)
      BY <1>1
    <3>3. \A x \in RdProc : x # q /\ On(rdcall'[x]) = On(c) => On(c) = NoBlk
      <4>1. On(c) # NoBlk => On(c) # k
        BY <1>5, <2>2
      <4> QED
        BY <1>2, <1>3, <3>2, <4>1 DEF CallOf
    <3> QED
      BY <1>4, <3>1, <3>2, <3>3 DEF CallOf
  <2> QED
    BY <2>1, <2>2
<1>7. ASSUME NEW c \in Requested'
      PROVE  RequestOf(c)'
  <2>1. c \in Requested /\ RequestOf(c) /\ rdbuf' = rdbuf /\ rdmsg' = rdmsg
    BY <1>4 DEF Shape
  <2>2. rdbuf[c].op # "write" => rdbuf[c].pid # p /\ rdbuf[c].pid \in RdProc
    BY <1>5, <2>1 DEF RequestOf
  <2>3. rdbuf[c].op # "write" => rdcall'[rdbuf[c].pid] = rdcall[rdbuf[c].pid]
    BY <1>3, <2>2
  <2> QED
    BY <1>4, <2>1, <2>3 DEF RequestOf
<1>8. ASSUME NEW c \in Cached'
      PROVE  CachedFor(c)'
  <2>1. c \in Cached /\ CachedFor(c) /\ rdbuf' = rdbuf /\ rdmsg' = rdmsg
    BY <1>4 DEF Shape
  <2>2. rdbuf[c].refcnt <= 0 /\ rdbuf[c].refcnt \in Int
    BY <2>1, Unreferred, FieldTypes DEF Shape, MayAsk
  <2> QED
    BY <2>1, <2>2 DEF CachedFor
<1>9. Copies'
  BY <1>1, <1>4 DEF Copies, First
<1>10. Process'
  BY <1>1, <1>5 DEF Process
<1>11. Lists'
  BY <1>1, <1>4 DEF Lists
<1> QED
  BY <1>6, <1>7, <1>8, <1>9, <1>10, <1>11 DEF Shape

\* The head of the queue is done with, and goes to the front of the cache.
LEMMA HeadCached ==
  ASSUME DiskTypes, Lists, rdreq # <<>>, rdreq' = Tail(rdreq),
         rdcache' = <<Head(rdreq)>> \o rdcache, rdfree' = rdfree
  PROVE  /\ Lists' /\ Requested' = Requested \ {Head(rdreq)} /\ Cached' = Cached \cup {Head(rdreq)}
         /\ Spare' = Spare /\ Len(rdfree') + Len(rdcache') = Len(rdfree) + Len(rdcache) + 1
         /\ rdreq' \in Seq(RdBuffer) /\ rdcache' \in Seq(RdBuffer) /\ rdfree' \in Seq(RdBuffer)
<1> DEFINE b == Head(rdreq)
<1>1. /\ rdreq \in Seq(RdBuffer) /\ rdcache \in Seq(RdBuffer) /\ rdfree \in Seq(RdBuffer)
      /\ IsInjective(rdreq) /\ IsInjective(rdcache) /\ IsInjective(rdfree)
      /\ Len(rdcache) \in Nat /\ Len(rdfree) \in Nat
  BY Listed DEF DiskTypes, HoldTypes, Lists
<1>2. /\ b \in ToSet(rdreq) /\ b \in RdBuffer /\ rdreq' \in Seq(RdBuffer)
      /\ ToSet(rdreq) = ToSet(rdreq') \cup {b} /\ b \notin ToSet(rdreq') /\ IsInjective(rdreq')
  BY <1>1, HeadOut
<1>3. b \notin ToSet(rdcache) /\ b \notin ToSet(rdfree)
  BY <1>2 DEF Lists, Requested, Cached, Spare
<1> HIDE DEF b
<1>4. /\ rdcache' \in Seq(RdBuffer) /\ Len(rdcache') = Len(rdcache) + 1
      /\ ToSet(rdcache') = ToSet(rdcache) \cup {b} /\ IsInjective(rdcache')
  BY <1>1, <1>2, <1>3, PrependIn DEF b
<1>5. Requested' = Requested \ {b} /\ Cached' = Cached \cup {b} /\ Spare' = Spare
  BY <1>2, <1>4 DEF Requested, Cached, Spare
<1>6. Lists'
  BY <1>1, <1>2, <1>3, <1>4, <1>5 DEF Lists, Requested, Cached, Spare
<1> QED
  BY <1>1, <1>2, <1>4, <1>5, <1>6 DEF b

\* Or to the free list.
LEMMA HeadFreed ==
  ASSUME DiskTypes, Lists, rdreq # <<>>, rdreq' = Tail(rdreq),
         rdfree' = <<Head(rdreq)>> \o rdfree, rdcache' = rdcache
  PROVE  /\ Lists' /\ Requested' = Requested \ {Head(rdreq)} /\ Cached' = Cached
         /\ Spare' = Spare \cup {Head(rdreq)}
         /\ Len(rdfree') + Len(rdcache') = Len(rdfree) + Len(rdcache) + 1
         /\ rdreq' \in Seq(RdBuffer) /\ rdcache' \in Seq(RdBuffer) /\ rdfree' \in Seq(RdBuffer)
<1> DEFINE b == Head(rdreq)
<1>1. /\ rdreq \in Seq(RdBuffer) /\ rdcache \in Seq(RdBuffer) /\ rdfree \in Seq(RdBuffer)
      /\ IsInjective(rdreq) /\ IsInjective(rdcache) /\ IsInjective(rdfree)
      /\ Len(rdcache) \in Nat /\ Len(rdfree) \in Nat
  BY Listed DEF DiskTypes, HoldTypes, Lists
<1>2. /\ b \in ToSet(rdreq) /\ b \in RdBuffer /\ rdreq' \in Seq(RdBuffer)
      /\ ToSet(rdreq) = ToSet(rdreq') \cup {b} /\ b \notin ToSet(rdreq') /\ IsInjective(rdreq')
  BY <1>1, HeadOut
<1>3. b \notin ToSet(rdcache) /\ b \notin ToSet(rdfree)
  BY <1>2 DEF Lists, Requested, Cached, Spare
<1> HIDE DEF b
<1>4. /\ rdfree' \in Seq(RdBuffer) /\ Len(rdfree') = Len(rdfree) + 1
      /\ ToSet(rdfree') = ToSet(rdfree) \cup {b} /\ IsInjective(rdfree')
  BY <1>1, <1>2, <1>3, PrependIn DEF b
<1>5. Requested' = Requested \ {b} /\ Spare' = Spare \cup {b} /\ Cached' = Cached
  BY <1>2, <1>4 DEF Requested, Cached, Spare
<1>6. Lists'
  BY <1>1, <1>2, <1>3, <1>4, <1>5 DEF Lists, Requested, Cached, Spare
<1> QED
  BY <1>1, <1>2, <1>4, <1>5, <1>6 DEF b

\* The calls and the lists are left alone.
LEMMA ExchangeShape ==
  ASSUME Shape, UNCHANGED <<rdbuf, rdreq, rdcache, rdfree, rdcall, rdmsg, latest>>, Process'
  PROVE  Shape'
<1>1. /\ Requested' = Requested /\ Cached' = Cached /\ Spare' = Spare
      /\ \A x : Current(x)' = Current(x)
  BY DEF Requested, Cached, Spare, Current
<1>2. Lists' /\ Copies'
  BY <1>1 DEF Shape, Lists, Copies, First
<1>3. \A p \in RdProc : CallOf(p)'
  BY <1>1 DEF Shape, CallOf
<1>4. \A b \in Requested' : RequestOf(b)'
  BY <1>1 DEF Shape, RequestOf
<1>5. \A b \in Cached' : CachedFor(b)'
  BY <1>1 DEF Shape, CachedFor
<1> QED
  BY <1>2, <1>3, <1>4, <1>5 DEF Shape

\* The head of the queue is a write: it is cached, and free to be used again.
LEMMA WriteCached ==
  ASSUME DiskTypes, Shape, rdreq # <<>>, rdbuf[Head(rdreq)].op = "write", rdreq' = Tail(rdreq),
         rdcache' = <<Head(rdreq)>> \o rdcache, Process',
         UNCHANGED <<rdbuf, rdfree, rdcall, rdmsg, latest>>
  PROVE  Shape'
<1> DEFINE b == Head(rdreq)
<1>1. Lists /\ Copies /\ \A q \in RdProc : CallOf(q)
  BY DEF Shape
<1>2. /\ Lists' /\ Requested' = Requested \ {b} /\ Cached' = Cached \cup {b}
  BY <1>1, HeadCached
<1>3. b \in Requested /\ b \in RdBuffer /\ b \notin Cached /\ RequestOf(b) /\ rdbuf[b].op = "write"
  BY <1>1, Listed DEF Lists, Shape
<1> HIDE DEF b
<1>4. \A x : Current(x)' = Current(x)
  BY <1>2, <1>3 DEF Current
<1>5. ASSUME NEW q \in RdProc
      PROVE  CallOf(q)'
  <2>1. CallOf(q)
    BY <1>1
  <2> QED
    BY <1>2, <1>4, <2>1 DEF CallOf
<1>6. ASSUME NEW c \in Requested'
      PROVE  RequestOf(c)'
  <2>1. c \in Requested /\ RequestOf(c) /\ Requested' \subseteq Requested
    BY <1>2 DEF Shape
  <2> QED
    BY <2>1 DEF RequestOf
<1>7. ASSUME NEW c \in Cached'
      PROVE  CachedFor(c)'
  <2>1. CASE c = b
    BY <1>3, <2>1, DiskBasics DEF CachedFor, RequestOf
  <2>2. CASE c # b
    <3>1. CachedFor(c)
      BY <1>2, <2>2 DEF Shape
    <3> QED
      BY <3>1 DEF CachedFor
  <2> QED
    BY <2>1, <2>2
<1>8. First(rdcache)'
  <2>1. ASSUME NEW c \in ToSet(rdcache), rdbuf[c].valid, On(rdbuf[c]) = On(rdbuf[b])
        PROVE  FALSE
    <3>1. rdbuf[b].valid /\ On(rdbuf[b]) \in Blk /\ c # b /\ c \in Cached
      BY <1>3, <2>1, FieldTypes DEF RequestOf, Cached
    <3>2. b \in Current(On(rdbuf[b])) /\ c \in Current(On(rdbuf[b]))
      BY <1>3, <2>1, <3>1 DEF Current
    <3> QED
      BY <1>1, <3>1, <3>2 DEF Copies
  <2>2. rdcache \in Seq(RdBuffer) /\ First(rdcache) /\ rdcache' = <<b>> \o rdcache
    BY <1>1 DEF DiskTypes, HoldTypes, Copies, b
  <2>3. First(<<b>> \o rdcache)
    BY <1>3, <2>1, <2>2, FirstPrepended
  <2> QED
    BY <2>2, <2>3 DEF First
<1>9. Copies'
  BY <1>1, <1>4, <1>8 DEF Copies
<1> QED
  BY <1>2, <1>5, <1>6, <1>7, <1>9 DEF Shape

\* The head of the queue is a sync: its process is told, and the buffer is free.
LEMMA SyncFreed ==
  ASSUME DiskTypes, Shape, rdreq # <<>>, rdbuf[Head(rdreq)].op = "sync", rdreq' = Tail(rdreq),
         rdfree' = <<Head(rdreq)>> \o rdfree, rdmsg' = [rdmsg EXCEPT ![rdbuf[Head(rdreq)].pid] = "ok"],
         exch.type # "read", UNCHANGED <<rdbuf, rdcache, rdcall, latest, comm, exch>>
  PROVE  Shape'
<1> DEFINE b == Head(rdreq)
           p == rdbuf[b].pid
<1>1. Lists /\ Copies /\ Process /\ \A q \in RdProc : CallOf(q)
  BY DEF Shape
<1>2. /\ Lists' /\ Requested' = Requested \ {b} /\ Cached' = Cached
  BY <1>1, HeadFreed
<1>3. b \in Requested /\ b \in RdBuffer /\ b \notin Cached /\ RequestOf(b) /\ rdbuf[b].op = "sync"
  BY <1>1, Listed DEF Lists, Shape
<1>4. /\ p \in RdProc /\ rdcall[p].op = "sync" /\ rdcall[p].at = "receive" /\ On(rdcall[p]) = NoBlk
      /\ rdmsg[p] = NoBuffer /\ ~rdbuf[b].valid
      /\ \A c \in Requested : c # b /\ rdbuf[c].op # "write" => rdbuf[c].pid # p
  BY <1>3 DEF RequestOf
<1>5. rdmsg'[p] = "ok" /\ \A q \in RdProc : q # p => rdmsg'[q] = rdmsg[q]
  BY <1>4 DEF DiskTypes, HoldTypes
<1> HIDE DEF b, p
<1>6. \A x : Current(x)' = Current(x)
  BY <1>2, <1>3, <1>4 DEF Current
<1>7. ASSUME NEW q \in RdProc
      PROVE  CallOf(q)'
  <2>1. CallOf(q)
    BY <1>1
  <2>2. CASE q = p
    BY <1>2, <1>4, <1>6, <2>1, <2>2, DiskBasics DEF CallOf
  <2>3. CASE q # p
    <3>1. /\ rdcall' = rdcall /\ rdbuf' = rdbuf /\ rdmsg'[q] = rdmsg[q] /\ Cached' = Cached
          /\ Requested' \subseteq Requested
      BY <1>2, <1>5, <2>3
    <3>2. \A x \in Blk : On(rdcall[q]) = x /\ rdmsg[q] = NoBuffer => Current(x)' = {}
      BY <1>6, <2>1 DEF CallOf
    <3>3. On(rdcall[q]) # NoBlk /\ rdcall[q].at = "alloc" => \A c \in Requested' : On(rdbuf'[c]) # On(rdcall[q])
      BY <2>1, <3>1 DEF CallOf
    <3>4. rdcall[q].op = "read" /\ rdmsg'[q] # NoBuffer =>
            rdmsg'[q] \in Cached' /\ rdbuf'[rdmsg'[q]].pid = q /\ rdbuf'[rdmsg'[q]].refcnt = 1
      <4>1. rdcall[q].op = "read" /\ rdmsg[q] # NoBuffer =>
              rdmsg[q] \in Cached /\ rdbuf[rdmsg[q]].pid = q /\ rdbuf[rdmsg[q]].refcnt = 1
        BY <2>1, Zenon DEF CallOf
      <4> QED
        BY <3>1, <4>1
    <3> QED
      BY <2>1, <3>1, <3>2, <3>3, <3>4 DEF CallOf
  <2> QED
    BY <2>2, <2>3
<1>8. ASSUME NEW c \in Requested'
      PROVE  RequestOf(c)'
  <2>1. c \in Requested /\ RequestOf(c) /\ Requested' \subseteq Requested
    BY <1>2 DEF Shape
  <2>2. rdbuf[c].op # "write" => rdbuf[c].pid \in RdProc /\ rdbuf[c].pid # p
    BY <1>2, <1>4, <2>1 DEF RequestOf
  <2>3. rdbuf[c].op # "write" => rdmsg'[rdbuf[c].pid] = rdmsg[rdbuf[c].pid]
    BY <1>5, <2>2
  <2> QED
    BY <2>1, <2>3 DEF RequestOf
<1>9. ASSUME NEW c \in Cached'
      PROVE  CachedFor(c)'
  <2>1. CachedFor(c)
    BY <1>2 DEF Shape
  <2>2. rdbuf[c].refcnt > 0 => rdbuf[c].pid \in RdProc /\ rdbuf[c].pid # p
    BY <1>4, <2>1 DEF CachedFor
  <2> QED
    BY <1>5, <2>1, <2>2 DEF CachedFor
<1>10. Copies'
  BY <1>1, <1>6 DEF Copies, First
<1>11. Process'
  BY <1>1 DEF Process
<1> QED
  BY <1>2, <1>7, <1>8, <1>9, <1>10, <1>11 DEF Shape

\* The head of the queue is a read and its block has come: it is cached, and its reader
\* is told.
LEMMA ReadCached ==
  ASSUME DiskTypes, Shape, rdreq # <<>>, rdbuf[Head(rdreq)].op = "read", NEW data \in Nat,
         rdbuf' = [rdbuf EXCEPT ![Head(rdreq)].data = data, ![Head(rdreq)].refcnt = 1],
         rdreq' = Tail(rdreq), rdcache' = <<Head(rdreq)>> \o rdcache,
         rdmsg' = [rdmsg EXCEPT ![rdbuf[Head(rdreq)].pid] = Head(rdreq)],
         Process', UNCHANGED <<rdfree, rdcall, latest>>
  PROVE  /\ Shape' /\ rdbuf' \in [RdBuffer -> Contents]
         /\ rdmsg' \in [RdProc -> RdBuffer \cup {"ok", NoBuffer}]
         /\ \A c \in Requested' : On(rdbuf[c]) # On(rdbuf[Head(rdreq)])
<1> DEFINE b == Head(rdreq)
           p == rdbuf[b].pid
           k == On(rdbuf[b])
<1>1. Lists /\ Copies /\ \A q \in RdProc : CallOf(q)
  BY DEF Shape
<1>2. /\ Lists' /\ Requested' = Requested \ {b} /\ Cached' = Cached \cup {b}
  BY <1>1, HeadCached
<1>3. b \in Requested /\ b \in RdBuffer /\ b \notin Cached /\ RequestOf(b) /\ rdbuf[b].op = "read"
  BY <1>1, Listed DEF Lists, Shape
<1>4. /\ p \in RdProc /\ rdcall[p].op = "read" /\ rdcall[p].at = "receive" /\ On(rdcall[p]) = k
      /\ rdmsg[p] = NoBuffer /\ ~rdbuf[b].valid /\ k # NoBlk /\ k \in Blk
      /\ \A c \in Requested : c # b /\ rdbuf[c].op # "write" => rdbuf[c].pid # p
      /\ \A c \in Requested : c # b => On(rdbuf[c]) # k
  BY <1>3, FieldTypes DEF RequestOf
<1>5. /\ rdmsg'[p] = b /\ \A q \in RdProc : q # p => rdmsg'[q] = rdmsg[q]
      /\ rdmsg' \in [RdProc -> RdBuffer \cup {"ok", NoBuffer}]
  BY <1>3, <1>4 DEF DiskTypes, HoldTypes
<1>6. /\ rdbuf' \in [RdBuffer -> Contents]
      /\ \A c \in RdBuffer : c # b => rdbuf'[c] = rdbuf[c]
      /\ rdbuf'[b].op = "read" /\ On(rdbuf'[b]) = k /\ rdbuf'[b].pid = p /\ rdbuf'[b].refcnt = 1
      /\ ~rdbuf'[b].valid
  <2>1. rdbuf \in [RdBuffer -> Contents] /\ rdbuf[b] \in Contents
    BY <1>3, FieldTypes DEF DiskTypes, HoldTypes
  <2>2. rdbuf' = [rdbuf EXCEPT ![b] = [[rdbuf[b] EXCEPT !.data = data] EXCEPT !.refcnt = 1]]
    BY <1>3, <2>1
  <2> DEFINE r == [[rdbuf[b] EXCEPT !.data = data] EXCEPT !.refcnt = 1]
  <2>3. r \in Contents /\ r.op = rdbuf[b].op /\ On(r) = k /\ r.pid = p /\ r.refcnt = 1 /\ r.valid = rdbuf[b].valid
    <3> DEFINE x == rdbuf[b]
    <3>1. x \in Contents /\ data \in Nat /\ 1 \in Int
      BY <2>1
    <3>2. r = [[x EXCEPT !.data = data] EXCEPT !.refcnt = 1]
      OBVIOUS
    <3> HIDE DEF x, r
    <3>3. r \in Contents /\ r.op = x.op /\ On(r) = On(x) /\ r.pid = x.pid /\ r.refcnt = 1 /\ r.valid = x.valid
      <4> DEFINE y == [x EXCEPT !.data = data]
      <4>1. y \in Contents /\ y.op = x.op /\ On(y) = On(x) /\ y.pid = x.pid /\ y.valid = x.valid
        BY <3>1, Refilled
      <4>2. r = [y EXCEPT !.refcnt = 1]
        BY <3>2
      <4> HIDE DEF y
      <4>3. LET w == [y EXCEPT !.refcnt = 1] IN
            w \in Contents /\ w.op = y.op /\ On(w) = On(y) /\ w.pid = y.pid /\ w.refcnt = 1 /\ w.valid = y.valid
        BY <3>1, <4>1, Recounted
      <4> QED
        BY <4>1, <4>2, <4>3
    <3> QED
      BY <3>3 DEF x
  <2> HIDE DEF r, b, p, k
  <2>4. rdbuf' = [rdbuf EXCEPT ![b] = r]
    BY <2>2 DEF r
  <2> QED
    BY <1>3, <1>4, <2>1, <2>3, <2>4
<1> HIDE DEF b, p, k
<1>7. \A x : Current(x)' = Current(x)
  <2>1. Requested' \cup Cached' = Requested \cup Cached /\ Requested \subseteq RdBuffer /\ Cached \subseteq RdBuffer
    BY <1>2, <1>3, Listed
  <2>2. \A c \in RdBuffer : rdbuf'[c].valid = rdbuf[c].valid /\ On(rdbuf'[c]) = On(rdbuf[c])
    <3>1. On(rdbuf'[b]) = On(rdbuf[b]) /\ rdbuf'[b].valid = rdbuf[b].valid
      <4>1. rdbuf'[b].valid \in BOOLEAN /\ rdbuf[b].valid \in BOOLEAN
        BY <1>3, <1>6, FieldTypes DEF Contents
      <4> QED
        BY <1>4, <1>6, <4>1 DEF k
    <3> QED
      BY <1>6, <3>1
  <2> QED
    BY <2>1, <2>2 DEF Current
<1>8. ASSUME NEW q \in RdProc
      PROVE  CallOf(q)'
  <2>1. CallOf(q)
    BY <1>1
  <2>2. CASE q = p
    <3>1. /\ rdcall' = rdcall /\ rdmsg'[p] = b /\ b \in Cached' /\ b # NoBuffer
          /\ rdbuf'[b].pid = p /\ rdbuf'[b].refcnt = 1
      BY <1>2, <1>3, <1>5, <1>6, DiskBasics
    <3>2. rdcall[p].op = "read" /\ rdmsg'[p] # NoBuffer =>
            rdmsg'[p] \in Cached' /\ rdbuf'[rdmsg'[p]].pid = p /\ rdbuf'[rdmsg'[p]].refcnt = 1
      BY <3>1
    <3> QED
      BY <1>4, <2>1, <2>2, <3>1, <3>2 DEF CallOf
  <2>3. CASE q # p
    <3>1. /\ rdcall' = rdcall /\ rdmsg'[q] = rdmsg[q] /\ Cached \subseteq Cached'
          /\ Requested' \subseteq Requested
          /\ \A c \in Cached : rdbuf'[c] = rdbuf[c]
          /\ \A c \in Requested' : rdbuf'[c] = rdbuf[c]
      BY <1>2, <1>3, <1>5, <1>6, <2>3, Listed
    <3>2. \A x \in Blk : On(rdcall[q]) = x /\ rdmsg[q] = NoBuffer => Current(x)' = {}
      BY <1>7, <2>1 DEF CallOf
    <3>3. On(rdcall[q]) # NoBlk /\ rdcall[q].at = "alloc" => \A c \in Requested' : On(rdbuf'[c]) # On(rdcall[q])
      BY <2>1, <3>1 DEF CallOf
    <3>4. rdcall[q].op = "read" /\ rdmsg'[q] # NoBuffer =>
            rdmsg'[q] \in Cached' /\ rdbuf'[rdmsg'[q]].pid = q /\ rdbuf'[rdmsg'[q]].refcnt = 1
      <4>1. rdcall[q].op = "read" /\ rdmsg[q] # NoBuffer =>
              rdmsg[q] \in Cached /\ rdbuf[rdmsg[q]].pid = q /\ rdbuf[rdmsg[q]].refcnt = 1
        BY <2>1, Zenon DEF CallOf
      <4> QED
        BY <3>1, <4>1
    <3> QED
      BY <2>1, <3>1, <3>2, <3>3, <3>4 DEF CallOf
  <2> QED
    BY <2>2, <2>3
<1>9. ASSUME NEW c \in Requested'
      PROVE  RequestOf(c)'
  <2>1. /\ c \in Requested /\ RequestOf(c) /\ Requested' \subseteq Requested
        /\ \A x \in Requested' : rdbuf'[x] = rdbuf[x]
    BY <1>2, <1>6, Listed DEF Shape
  <2>2. rdbuf[c].op # "write" => rdbuf[c].pid \in RdProc /\ rdbuf[c].pid # p
    BY <1>2, <1>4, <2>1 DEF RequestOf
  <2>3. rdbuf[c].op # "write" => rdmsg'[rdbuf[c].pid] = rdmsg[rdbuf[c].pid]
    BY <1>5, <2>2
  <2> QED
    BY <2>1, <2>3 DEF RequestOf
<1>10. ASSUME NEW c \in Cached'
       PROVE  CachedFor(c)'
  <2>1. CASE c = b
    BY <1>4, <1>5, <1>6, <2>1 DEF CachedFor
  <2>2. CASE c # b
    <3>1. CachedFor(c) /\ rdbuf'[c] = rdbuf[c]
      BY <1>2, <1>6, <2>2, Listed DEF Shape
    <3>2. rdbuf[c].refcnt > 0 => rdbuf[c].pid \in RdProc /\ rdbuf[c].pid # p
      <4>1. c # NoBuffer
        BY <1>2, <2>2, Listed, DiskBasics
      <4> QED
        BY <1>4, <3>1, <4>1 DEF CachedFor
    <3> QED
      BY <1>5, <3>1, <3>2 DEF CachedFor
  <2> QED
    BY <2>1, <2>2
<1>11. First(rdcache)'
  <2>1. ASSUME NEW c \in ToSet(rdcache), rdbuf[c].valid, On(rdbuf[c]) = On(rdbuf[b])
        PROVE  FALSE
    <3>1. c \in Current(k)
      BY <2>1 DEF Current, Cached, k
    <3>2. Current(k) = {}
      BY <1>1, <1>4 DEF CallOf
    <3> QED
      BY <1>1, <3>1, <3>2
  <2>2. rdcache \in Seq(RdBuffer) /\ First(rdcache) /\ rdcache' = <<b>> \o rdcache
    BY <1>1 DEF DiskTypes, HoldTypes, Copies, b
  <2>3. First(rdcache') /\ rdcache' \in Seq(RdBuffer)
    BY <1>3, <2>1, <2>2, FirstPrepended
  <2>4. \A c \in ToSet(rdcache') : rdbuf'[c].valid = rdbuf[c].valid /\ On(rdbuf'[c]) = On(rdbuf[c])
    <3>1. ToSet(rdcache') = Cached \cup {b}
      BY <1>2 DEF Cached
    <3>2. rdbuf'[b].valid \in BOOLEAN /\ rdbuf[b].valid \in BOOLEAN
      BY <1>3, <1>6, FieldTypes DEF Contents
    <3> QED
      BY <1>4, <1>6, <3>1, <3>2, Listed DEF k
  <2> QED
    BY <2>3, <2>4, FirstKept DEF First
<1>12. \A x \in Blk : \A c \in Current(x) : rdbuf'[c].data = rdbuf[c].data
  BY <1>3, <1>4, <1>6, Listed DEF Current
<1>13. Copies'
  BY <1>1, <1>7, <1>11, <1>12 DEF Copies
<1>14. Shape'
  BY <1>2, <1>8, <1>9, <1>10, <1>13 DEF Shape
<1> QED
  BY <1>2, <1>4, <1>5, <1>6, <1>14 DEF b, k

\* A process goes on with what it was sent: a reader no longer refers to its buffer.
LEMMA Returned ==
  ASSUME DiskTypes, Shape, NEW p \in RdProc, rdcall[p].at = "receive", rdcall[p].op \in {"read", "sync"},
         rdmsg[p] # NoBuffer, rdcall' = [rdcall EXCEPT ![p] = Idle], rdmsg' = [rdmsg EXCEPT ![p] = NoBuffer],
         Lists', Requested' = Requested, Cached' \subseteq Cached, First(rdcache)',
         \A c \in RdBuffer :
           IF rdcall[p].op = "read" /\ c = rdmsg[p]
           THEN ~rdbuf[c].valid /\ ~rdbuf'[c].valid /\ rdbuf'[c].refcnt = 0 /\ On(rdbuf'[c]) = On(rdbuf[c])
           ELSE rdbuf'[c] = rdbuf[c] /\ (c \in Cached => c \in Cached'),
         UNCHANGED <<rdreq, latest, comm, exch>>
  PROVE  Shape'
<1>1. Lists /\ Copies /\ Process /\ \A q \in RdProc : CallOf(q)
  BY DEF Shape
<1>2. /\ rdcall'[p] = Idle /\ \A q \in RdProc : q # p => rdcall'[q] = rdcall[q]
      /\ rdmsg'[p] = NoBuffer /\ \A q \in RdProc : q # p => rdmsg'[q] = rdmsg[q]
      /\ Idle.op = "none" /\ Idle.at = "" /\ On(Idle) = NoBlk /\ NoBlk \notin Blk
  <2>1. Idle.at = ""
    BY Zenon DEF Idle
  <2>2. /\ rdcall'[p] = Idle /\ \A q \in RdProc : q # p => rdcall'[q] = rdcall[q]
        /\ rdmsg'[p] = NoBuffer /\ \A q \in RdProc : q # p => rdmsg'[q] = rdmsg[q]
    BY DEF DiskTypes, HoldTypes
  <2> QED
    BY <2>1, <2>2, CallIs, DiskBasics, Zenon
<1>3. rdcall[p].op = "read" => rdmsg[p] \in Cached /\ rdbuf[rdmsg[p]].pid = p
  BY <1>1, Zenon DEF CallOf
<1>4. Requested \subseteq RdBuffer /\ Cached \subseteq RdBuffer /\ Requested \cap Cached = {} /\ NoBuffer \notin RdBuffer
  BY <1>1, Listed, DiskBasics DEF Lists
<1>5. \A c \in Requested : rdbuf'[c] = rdbuf[c]
  BY <1>3, <1>4
<1>6. \A x : Current(x)' = Current(x)
  <2> SUFFICES ASSUME NEW x
               PROVE  Current(x)' = Current(x)
    OBVIOUS
  <2>1. \A c \in Current(x) : c \in Current(x)'
    BY <1>4 DEF Current
  <2>2. \A c \in Current(x)' : c \in Current(x)
    BY <1>4 DEF Current
  <2> QED
    BY <2>1, <2>2
<1>7. ASSUME NEW q \in RdProc
      PROVE  CallOf(q)'
  <2>1. CallOf(q)
    BY <1>1
  <2>2. CASE q = p
    BY <1>2, <2>2, ZenonT(30) DEF CallOf
  <2>3. CASE q # p
    <3>1. rdcall'[q] = rdcall[q] /\ rdmsg'[q] = rdmsg[q]
      BY <1>2, <2>3
    <3>2. \A x \in Blk : On(rdcall[q]) = x /\ rdmsg[q] = NoBuffer => Current(x)' = {}
      BY <1>6, <2>1 DEF CallOf
    <3>3. On(rdcall[q]) # NoBlk /\ rdcall[q].at = "alloc" => \A c \in Requested' : On(rdbuf'[c]) # On(rdcall[q])
      BY <1>5, <2>1 DEF CallOf
    <3>4. rdcall[q].op = "read" /\ rdmsg'[q] # NoBuffer =>
            rdmsg'[q] \in Cached' /\ rdbuf'[rdmsg'[q]].pid = q /\ rdbuf'[rdmsg'[q]].refcnt = 1
      <4>1. rdcall[q].op = "read" /\ rdmsg[q] # NoBuffer =>
              rdmsg[q] \in Cached /\ rdbuf[rdmsg[q]].pid = q /\ rdbuf[rdmsg[q]].refcnt = 1
        BY <2>1, Zenon DEF CallOf
      <4>2. rdcall[q].op = "read" /\ rdmsg[q] # NoBuffer => ~(rdcall[p].op = "read" /\ rdmsg[q] = rdmsg[p])
        BY <1>3, <2>3, <4>1
      <4> QED
        BY <1>4, <3>1, <4>1, <4>2
    <3>5. \A x \in RdProc : x # q /\ On(rdcall'[x]) = On(rdcall[q]) => On(rdcall[q]) = NoBlk
      BY <1>2, <2>1 DEF CallOf
    <3> QED
      BY <2>1, <3>1, <3>2, <3>3, <3>4, <3>5 DEF CallOf
  <2> QED
    BY <2>2, <2>3
<1>8. ASSUME NEW c \in Requested'
      PROVE  RequestOf(c)'
  <2>1. /\ c \in Requested /\ RequestOf(c) /\ \A x \in Requested' : rdbuf'[x] = rdbuf[x]
    BY <1>5 DEF Shape
  <2>2. rdbuf[c].op # "write" => rdbuf[c].pid \in RdProc /\ rdbuf[c].pid # p
    BY <2>1 DEF RequestOf
  <2>3. rdbuf[c].op # "write" =>
          rdmsg'[rdbuf[c].pid] = rdmsg[rdbuf[c].pid] /\ rdcall'[rdbuf[c].pid] = rdcall[rdbuf[c].pid]
    BY <1>2, <2>2
  <2> QED
    BY <2>1, <2>3 DEF RequestOf
<1>9. ASSUME NEW c \in Cached'
      PROVE  CachedFor(c)'
  <2>1. CachedFor(c) /\ c \in RdBuffer /\ On(rdbuf'[c]) = On(rdbuf[c])
    BY <1>4 DEF Shape
  <2>2. CASE rdcall[p].op = "read" /\ c = rdmsg[p]
    <3>1. ~(rdbuf'[c].refcnt > 0)
      <4>1. rdbuf'[c].refcnt = 0
        BY <2>1, <2>2
      <4> QED
        BY <4>1
    <3> QED
      BY <2>1, <3>1 DEF CachedFor
  <2>3. CASE ~(rdcall[p].op = "read" /\ c = rdmsg[p])
    <3>1. rdbuf'[c] = rdbuf[c]
      BY <2>1, <2>3
    <3>2. rdbuf[c].refcnt > 0 => rdbuf[c].pid \in RdProc /\ rdbuf[c].pid # p
      BY <2>1, <2>3 DEF CachedFor
    <3>3. rdbuf[c].refcnt > 0 =>
            rdmsg'[rdbuf[c].pid] = rdmsg[rdbuf[c].pid] /\ rdcall'[rdbuf[c].pid] = rdcall[rdbuf[c].pid]
      BY <1>2, <3>2
    <3> QED
      BY <2>1, <3>1, <3>3 DEF CachedFor
  <2> QED
    BY <2>2, <2>3
<1>10. \A x \in Blk : \A c \in Current(x) : rdbuf'[c].data = rdbuf[c].data
  BY <1>4 DEF Current
<1>11. Copies'
  BY <1>1, <1>6, <1>10 DEF Copies
<1>12. Process'
  <2>1. exch.type # "delete"
    <3>1. rdcall[p].op # "none"
      OBVIOUS
    <3> QED
      BY <1>1, <1>2, <3>1 DEF Process, Quiet
  <2>2. exch.type = "read" => comm \in Requested
    BY <1>1, Listed DEF Process
  <2> QED
    BY <1>1, <1>5, <2>1, <2>2 DEF Process
<1> QED
  BY <1>7, <1>8, <1>9, <1>11, <1>12 DEF Shape

\* What a write found in the queue: it is the current copy, and its contents are replaced.
LEMMA Replaced ==
  ASSUME DiskTypes, Shape, NEW b \in Requested, rdbuf[b].op = "write", NEW v \in Nat,
         rdbuf' = [rdbuf EXCEPT ![b].data = v], latest' = [latest EXCEPT ![On(rdbuf[b])] = v],
         UNCHANGED <<rdreq, rdcache, rdfree, rdcall, rdmsg, comm, exch>>
  PROVE  Shape' /\ rdbuf' \in [RdBuffer -> Contents] /\ latest' \in [Blk -> Nat]
<1> DEFINE k == On(rdbuf[b])
<1>1. Lists /\ Copies /\ Process /\ \A q \in RdProc : CallOf(q)
  BY DEF Shape
<1>2. b \in RdBuffer /\ RequestOf(b) /\ k \in Blk /\ b \in Current(k)
  <2>1. b \in RdBuffer /\ RequestOf(b)
    BY Listed DEF Shape
  <2>2. k \in Blk
    BY <2>1, FieldTypes DEF RequestOf
  <2> QED
    BY <2>1, <2>2 DEF Current, RequestOf
<1>3. /\ rdbuf' \in [RdBuffer -> Contents]
      /\ \A c \in RdBuffer : c # b => rdbuf'[c] = rdbuf[c]
      /\ \A c \in RdBuffer : /\ rdbuf'[c].op = rdbuf[c].op /\ On(rdbuf'[c]) = On(rdbuf[c])
                             /\ rdbuf'[c].pid = rdbuf[c].pid /\ rdbuf'[c].refcnt = rdbuf[c].refcnt
                             /\ rdbuf'[c].valid = rdbuf[c].valid
      /\ rdbuf'[b].data = v
  <2> DEFINE x == rdbuf[b]
             r == [x EXCEPT !.data = v]
  <2>1. rdbuf \in [RdBuffer -> Contents] /\ x \in Contents
    BY <1>2, FieldTypes DEF DiskTypes, HoldTypes
  <2>2. rdbuf' = [rdbuf EXCEPT ![b] = r]
    BY <1>2, <2>1
  <2> HIDE DEF x
  <2>3. r \in Contents /\ r.op = x.op /\ On(r) = On(x) /\ r.pid = x.pid /\ r.refcnt = x.refcnt /\ r.valid = x.valid
        /\ r.data = v
    BY <2>1, Refilled
  <2> HIDE DEF r
  <2> QED
    BY <1>2, <2>1, <2>2, <2>3 DEF x
<1>4. latest' \in [Blk -> Nat] /\ latest'[k] = v /\ \A x \in Blk : x # k => latest'[x] = latest[x]
  BY <1>2 DEF DiskTypes, HoldTypes
<1> HIDE DEF k
<1>5. /\ Requested' = Requested /\ Cached' = Cached /\ Spare' = Spare
      /\ Requested \subseteq RdBuffer /\ Cached \subseteq RdBuffer
  BY Listed DEF Requested, Cached, Spare
<1>6. \A x : Current(x)' = Current(x)
  BY <1>3, <1>5 DEF Current
<1>7. ASSUME NEW q \in RdProc
      PROVE  CallOf(q)'
  <2>1. CallOf(q)
    BY <1>1
  <2>2. \A x \in Blk : On(rdcall[q]) = x /\ rdmsg[q] = NoBuffer => Current(x)' = {}
    BY <1>6, <2>1 DEF CallOf
  <2>3. On(rdcall[q]) # NoBlk /\ rdcall[q].at = "alloc" => \A c \in Requested' : On(rdbuf'[c]) # On(rdcall[q])
    BY <1>3, <1>5, <2>1 DEF CallOf
  <2>4. rdcall[q].op = "read" /\ rdmsg[q] # NoBuffer =>
          rdmsg[q] \in Cached' /\ rdbuf'[rdmsg[q]].pid = q /\ rdbuf'[rdmsg[q]].refcnt = 1
    <3>1. rdcall[q].op = "read" /\ rdmsg[q] # NoBuffer =>
            rdmsg[q] \in Cached /\ rdbuf[rdmsg[q]].pid = q /\ rdbuf[rdmsg[q]].refcnt = 1
      BY <2>1, Zenon DEF CallOf
    <3> QED
      BY <1>3, <1>5, <3>1
  <2> QED
    BY <2>1, <2>2, <2>3, <2>4 DEF CallOf
<1>8. ASSUME NEW c \in Requested'
      PROVE  RequestOf(c)'
  <2>1. /\ c \in Requested /\ c \in RdBuffer /\ RequestOf(c)
        /\ \A x \in Requested : /\ rdbuf'[x].op = rdbuf[x].op /\ On(rdbuf'[x]) = On(rdbuf[x])
                                /\ rdbuf'[x].pid = rdbuf[x].pid /\ rdbuf'[x].refcnt = rdbuf[x].refcnt
                                /\ rdbuf'[x].valid = rdbuf[x].valid
    BY <1>3, <1>5 DEF Shape
  <2> QED
    BY <1>5, <2>1 DEF RequestOf
<1>9. ASSUME NEW c \in Cached'
      PROVE  CachedFor(c)'
  <2>1. CachedFor(c) /\ c \in RdBuffer
    BY <1>5 DEF Shape
  <2> QED
    BY <1>3, <2>1 DEF CachedFor
<1>10. ASSUME NEW x \in Blk, NEW c \in Current(x)
       PROVE  rdbuf'[c].data = latest'[x]
  <2>1. rdbuf[c].data = latest[x] /\ c \in RdBuffer /\ On(rdbuf[c]) = x
    BY <1>1, <1>5 DEF Copies, Current
  <2>2. CASE x = k
    <3>1. c = b
      BY <1>1, <1>2, <2>2 DEF Copies
    <3> QED
      BY <1>3, <1>4, <2>2, <3>1
  <2>3. CASE x # k
    <3>1. c # b
      BY <2>1, <2>3 DEF k
    <3> QED
      BY <1>3, <1>4, <2>1, <2>3, <3>1
  <2> QED
    BY <2>2, <2>3
<1>11. First(rdcache)'
  <2>1. First(rdcache') /\ rdcache' \in Seq(RdBuffer) /\ rdcache' = rdcache
    BY <1>1 DEF Copies, DiskTypes, HoldTypes
  <2>2. \A c \in ToSet(rdcache') : rdbuf'[c].valid = rdbuf[c].valid /\ On(rdbuf'[c]) = On(rdbuf[c])
    BY <1>3, <1>5 DEF Cached
  <2> QED
    BY <2>1, <2>2, FirstKept DEF First
<1>12. Copies'
  BY <1>1, <1>6, <1>10, <1>11 DEF Copies
<1>13. Process'
  <2>1. exch.type = "read" => comm \in RdBuffer
    BY <1>1, <1>5, Listed DEF Process
  <2> QED
    BY <1>1, <1>3, <2>1 DEF Process, Quiet
<1>14. Lists'
  BY <1>1, <1>5 DEF Lists
<1> QED
  BY <1>3, <1>4, <1>7, <1>8, <1>9, <1>12, <1>13, <1>14 DEF Shape

\* A list turned round in front of another.
LEMMA Reversed ==
  ASSUME NEW S, NEW s \in Seq(S), NEW t \in Seq(S)
  PROVE  /\ Reverse(s) \o t \in Seq(S) /\ Len(Reverse(s) \o t) = Len(s) + Len(t)
         /\ ToSet(Reverse(s) \o t) = ToSet(s) \cup ToSet(t)
         /\ IsInjective(s) /\ IsInjective(t) /\ ToSet(s) \cap ToSet(t) = {} => IsInjective(Reverse(s) \o t)
<1> DEFINE n == Len(s)
           v == Reverse(s)
           r == v \o t
<1>1. n \in Nat /\ Len(t) \in Nat /\ DOMAIN s = 1 .. n /\ DOMAIN t = 1 .. Len(t)
  OBVIOUS
<1>2. v \in Seq(S) /\ Len(v) = n /\ \A i \in 1 .. n : v[i] = s[(n - i) + 1] /\ (n - i) + 1 \in 1 .. n
  <2>1. v = [i \in 1 .. n |-> s[(n - i) + 1]]
    BY DEF Reverse
  <2>2. \A i \in 1 .. n : (n - i) + 1 \in 1 .. n /\ s[(n - i) + 1] \in S
    OBVIOUS
  <2> HIDE DEF v, n
  <2> QED
    BY <1>1, <2>1, <2>2
<1> HIDE DEF v
<1>3. /\ r \in Seq(S) /\ Len(r) = n + Len(t) /\ DOMAIN r = 1 .. n + Len(t)
      /\ \A i \in 1 .. n : r[i] = v[i]
      /\ \A i \in n + 1 .. n + Len(t) : r[i] = t[i - n] /\ i - n \in 1 .. Len(t)
  <2>1. /\ r \in Seq(S) /\ Len(r) = Len(v) + Len(t)
        /\ \A i \in 1 .. Len(v) : r[i] = v[i]
        /\ \A i \in Len(v) + 1 .. Len(v) + Len(t) : r[i] = t[i - Len(v)]
    <3>1. /\ v \o t \in Seq(S) /\ Len(v \o t) = Len(v) + Len(t)
          /\ \A i \in 1 .. Len(v) + Len(t) : (v \o t)[i] = IF i <= Len(v) THEN v[i] ELSE t[i - Len(v)]
      BY <1>2, ConcatProperties
    <3> HIDE DEF n
    <3>2. Len(v) \in Nat /\ Len(t) \in Nat
      BY <1>2
    <3> QED
      BY <1>1, <3>1, <3>2
  <2> HIDE DEF r, n
  <2>2. DOMAIN r = 1 .. Len(r)
    BY <2>1
  <2>3. \A i \in n + 1 .. n + Len(t) : i - n \in 1 .. Len(t)
    BY <1>1
  <2> QED
    BY <1>2, <2>1, <2>2, <2>3
<1> HIDE DEF r, n
<1>4. \A x \in ToSet(r) : x \in ToSet(s) \cup ToSet(t)
  <2> SUFFICES ASSUME NEW i \in 1 .. n + Len(t)
               PROVE  r[i] \in ToSet(s) \cup ToSet(t)
    BY <1>3 DEF ToSet
  <2>1. CASE i \in 1 .. n
    BY <1>1, <1>2, <1>3, <2>1 DEF ToSet
  <2>2. CASE i \notin 1 .. n
    BY <1>1, <1>3, <2>2 DEF ToSet
  <2> QED
    BY <2>1, <2>2
<1>5. \A x \in ToSet(s) : x \in ToSet(r)
  <2> SUFFICES ASSUME NEW i \in 1 .. n
               PROVE  s[i] \in ToSet(r)
    BY <1>1 DEF ToSet
  <2> DEFINE j == (n - i) + 1
  <2>1. j \in 1 .. n /\ j \in 1 .. n + Len(t) /\ (n - j) + 1 = i
    BY <1>1
  <2> HIDE DEF j
  <2>2. r[j] = s[i]
    BY <1>2, <1>3, <2>1
  <2> QED
    BY <1>3, <2>1, <2>2 DEF ToSet
<1>6. \A x \in ToSet(t) : x \in ToSet(r)
  <2> SUFFICES ASSUME NEW i \in 1 .. Len(t)
               PROVE  t[i] \in ToSet(r)
    BY <1>1 DEF ToSet
  <2> DEFINE j == n + i
  <2>1. j \in n + 1 .. n + Len(t) /\ j \in 1 .. n + Len(t) /\ j - n = i
    BY <1>1
  <2> HIDE DEF j
  <2>2. r[j] = t[i]
    BY <1>3, <2>1
  <2> QED
    BY <1>3, <2>1, <2>2 DEF ToSet
<1>7. ASSUME IsInjective(s), IsInjective(t), ToSet(s) \cap ToSet(t) = {}
      PROVE  IsInjective(r)
  <2> SUFFICES ASSUME NEW i \in 1 .. n + Len(t), NEW j \in 1 .. n + Len(t), r[i] = r[j]
               PROVE  i = j
    BY <1>3 DEF IsInjective
  <2>1. \A k \in 1 .. n : r[k] \in ToSet(s)
    <3> SUFFICES ASSUME NEW k \in 1 .. n
                 PROVE  r[k] \in ToSet(s)
      OBVIOUS
    <3>1. \A l \in 1 .. n : s[l] \in ToSet(s)
      BY <1>1 DEF ToSet
    <3>2. PICK l \in 1 .. n : l = (n - k) + 1
      BY <1>1
    <3>3. r[k] = v[k] /\ v[k] = s[(n - k) + 1]
      BY <1>2, <1>3
    <3> QED
      BY <3>1, <3>2, <3>3
  <2>2. \A k \in n + 1 .. n + Len(t) : r[k] \in ToSet(t)
    BY <1>1, <1>3 DEF ToSet
  <2>3. CASE i \in 1 .. n /\ j \in 1 .. n
    <3>1. s[(n - i) + 1] = s[(n - j) + 1]
      <4>1. r[i] = v[i] /\ r[j] = v[j]
        BY <1>3, <2>3
      <4>2. v[i] = s[(n - i) + 1] /\ v[j] = s[(n - j) + 1]
        BY <1>2, <2>3
      <4> QED
        BY <4>1, <4>2
    <3>2. (n - i) + 1 = (n - j) + 1
      BY <1>1, <1>2, <1>7, <2>3, <3>1 DEF IsInjective
    <3> QED
      BY <1>1, <3>2
  <2>4. CASE i \notin 1 .. n /\ j \notin 1 .. n
    <3>1. i \in n + 1 .. n + Len(t) /\ j \in n + 1 .. n + Len(t)
      BY <1>1, <2>4
    <3>2. t[i - n] = t[j - n] /\ i - n \in 1 .. Len(t) /\ j - n \in 1 .. Len(t)
      BY <1>3, <3>1
    <3>3. i - n = j - n
      BY <1>1, <1>7, <3>2 DEF IsInjective
    <3> QED
      BY <1>1, <3>3
  <2>5. CASE i \in 1 .. n /\ j \notin 1 .. n
    BY <1>1, <1>7, <2>1, <2>2, <2>5
  <2>6. CASE i \notin 1 .. n /\ j \in 1 .. n
    BY <1>1, <1>7, <2>1, <2>2, <2>6
  <2> QED
    BY <2>3, <2>4, <2>5, <2>6
<1> QED
  BY <1>3, <1>4, <1>5, <1>6, <1>7 DEF r, v, n

\* The cache is emptied when nobody uses the disk.
LEMMA ClosedShape ==
  ASSUME DiskTypes, Shape, Quiet, rdreq = <<>>, Closed, Process', UNCHANGED <<rdcall, rdmsg, latest>>
  PROVE  /\ Shape' /\ rdbuf' \in [RdBuffer -> Contents]
         /\ Len(rdfree') + Len(rdcache') = Len(rdfree) + Len(rdcache)
         /\ rdreq' \in Seq(RdBuffer) /\ rdcache' \in Seq(RdBuffer) /\ rdfree' \in Seq(RdBuffer)
<1>1. Lists /\ \A q \in RdProc : CallOf(q)
  BY DEF Shape
<1>2. rdreq' = <<>> /\ rdcache' = <<>> /\ rdfree' = Reverse(rdcache) \o rdfree
  BY DEF Closed
<1>3. /\ rdreq \in Seq(RdBuffer) /\ rdcache \in Seq(RdBuffer) /\ rdfree \in Seq(RdBuffer)
      /\ IsInjective(rdreq) /\ IsInjective(rdcache) /\ IsInjective(rdfree)
      /\ ToSet(rdcache) \cap ToSet(rdfree) = {}
  BY <1>1 DEF DiskTypes, HoldTypes, Lists, Cached, Spare
<1>4. /\ rdfree' \in Seq(RdBuffer) /\ Len(rdfree') = Len(rdcache) + Len(rdfree)
      /\ ToSet(rdfree') = ToSet(rdcache) \cup ToSet(rdfree) /\ IsInjective(rdfree')
  BY <1>2, <1>3, Reversed
<1>5. /\ Requested' = {} /\ Cached' = {} /\ Spare' = RdBuffer
  <2>1. ToSet(<<>>) = {}
    BY DEF ToSet
  <2> QED
    BY <1>1, <1>2, <1>4, <2>1 DEF Requested, Cached, Spare, Lists
<1>6. Lists'
  <2>1. IsInjective(<<>>)
    BY DEF IsInjective
  <2> QED
    BY <1>2, <1>4, <1>5, <2>1 DEF Lists
<1>7. rdbuf' \in [RdBuffer -> Contents]
  <2> SUFFICES ASSUME NEW b \in RdBuffer
               PROVE  [rdbuf[b] EXCEPT !.valid = @ /\ b \notin ToSet(rdcache)] \in Contents
    BY DEF Closed
  <2> DEFINE x == rdbuf[b]
             v == x.valid /\ b \notin ToSet(rdcache)
  <2>1. x \in Contents /\ v \in BOOLEAN
    BY FieldTypes
  <2>2. [rdbuf[b] EXCEPT !.valid = @ /\ b \notin ToSet(rdcache)] = [x EXCEPT !.valid = v]
    BY Zenon
  <2> HIDE DEF x, v
  <2>3. [x EXCEPT !.valid = v] \in Contents
    BY <2>1, Revalued
  <2> QED
    BY <2>2, <2>3
<1>8. \A q \in RdProc : rdcall[q] = Idle /\ rdmsg[q] = NoBuffer /\ Idle.op = "none" /\ Idle.at = "" /\ On(Idle) = NoBlk
  <2>1. Idle.op = "none" /\ Idle.at = "" /\ On(Idle) = NoBlk
    <3>1. Idle.at = ""
      BY Zenon DEF Idle
    <3> QED
      BY <3>1, CallIs, Zenon
  <2> QED
    BY <1>1, <2>1 DEF Quiet, CallOf
<1>9. \A x : Current(x)' = {}
  BY <1>5 DEF Current
<1>10. \A q \in RdProc : CallOf(q)'
  BY <1>8, <1>9, DiskBasics DEF CallOf
<1>11. Copies'
  <2>1. First(rdcache)'
    BY <1>2 DEF First
  <2> QED
    BY <1>9, <2>1 DEF Copies
<1>12. Len(rdfree') + Len(rdcache') = Len(rdfree) + Len(rdcache)
  BY <1>2, <1>3, <1>4
<1>13. Shape'
  BY <1>5, <1>6, <1>10, <1>11 DEF Shape
<1> QED
  BY <1>2, <1>3, <1>4, <1>7, <1>12, <1>13

-------------------------------------------------------------------------------
(* The count of the buffers *)

\* A buffer is given back: one more to take, or one who waits is let through.
LEMMA GivenBack ==
  ASSUME Available, availsem' = Signaled(availsem), rdcall' = rdcall,
         Len(rdfree') + Len(rdcache') = Len(rdfree) + Len(rdcache) + 1
  PROVE  Available'
<1>1. /\ SoundSem(RdProc, availsem) /\ availsem.ok /\ ToSet(availsem.queue) \subseteq Allocating
      /\ Len(rdfree) + Len(rdcache) = Units(Allocating, availsem) /\ IsFiniteSet(RdProc)
      /\ Allocating \in SUBSET RdProc
  BY DiskBasics DEF Available, Allocating
<1>2. /\ SoundSem(RdProc, availsem') /\ availsem'.ok /\ ToSet(availsem'.queue) \subseteq Allocating
      /\ Units(Allocating, availsem') = Units(Allocating, availsem) + 1
  BY <1>1, SemAdds
<1>3. Allocating' = Allocating
  BY DEF Allocating
<1> QED
  BY <1>1, <1>2, <1>3 DEF Available

\* The buffers may change lists and the calls their stage.
LEMMA AsMany ==
  ASSUME Available, availsem' = availsem, Allocating' = Allocating,
         Len(rdfree') + Len(rdcache') = Len(rdfree) + Len(rdcache)
  PROVE  Available'
BY DEF Available

\* A buffer is taken.  As nobody refers to a cached one, there is one.
LEMMA Allocated ==
  ASSUME DiskTypes, Shape, NEW p \in RdProc, NEW op, NEW blk, NEW data,
         MayAsk(p, op, blk, data), op # "sync" => Current(blk) = {},
         Allocate(p, op, blk, data), UNCHANGED <<comm, exch>>, Len(rdfree) + Len(rdcache) >= 1
  PROVE  /\ Shape' /\ HoldTypes' /\ rdpanic' = rdpanic
         /\ Len(rdfree') + Len(rdcache') = Len(rdfree) + Len(rdcache) - 1
         /\ Allocating' = Allocating \ {p} /\ Goes(p, op, blk, data)
<1>1. \A b \in Cached : rdbuf[b].refcnt <= 0
  BY Unreferred DEF MayAsk, Shape
<1>2. Rdsbufalloc # {} /\ \A b \in Rdsbufalloc : b \in Cached \cup Spare
  BY <1>1, BufallocFacts
<1>3. PICK b \in Rdsbufalloc : /\ rdfree' = Without(rdfree, b) /\ rdcache' = Without(rdcache, b)
                               /\ Request(p, op, blk, data, b) /\ UNCHANGED rdpanic
  BY <1>2 DEF Allocate
<1>4. Asks(p, op, blk, data, b)
  BY <1>2, <1>3 DEF Asks
<1>5. Lists
  BY DEF Shape
<1>6. Shape'
  BY <1>4, AsksShape
<1>7. HoldTypes' /\ Len(rdfree') + Len(rdcache') = Len(rdfree) + Len(rdcache) - 1
  BY <1>4, <1>5, AsksFacts, AsksLists DEF HoldTypes
<1>8. Allocating' = Allocating \ {p}
  <2>1. /\ rdcall'[p] = (IF op = "write" THEN Idle ELSE Call(op, "receive", blk, data))
        /\ \A q \in RdProc : q # p => rdcall'[q] = rdcall[q]
    BY <1>4, <1>5, AsksFacts
  <2>2. rdcall'[p].at # "alloc"
    <3>1. Idle.at = "" /\ Call(op, "receive", blk, data).at = "receive"
      BY DEF Idle, Call
    <3> QED
      BY <2>1, <3>1
  <2> QED
    BY <2>1, <2>2 DEF Allocating
<1>9. Goes(p, op, blk, data)
  BY <1>2, <1>4 DEF Goes
<1> QED
  BY <1>3, <1>6, <1>7, <1>8, <1>9

\* A process asks availsem for a buffer, and takes it or waits.
LEMMA Enqueued ==
  ASSUME DiskTypes, Shape, Available, NEW p \in RdProc, rdcall[p].at \notin {"alloc", "receive"}, NEW op, NEW blk, NEW data,
         MayAsk(p, op, blk, data), op # "sync" => Current(blk) = {},
         availsem' = Waits(availsem, p), Enqueue(p, op, blk, data), UNCHANGED <<comm, exch>>
  PROVE  Shape' /\ HoldTypes' /\ rdpanic' = rdpanic /\ Available' /\ Goes(p, op, blk, data)
<1>1. /\ SoundSem(RdProc, availsem) /\ availsem.ok /\ ToSet(availsem.queue) \subseteq Allocating
      /\ Len(rdfree) + Len(rdcache) = Units(Allocating, availsem) /\ IsFiniteSet(RdProc)
      /\ Allocating \in SUBSET RdProc /\ p \notin Allocating
  BY DiskBasics DEF Available, Allocating
<1>2. CASE availsem.count > 0
  <2>1. /\ SoundSem(RdProc, availsem') /\ availsem'.ok /\ ToSet(availsem'.queue) = {}
        /\ Units(Allocating, availsem') = Units(Allocating, availsem) - 1 /\ Units(Allocating, availsem) >= 1
    BY <1>1, <1>2, SemTakes
  <2>2. Allocate(p, op, blk, data) /\ Len(rdfree) + Len(rdcache) >= 1
    BY <1>1, <1>2, <2>1 DEF Enqueue
  <2>3. /\ Shape' /\ HoldTypes' /\ rdpanic' = rdpanic
        /\ Len(rdfree') + Len(rdcache') = Len(rdfree) + Len(rdcache) - 1
        /\ Allocating' = Allocating \ {p} /\ Goes(p, op, blk, data)
    BY <2>2, Allocated
  <2>4. Allocating' = Allocating
    BY <1>1, <2>3
  <2>5. Len(rdfree') + Len(rdcache') = Units(Allocating', availsem')
    <3>1. Len(rdfree) \in Nat /\ Len(rdcache) \in Nat
      BY Listed
    <3>2. Len(rdfree) + Len(rdcache) = Units(Allocating, availsem)
      BY <1>1
    <3>3. Units(Allocating', availsem') = Units(Allocating, availsem) - 1
      BY <2>1, <2>4
    <3>4. Len(rdfree') + Len(rdcache') = Len(rdfree) + Len(rdcache) - 1
      BY <2>3
    <3> QED
      BY <3>1, <3>2, <3>3, <3>4
  <2>6. Available'
    BY <1>1, <2>1, <2>5 DEF Available
  <2> QED
    BY <2>3, <2>6
<1>3. CASE ~(availsem.count > 0)
  <2>1. /\ rdcall' = [rdcall EXCEPT ![p] = Call(op, "alloc", blk, data)]
        /\ UNCHANGED <<rdbuf, rdreq, rdcache, rdfree, reqsem, rdmsg, rdpanic, latest>>
    BY <1>3 DEF Enqueue
  <2>2. ~Queued(availsem, p)
    BY <1>1 DEF Queued
  <2>3. /\ SoundSem(RdProc, availsem') /\ availsem'.ok
        /\ ToSet(availsem'.queue) = ToSet(availsem.queue) \cup {p}
        /\ Units(Allocating \cup {p}, availsem') = Units(Allocating, availsem)
    <3>1. /\ SoundSem(RdProc, Waits(availsem, p)) /\ Waits(availsem, p).ok
          /\ ToSet(Waits(availsem, p).queue) = ToSet(availsem.queue) \cup {p}
          /\ \A E \in SUBSET RdProc : p \notin E => Units(E \cup {p}, Waits(availsem, p)) = Units(E, availsem)
      <4>1. SoundSem(RdProc, availsem) /\ availsem.ok /\ IsFiniteSet(RdProc)
        BY <1>1, RemoteDiskAssumption DEF Available
      <4> QED
        BY <1>3, <2>2, <4>1, SemQueues, SMTT(30)
    <3>2. Allocating \in SUBSET RdProc /\ p \notin Allocating
      BY <1>1 DEF Allocating
    <3> QED
      BY <3>1, <3>2
  <2>4. Call(op, "alloc", blk, data) \in Calls /\ Call(op, "alloc", blk, data).at = "alloc"
    <3>1. /\ data \in Nat /\ op \in {"read", "write", "sync"}
          /\ (op # "sync" => blk \in Blk) /\ (op = "sync" => blk = 0)
      BY DEF MayAsk
    <3>2. op \in Kinds /\ (op \in {"read", "write"} => blk \in Blk) /\ "alloc" \in {"alloc", "receive"}
      BY <3>1 DEF Kinds
    <3>3. blk \in Int
      <4>1. CASE op = "sync"
        BY <3>1, <4>1
      <4>2. CASE op # "sync"
        BY <3>1, <4>2, DiskBasics
      <4> QED
        BY <4>1, <4>2
    <3> QED
      BY <3>1, <3>2, <3>3, CallIs
  <2>5. /\ rdcall' \in [RdProc -> Calls] /\ rdcall'[p] = Call(op, "alloc", blk, data)
        /\ \A q \in RdProc : q # p => rdcall'[q] = rdcall[q]
    BY <2>1, <2>4 DEF DiskTypes, HoldTypes
  <2>6. Allocating' = Allocating \cup {p}
    BY <2>4, <2>5 DEF Allocating
  <2>7. Available'
    BY <1>1, <2>1, <2>3, <2>6 DEF Available
  <2>8. HoldTypes'
    BY <2>1, <2>5 DEF DiskTypes, HoldTypes
  <2>9. Shape' /\ Goes(p, op, blk, data)
    BY <2>1, WaitShape DEF Goes
  <2> QED
    BY <2>1, <2>7, <2>8, <2>9
<1> QED
  BY <1>2, <1>3

-------------------------------------------------------------------------------
(* The remote disk: the calls *)

\* What is cached is about the block whose number it has.
LEMMA CachedBlock ==
  ASSUME DiskTypes, Shape
  PROVE  \A b \in Cached : On(rdbuf[b]) = rdbuf[b].blk /\ On(rdbuf[b]) \in Blk
BY Listed, FieldTypes DEF Shape, CachedFor

\* A cached copy that is valid is the first in the cache for its block.
LEMMA FirstMatch ==
  ASSUME DiskTypes, Shape, NEW c \in Cached, rdbuf[c].valid
  PROVE  /\ Matching(rdcache, On(rdbuf[c])) # {}
         /\ rdcache[Min(Matching(rdcache, On(rdbuf[c])))] = c
<1> DEFINE k == On(rdbuf[c])
           M == Matching(rdcache, k)
<1>1. rdcache \in Seq(RdBuffer) /\ Len(rdcache) \in Nat /\ DOMAIN rdcache = 1 .. Len(rdcache)
  BY DEF DiskTypes, HoldTypes
<1>2. PICK j \in 1 .. Len(rdcache) : rdcache[j] = c
  BY <1>1 DEF Cached, ToSet
<1>3. /\ M \in SUBSET (1 .. Len(rdcache)) /\ j \in M
      /\ \A i \in M : On(rdbuf[rdcache[i]]) = k
  <2>1. /\ \A i \in 1 .. Len(rdcache) : rdcache[i] \in Cached
        /\ \A b \in Cached : On(rdbuf[b]) = rdbuf[b].blk
    BY Listed, CachedBlock
  <2> QED
    BY <1>1, <1>2, <2>1 DEF Matching
<1> HIDE DEF M, k
<1>4. Min(M) \in M /\ Min(M) <= j
  BY <1>1, <1>3, MinPlace
<1>5. CASE Min(M) = j
  BY <1>2, <1>3, <1>5 DEF M, k
<1>6. CASE Min(M) # j
  <2>1. Min(M) \in 1 .. j - 1
    <3> DEFINE x == Min(M)
    <3>1. x \in 1 .. Len(rdcache)
      BY <1>3, <1>4
    <3>2. x <= j /\ x # j
      BY <1>4, <1>6
    <3> HIDE DEF x
    <3>3. x \in 1 .. j - 1
      BY <1>1, <3>1, <3>2
    <3> QED
      BY <3>3 DEF x
  <2>2. On(rdbuf[rdcache[Min(M)]]) # k
    BY <1>2, <2>1 DEF First, k, Shape, Copies
  <2> QED
    BY <1>3, <1>4, <2>2
<1> QED
  BY <1>5, <1>6

\* A place of the lists that matches.
LEMMA Matches ==
  ASSUME DiskTypes, NEW blk
  PROVE  /\ Matching(rdreq, blk) \in SUBSET (1 .. Len(rdreq)) /\ Matching(rdcache, blk) \in SUBSET (1 .. Len(rdcache))
         /\ \A i \in Matching(rdreq, blk) : rdreq[i] \in Requested /\ rdbuf[rdreq[i]].blk = blk
         /\ \A i \in Matching(rdcache, blk) : rdcache[i] \in Cached /\ rdbuf[rdcache[i]].blk = blk
         /\ \A c \in Requested : rdbuf[c].blk = blk => \E i \in Matching(rdreq, blk) : rdreq[i] = c
         /\ \A c \in Cached : rdbuf[c].blk = blk => \E i \in Matching(rdcache, blk) : rdcache[i] = c
<1>1. /\ DOMAIN rdreq = 1 .. Len(rdreq) /\ DOMAIN rdcache = 1 .. Len(rdcache)
  BY DEF DiskTypes, HoldTypes
<1> QED
  BY <1>1 DEF Matching, Requested, Cached, ToSet

\* Where nobody is in a call about a block, its requests are writes, and current.
LEMMA OnlyWrites ==
  ASSUME DiskTypes, Shape, NEW blk \in Blk, CallsFor(blk) \subseteq {"sync"}, NEW c \in Requested,
         rdbuf[c].blk = blk, rdbuf[c].op # "sync"
  PROVE  rdbuf[c].op = "write" /\ c \in Current(blk) /\ On(rdbuf[c]) = blk
<1>1. RequestOf(c) /\ c \in RdBuffer /\ rdbuf[c].op \in Kinds
  BY Listed, FieldTypes DEF Shape
<1>2. rdbuf[c].op # "read"
  <2> SUFFICES ASSUME rdbuf[c].op = "read"
               PROVE  FALSE
    OBVIOUS
  <2> DEFINE p == rdbuf[c].pid
  <2>1. p \in RdProc /\ rdcall[p].op = "read" /\ On(rdcall[p]) = On(rdbuf[c])
    BY <1>1 DEF RequestOf
  <2>2. rdcall[p].blk = blk
    BY <1>1, <2>1, FieldTypes
  <2> QED
    BY <2>1, <2>2 DEF CallsFor
<1>3. rdbuf[c].op = "write"
  BY <1>1, <1>2 DEF RequestOf, Kinds
<1>4. On(rdbuf[c]) = blk
  BY <1>1, <1>3, FieldTypes
<1> QED
  BY <1>1, <1>3, <1>4 DEF RequestOf, Current

\* What a call for a block may rely on before it asks for a buffer.
LEMMA AloneAsks ==
  ASSUME Careful, DiskTypes, Shape, MayTake, NEW p \in RdProc, rdcall[p] = Idle, NEW blk \in Blk,
         CallsFor(blk) \subseteq {"sync"},
         NEW op \in {"read", "write"}, NEW data \in Nat, \A c \in Requested : On(rdbuf[c]) # blk
  PROVE  MayAsk(p, op, blk, data) /\ rdcall[p].at \notin {"alloc", "receive"}
<1>1. Prompt /\ exch.type # "delete"
  BY DEF MayTake, Careful
<1>2. Idle.at \notin {"alloc", "receive"}
  BY DEF Idle
<1>3. ASSUME NEW q \in RdProc, On(rdcall[q]) = blk
      PROVE  FALSE
  <2>1. rdcall[q].op \in {"read", "write"} /\ rdcall[q].blk = blk
    BY <1>3, FieldTypes, DiskBasics
  <2> QED
    BY <2>1 DEF CallsFor
<1> QED
  BY <1>1, <1>2, <1>3 DEF MayAsk

\* What every call leaves: everything in its place, and no panic for want of buffers.
Fits == Shape /\ HoldTypes /\ Available /\ rdpanic # "buffers"

\* A queued sync is of a call, which has its number.
LEMMA QueuedSync ==
  ASSUME DiskTypes, Shape, NEW b \in Requested, rdbuf[b].op = "sync"
  PROVE  "sync" \in CallsFor(rdbuf[b].blk)
<1> DEFINE p == rdbuf[b].pid
<1>1. b \in RdBuffer /\ p \in RdProc /\ rdcall[p].op = "sync"
  BY Listed DEF Shape, RequestOf
<1>2. rdcall[p].blk = rdbuf[b].blk
  BY <1>1, FieldTypes
<1> QED
  BY <1>1, <1>2 DEF CallsFor

\* rdsread.
LEMMA ReadFits ==
  ASSUME Careful, BuffersInv, NEW p \in RdProc, NEW blk \in Blk, Rdsread(p, blk)
  PROVE  Fits' /\ Goes(p, "read", blk, 0)
<1>1. /\ DiskTypes /\ Shape /\ Available /\ rdpanic # "buffers"
      /\ MayTake /\ rdcall[p] = Idle /\ AtHand(blk) = {} /\ CallsFor(blk) = {}
      /\ availsem' = Waits(availsem, p) /\ Enqueue(p, "read", blk, 0)
      /\ UNCHANGED <<comm, exch>>
  BY DEF BuffersInv, Careful, Rdsread, MayRead, exchVars
<1>2. InCache(blk) = {} /\ InQueue(blk) = {}
  BY <1>1 DEF AtHand
<1>3. ASSUME NEW c \in Requested, On(rdbuf[c]) = blk
      PROVE  FALSE
  <2>0. \A b \in Requested : rdbuf[b].blk = blk => rdbuf[b].op # "sync"
    BY <1>1, QueuedSync
  <2>4. rdbuf[c].blk = blk
    BY <1>1, <1>3, Listed, FieldTypes, DiskBasics
  <2> DEFINE M == Matching(rdreq, blk)
  <2>1. M \in SUBSET (1 .. Len(rdreq)) /\ M # {} /\ Len(rdreq) \in Nat
    BY <1>1, <1>3, <2>4, Matches, Listed
  <2>2. Max(M) \in M
    BY <2>1, MaxPlace
  <2>3. rdbuf[rdreq[Max(M)]].op = "write"
    BY <1>1, <2>0, <2>2, Matches, OnlyWrites
  <2> QED
    BY <1>2, <2>1, <2>3 DEF InQueue
<1>4. Current(blk) = {}
  <2> SUFFICES ASSUME NEW c \in Current(blk)
               PROVE  FALSE
    OBVIOUS
  <2>1. c \in Cached /\ rdbuf[c].valid /\ On(rdbuf[c]) = blk
    BY <1>3 DEF Current
  <2>2. Matching(rdcache, blk) # {} /\ rdcache[Min(Matching(rdcache, blk))] = c
    BY <1>1, <2>1, FirstMatch
  <2> QED
    BY <1>2, <2>1, <2>2 DEF InCache
<1>5. MayAsk(p, "read", blk, 0) /\ rdcall[p].at \notin {"alloc", "receive"}
  BY <1>1, <1>3, AloneAsks
<1> QED
  BY <1>1, <1>4, <1>5, Enqueued DEF Fits

\* rdscontrol's sync.
LEMMA SyncFits ==
  ASSUME Careful, BuffersInv, NEW p \in RdProc, RdsSync(p)
  PROVE  Fits' /\ Goes(p, "sync", 0, 0)
<1>1. /\ DiskTypes /\ Shape /\ Available /\ rdpanic # "buffers"
      /\ MayTake /\ rdcall[p] = Idle
      /\ availsem' = Waits(availsem, p) /\ Enqueue(p, "sync", 0, 0)
      /\ UNCHANGED <<comm, exch>>
  BY DEF BuffersInv, RdsSync, exchVars
<1>2. Prompt /\ exch.type # "delete"
  BY <1>1 DEF MayTake, Careful
<1>3. rdcall[p].at \notin {"alloc", "receive"}
  <2>1. Idle.at \notin {"alloc", "receive"}
    BY DEF Idle
  <2> QED
    BY <1>1, <2>1
<1>4. MayAsk(p, "sync", 0, 0)
  BY <1>2, <1>3 DEF MayAsk
<1> QED
  BY <1>1, <1>3, <1>4, Enqueued DEF Fits

\* A call that has been let through the semaphore.
LEMMA AllocFits ==
  ASSUME Careful, BuffersInv, NEW p \in RdProc, AllocReturns(p)
  PROVE  Fits' /\ Goes(p, rdcall[p].op, rdcall[p].blk, rdcall[p].data)
<1> DEFINE c == rdcall[p]
<1>1. /\ DiskTypes /\ Shape /\ Available /\ rdpanic # "buffers"
      /\ MayTake /\ p \in Entitled /\ Allocate(p, c.op, c.blk, c.data)
      /\ UNCHANGED <<comm, exch, availsem>>
  BY DEF BuffersInv, AllocReturns, exchVars
<1>2. /\ CallOf(p) /\ c.at = "alloc" /\ ~Queued(availsem, p) /\ p \in Allocating
      /\ c.op \in Kinds /\ c.data \in Nat
  BY <1>1, FieldTypes DEF Shape, Entitled, Allocating
<1>3. Prompt /\ exch.type # "delete"
  BY <1>1 DEF MayTake, Careful
<1>4. /\ c.op # "none" /\ (c.op = "sync" <=> On(c) = NoBlk) /\ rdmsg[p] = NoBuffer
      /\ \A q \in RdProc : q # p /\ On(rdcall[q]) = On(c) => On(c) = NoBlk
      /\ On(c) # NoBlk => \A b \in Requested : On(rdbuf[b]) # On(c)
      /\ On(c) # NoBlk => Current(On(c)) = {} /\ c.blk = On(c) /\ c.blk \in Blk
      /\ c.op = "sync" => c.blk = 0
  <2>1. On(c) # NoBlk => c.blk = On(c) /\ c.blk \in Blk
    BY <1>1, FieldTypes
  <2> QED
    BY <1>1, <1>2, <2>1, FieldTypes DEF CallOf, Kinds
<1>5. MayAsk(p, c.op, c.blk, c.data)
  <2>1. c.op \in {"read", "write", "sync"} /\ c.at # "receive"
    BY <1>2, <1>4 DEF Kinds
  <2> HIDE DEF c
  <2> QED
    BY <1>2, <1>3, <1>4, <2>1 DEF MayAsk, c
<1>6. /\ SoundSem(RdProc, availsem) /\ availsem.ok /\ ToSet(availsem.queue) \subseteq Allocating
      /\ Len(rdfree) + Len(rdcache) = Units(Allocating, availsem) /\ IsFiniteSet(RdProc)
      /\ Allocating \in SUBSET RdProc
  BY <1>1, DiskBasics DEF Available, Allocating
<1>7. Units(Allocating \ {p}, availsem) = Units(Allocating, availsem) - 1 /\ Units(Allocating, availsem) >= 1
  BY <1>2, <1>6, SemGoesOn
<1>8. /\ Shape' /\ HoldTypes' /\ rdpanic' = rdpanic
      /\ Len(rdfree') + Len(rdcache') = Len(rdfree) + Len(rdcache) - 1
      /\ Allocating' = Allocating \ {p} /\ Goes(p, c.op, c.blk, c.data)
  <2>1. Len(rdfree) + Len(rdcache) >= 1
    BY <1>6, <1>7
  <2> HIDE DEF c
  <2> QED
    BY <1>1, <1>4, <1>5, <2>1, Allocated
<1>9. ToSet(availsem.queue) \subseteq Allocating \ {p}
  BY <1>2, <1>6 DEF Queued
<1>10. Len(rdfree') + Len(rdcache') = Units(Allocating', availsem')
  <2>1. Len(rdfree) \in Nat /\ Len(rdcache) \in Nat
    BY <1>1, Listed
  <2>2. Units(Allocating', availsem') = Units(Allocating, availsem) - 1
    BY <1>1, <1>7, <1>8
  <2>3. Len(rdfree') + Len(rdcache') = Len(rdfree) + Len(rdcache) - 1
    BY <1>8
  <2> QED
    BY <1>6, <2>1, <2>2, <2>3
<1>11. Available'
  BY <1>1, <1>6, <1>8, <1>9, <1>10 DEF Available
<1> QED
  BY <1>1, <1>8, <1>11 DEF Fits

\* rdswrite: what is queued is replaced, the cached copy taken, or a buffer asked for.
LEMMA WriteFits ==
  ASSUME Careful, BuffersInv, NEW p \in RdProc, NEW blk \in Blk, Rdswrite(p, blk)
  PROVE  Fits' /\ (Goes(p, "write", blk, writes + 1) \/ Replaces(blk, writes + 1))
<1> DEFINE v == writes + 1
           Q == Queuedwrite(blk)
<1>1. /\ DiskTypes /\ Shape /\ Available /\ rdpanic # "buffers" /\ v \in Nat
      /\ MayTake /\ rdcall[p] = Idle /\ CallsFor(blk) \subseteq {"sync"} /\ UNCHANGED <<comm, exch>>
  BY DEF BuffersInv, Careful, Rdswrite, MayWrite, exchVars, DiskTypes, ServeTypes
<1>2. CASE Q # {}
  <2> DEFINE b == rdreq[Min(Q)]
  <2>1. /\ rdbuf' = [rdbuf EXCEPT ![b].data = v] /\ latest' = [latest EXCEPT ![blk] = v]
        /\ UNCHANGED <<rdreq, rdcache, rdfree, availsem, rdcall, rdmsg, rdpanic>>
    BY <1>2 DEF Rdswrite
  <2>2. Q \in SUBSET (1 .. Len(rdreq)) /\ Len(rdreq) \in Nat
    BY <1>1, Matches, Listed DEF Queuedwrite
  <2>3. Min(Q) \in Q
    BY <1>2, <2>2, MinPlace
  <2>4. b \in Requested /\ rdbuf[b].op = "write" /\ On(rdbuf[b]) = blk
    <3>1. Min(Q) \in Matching(rdreq, blk) /\ rdbuf[b].op = "write"
      BY <2>3 DEF Queuedwrite
    <3>2. b \in Requested /\ rdbuf[b].blk = blk
      BY <1>1, <3>1, Matches
    <3> QED
      BY <1>1, <3>1, <3>2, Listed, FieldTypes
  <2> HIDE DEF b, v, Q
  <2>5. Shape' /\ rdbuf' \in [RdBuffer -> Contents] /\ latest' \in [Blk -> Nat]
    BY <1>1, <2>1, <2>4, Replaced
  <2>6. HoldTypes'
    BY <1>1, <2>1, <2>5 DEF DiskTypes, HoldTypes
  <2>7. Available'
    BY <1>1, <2>1 DEF Available, Allocating
  <2>8. Replaces(blk, v)
    BY <2>1, <2>4 DEF Replaces
  <2> QED
    BY <1>1, <2>1, <2>5, <2>6, <2>7, <2>8 DEF Fits, v
<1>3. CASE Q = {}
  <2>1. ASSUME NEW c \in Requested, On(rdbuf[c]) = blk
        PROVE  FALSE
    <3>0. rdbuf[c].blk = blk /\ rdbuf[c].op # "sync"
      BY <1>1, <2>1, Listed, FieldTypes, DiskBasics
    <3>1. PICK i \in Matching(rdreq, blk) : rdreq[i] = c
      BY <1>1, <3>0, Matches
    <3>2. rdbuf[c].op = "write"
      BY <1>1, <3>0, OnlyWrites
    <3> QED
      BY <1>3, <3>1, <3>2 DEF Queuedwrite
  <2>2. MayAsk(p, "write", blk, v) /\ rdcall[p].at \notin {"alloc", "receive"}
    BY <1>1, <2>1, AloneAsks
  <2>3. \A c \in Cached : rdbuf[c].refcnt <= 0
    BY <1>1, <2>2, Unreferred, DiskBasics DEF MayAsk, Shape
  <2>4. \A c \in Current(blk) : /\ c \in Cached /\ Matching(rdcache, blk) # {}
                                /\ c = rdcache[Min(Matching(rdcache, blk))]
    <3> SUFFICES ASSUME NEW c \in Current(blk)
                 PROVE  /\ c \in Cached /\ Matching(rdcache, blk) # {}
                        /\ c = rdcache[Min(Matching(rdcache, blk))]
      OBVIOUS
    <3>1. c \in Cached /\ rdbuf[c].valid /\ On(rdbuf[c]) = blk
      BY <2>1 DEF Current
    <3> QED
      BY <1>1, <3>1, FirstMatch
  <2> DEFINE C == Cachedcopy(blk)
             c == rdcache[Min(Matching(rdcache, blk))]
  <2>5. Matching(rdcache, blk) # {} => C = {c} /\ c \in Cached
    <3> SUFFICES ASSUME Matching(rdcache, blk) # {}
                 PROVE  C = {c} /\ c \in Cached
      OBVIOUS
    <3>1. Min(Matching(rdcache, blk)) \in Matching(rdcache, blk)
      BY <1>1, Matches, Listed, MinPlace
    <3>2. c \in Cached
      BY <1>1, <3>1, Matches
    <3> QED
      BY <2>3, <3>2 DEF Cachedcopy
  <2>6. CASE C = {}
    <3>1. Current(blk) = {}
      BY <2>4, <2>5, <2>6
    <3>2. availsem' = Waits(availsem, p) /\ Enqueue(p, "write", blk, v)
      BY <1>3, <2>6 DEF Rdswrite
    <3> HIDE DEF v
    <3>4. Fits' /\ Goes(p, "write", blk, v)
      BY <1>1, <2>2, <3>1, <3>2, Enqueued DEF Fits
    <3> QED
      BY <3>4 DEF v
  <2>7. CASE C # {}
    <3>1. C = {c} /\ c \in Cached /\ Current(blk) \subseteq {c}
      <4>1. Matching(rdcache, blk) # {}
        BY <2>7 DEF Cachedcopy
      <4> QED
        BY <2>4, <2>5, <4>1
    <3>2. (CHOOSE b \in Cachedcopy(blk) : TRUE) = c
      BY <3>1
    <3>3. /\ availsem.count > 0 /\ rdcache' = Without(rdcache, c) /\ Request(p, "write", blk, v, c)
          /\ availsem' = OneTaken(availsem) /\ UNCHANGED <<rdfree, rdpanic>>
      BY <1>3, <2>7, <3>2 DEF Rdswrite, Careful
    <3> HIDE DEF v, Q, C, c
    <3>4. Without(rdfree, c) = rdfree
      <4>1. c \notin ToSet(rdfree) /\ rdfree \in Seq(RdBuffer) /\ IsInjective(rdfree)
        BY <1>1, <3>1 DEF Shape, Lists, Spare, DiskTypes, HoldTypes
      <4> QED
        BY <4>1, WithoutFacts
    <3>5. Asks(p, "write", blk, v, c) /\ Lists
      BY <1>1, <3>1, <3>3, <3>4 DEF Asks, Shape
    <3>6. Shape'
      BY <1>1, <2>2, <3>5, AsksShape
    <3>7. /\ HoldTypes' /\ Len(rdfree') + Len(rdcache') = Len(rdfree) + Len(rdcache) - 1
          /\ rdcall'[p] = Idle /\ \A q \in RdProc : q # p => rdcall'[q] = rdcall[q]
      BY <1>1, <2>2, <3>5, AsksFacts, AsksLists DEF HoldTypes
    <3>8. Allocating' = Allocating
      BY <1>1, <3>7 DEF Allocating
    <3>9. /\ SoundSem(RdProc, availsem) /\ availsem.ok /\ ToSet(availsem.queue) \subseteq Allocating
          /\ Len(rdfree) + Len(rdcache) = Units(Allocating, availsem) /\ IsFiniteSet(RdProc)
          /\ Allocating \in SUBSET RdProc
      BY <1>1, DiskBasics DEF Available, Allocating
    <3> DEFINE n == availsem.count - 1
    <3>10. n \in Nat /\ availsem.count \in Int /\ availsem' = Emptied(availsem, n) /\ availsem' = NewSem(n)
      <4>1. availsem.count \in Int
        BY <3>9, SemFacts
      <4> QED
        BY <3>3, <3>9, <4>1 DEF OneTaken, Emptied
    <3>11. /\ SoundSem(RdProc, availsem') /\ availsem'.ok /\ ToSet(availsem'.queue) = {}
           /\ availsem'.count = n
      <4>1. /\ SoundSem(RdProc, NewSem(n)) /\ NewSem(n).ok /\ ToSet(NewSem(n).queue) = {}
        BY <3>9, <3>10, SemFresh
      <4>2. NewSem(n).count = n
        BY DEF NewSem
      <4> QED
        BY <3>10, <4>1, <4>2
    <3> HIDE DEF n
    <3>12. Units(Allocating, availsem') = Units(Allocating, availsem) - 1
      <4>1. /\ Units(Allocating, availsem') = Avail(availsem') + Cardinality(Allocating)
            /\ Cardinality(Allocating) \in Nat
        <5>1. availsem'.count >= 0
          BY <3>10, <3>11
        <5> QED
          BY <3>9, <3>11, <5>1, SemUnits
      <4>2. Units(Allocating, availsem) = Avail(availsem) + Cardinality(Allocating)
        <5>1. availsem.count >= 0
          BY <3>3, <3>10
        <5> QED
          BY <3>9, <5>1, SemUnits
      <4>3. Avail(availsem') = n /\ Avail(availsem) = availsem.count
        BY <3>3, <3>10, <3>11 DEF Avail
      <4> QED
        BY <3>10, <4>1, <4>2, <4>3 DEF n
    <3>13. Len(rdfree') + Len(rdcache') = Units(Allocating', availsem')
      <4>1. Len(rdfree) \in Nat /\ Len(rdcache) \in Nat
        BY <1>1, Listed
      <4> QED
        BY <3>7, <3>8, <3>9, <3>12, <4>1
    <3>14. Available'
      BY <3>8, <3>11, <3>13 DEF Available
    <3>15. Goes(p, "write", blk, v)
      BY <2>2, <3>1, <3>5 DEF Goes
    <3> QED
      BY <1>1, <3>3, <3>6, <3>7, <3>14, <3>15 DEF Fits, v
  <2> QED
    BY <2>6, <2>7
<1> QED
  BY <1>2, <1>3

-------------------------------------------------------------------------------
(* The server *)

\* What it asks.
LEMMA AskTyped ==
  ASSUME DiskTypes, NEW type \in Exchanges, NEW blk \in Blk \cup {0}, NEW data \in Nat,
         type \in {"read", "write"} => blk \in Blk
  PROVE  Ask(type, blk, data) \in Datagram
<1> DEFINE a == Ask(type, blk, data)
<1>1. rdseq \in Nat
  BY DEF DiskTypes, ServeTypes
<1>2. a \in Datagrams
  BY <1>1 DEF Ask, Datagrams
<1>3. a.type = type /\ a.blk = blk
  BY DEF Ask
<1> HIDE DEF a
<1> QED
  BY <1>2, <1>3 DEF Datagram, a

\* rdscomm begins.
LEMMA Exchanged ==
  ASSUME DiskTypes, NEW type \in Exchanges, NEW blk \in Blk \cup {0}, NEW data \in Nat,
         type \in {"read", "write"} => blk \in Blk, StartExchange(type, blk, data)
  PROVE  /\ net' \in SUBSET Datagram /\ exch' \in Exchange \cup {NoExchange} /\ rdseq' \in Nat
         /\ exch'.type = type /\ exch'.seq = rdseq /\ exch'.ask = Ask(type, blk, data)
         /\ rdseq' = rdseq + 1 /\ net' = net \cup {Ask(type, blk, data)} /\ exch'.tries = 1
<1> DEFINE a == Ask(type, blk, data)
<1>1. rdseq \in Nat /\ net \in SUBSET Datagram
  BY DEF DiskTypes, ServeTypes
<1>2. a \in Datagram
  BY AskTyped
<1> HIDE DEF a
<1>3. /\ rdseq' = rdseq + 1 /\ exch' = [type |-> type, seq |-> rdseq, tries |-> 1, ask |-> a]
      /\ net' = net \cup {a}
  BY DEF StartExchange, a
<1>4. exch' \in Exchange
  BY <1>1, <1>2, <1>3 DEF Exchange
<1> QED
  BY <1>1, <1>2, <1>3, <1>4 DEF a

\* A request that is sent again, or a try that is used up.
LEMMA TriedAgain ==
  ASSUME DiskTypes, exch # NoExchange, exch' = [exch EXCEPT !.tries = @ + 1]
  PROVE  /\ exch' \in Exchange /\ exch'.type = exch.type /\ exch'.seq = exch.seq /\ exch'.ask = exch.ask
         /\ exch.ask \in Datagram
<1>1. exch \in Exchange /\ exch.tries + 1 \in Nat /\ exch.ask \in Datagram
  <2>1. exch \in Exchange /\ exch.tries \in Nat /\ exch.ask \in Datagram
    BY FieldTypes
  <2> QED
    BY <2>1
<1> DEFINE n == exch.tries + 1
<1>2. exch' = [exch EXCEPT !.tries = n] /\ n \in Nat
  BY <1>1
<1> HIDE DEF n
<1> QED
  BY <1>1, <1>2 DEF Exchange

\* What only the exchange with the server changes, and for the stage of rdsprocess.
LEMMA ServeFits ==
  ASSUME BuffersInv, UNCHANGED <<rdbuf, rdreq, rdcache, rdfree, availsem, rdcall, rdmsg, latest>>,
         rdpanic' # "buffers", Process'
  PROVE  Fits'
<1>1. Shape'
  BY ExchangeShape DEF BuffersInv
<1>2. HoldTypes'
  BY DEF BuffersInv, DiskTypes, HoldTypes
<1>3. Available'
  BY DEF BuffersInv, Available, Allocating
<1> QED
  BY <1>1, <1>2, <1>3 DEF Fits

\* The opening of the disk and its deletion, requests that are sent and sent again, what
\* the server does, and the end of the tries.
Serving ==
  \/ Rdsopen \/ RdsopenRefused \/ RdsDelete \/ StartRead \/ RdsTimeout \/ GivesUp
  \/ \E m \in net : Server(m) \/ RdsIgnore(m) \/ EndWrite(m) \/ RdsopenReturns(m)

\* Each leaves the buffers alone.
LEMMA ServingFits ==
  ASSUME BuffersInv, Serving
  PROVE  Fits' /\ ServeTypes' /\ ruined' = ruined
<1>1. /\ DiskTypes /\ Shape /\ Process /\ rdpanic # "buffers"
      /\ disk \in [Blk -> Nat] /\ before \in [RdProc -> [Blk -> Nat]]
      /\ writes \in Nat /\ rdseq \in Nat /\ msgblk \in Blk \cup {NoBlk} /\ comm \in RdBuffer \cup {"wait"}
      /\ net \in SUBSET Datagram /\ exch \in Exchange \cup {NoExchange}
  BY DEF BuffersInv, Shape, DiskTypes, ServeTypes
<1>2. /\ 0 \in Blk \cup {0} /\ 0 \in Nat /\ "open" \in Exchanges /\ "delete" \in Exchanges
      /\ "read" \in Exchanges /\ NoExchange.type = "none" /\ "wait" \notin RdBuffer
  BY DiskBasics DEF Exchanges, NoExchange
<1>3. CASE Rdsopen
  <2>1. /\ StartExchange("open", 0, 0) /\ exch = NoExchange
        /\ UNCHANGED <<rdbuf, rdreq, rdcache, rdfree, availsem, rdcall, rdmsg, latest, before, writes, comm,
                       msgblk, disk, rdpanic, ruined>>
    BY <1>3 DEF Rdsopen, listVars
  <2>2. exch'.type = "open" /\ net' \in SUBSET Datagram /\ exch' \in Exchange \cup {NoExchange} /\ rdseq' \in Nat
    BY <1>1, <1>2, <2>1, Exchanged
  <2>3. Process'
    BY <1>1, <1>2, <2>1, <2>2 DEF Process
  <2>4. ServeTypes'
    BY <1>1, <2>1, <2>2 DEF ServeTypes
  <2> QED
    BY <1>1, <2>1, <2>3, <2>4, ServeFits
<1>4. CASE RdsDelete
  <2>1. /\ StartExchange("delete", 0, 0) /\ exch = NoExchange /\ comm = "wait" /\ rdreq = <<>> /\ Quiet
        /\ UNCHANGED <<rdbuf, rdreq, rdcache, rdfree, availsem, rdcall, rdmsg, latest, before, writes, comm,
                       msgblk, disk, rdpanic, ruined>>
    BY <1>4 DEF RdsDelete, listVars
  <2>2. exch'.type = "delete" /\ net' \in SUBSET Datagram /\ exch' \in Exchange \cup {NoExchange} /\ rdseq' \in Nat
    BY <1>1, <1>2, <2>1, Exchanged
  <2>3. Process'
    BY <1>1, <1>2, <2>1, <2>2 DEF Process, Quiet
  <2>4. ServeTypes'
    BY <1>1, <2>1, <2>2 DEF ServeTypes
  <2> QED
    BY <1>1, <2>1, <2>3, <2>4, ServeFits
<1>5. CASE StartRead
  <2>1. /\ rdreq # <<>> /\ rdbuf[Head(rdreq)].op = "read" /\ comm' = Head(rdreq)
        /\ UNCHANGED <<rdbuf, rdreq, rdcache, rdfree, availsem, rdcall, rdmsg, latest, before, writes,
                       disk, rdpanic, ruined>>
    BY <1>5 DEF StartRead
  <2>2. PICK blk \in (IF msgblk = NoBlk THEN Blk ELSE {msgblk}) : msgblk' = blk /\ StartExchange("read", blk, 0)
    BY <1>5 DEF StartRead
  <2>3. blk \in Blk
    BY <1>1
  <2>4. exch'.type = "read" /\ net' \in SUBSET Datagram /\ exch' \in Exchange \cup {NoExchange} /\ rdseq' \in Nat
    BY <1>1, <1>2, <2>2, <2>3, Exchanged
  <2>5. comm' \in RdBuffer /\ comm' # "wait"
    BY <1>1, <1>2, <2>1, Listed
  <2>6. Process'
    BY <2>1, <2>4, <2>5 DEF Process
  <2>7. ServeTypes'
    BY <1>1, <2>1, <2>2, <2>3, <2>4, <2>5 DEF ServeTypes
  <2> QED
    BY <1>1, <2>1, <2>6, <2>7, ServeFits
<1>6. CASE RdsTimeout \/ \E m \in net : RdsIgnore(m)
  <2>1. /\ exch # NoExchange /\ exch' = [exch EXCEPT !.tries = @ + 1] /\ net' \subseteq net \cup {exch.ask}
        /\ UNCHANGED <<rdbuf, rdreq, rdcache, rdfree, availsem, rdcall, rdmsg, latest, before, writes, comm,
                       rdseq, msgblk, disk, rdpanic, ruined>>
    <3>1. CASE RdsTimeout
      BY <3>1 DEF RdsTimeout, listVars
    <3>2. CASE \E m \in net : RdsIgnore(m)
      BY <3>2 DEF RdsIgnore, listVars
    <3> QED
      BY <1>6, <3>1, <3>2
  <2>2. exch' \in Exchange /\ exch'.type = exch.type /\ exch.ask \in Datagram
    BY <1>1, <2>1, TriedAgain
  <2>3. Process'
    BY <1>1, <2>1, <2>2 DEF Process, Quiet
  <2>4. ServeTypes'
    BY <1>1, <2>1, <2>2 DEF ServeTypes
  <2> QED
    BY <1>1, <2>1, <2>3, <2>4, ServeFits
<1>7. CASE GivesUp
  <2>1. UNCHANGED <<rdbuf, rdreq, rdcache, rdfree, availsem, rdcall, rdmsg, latest, before, writes,
                    rdseq, msgblk, disk, ruined>>
    BY <1>7 DEF GivesUp, listVars
  <2>2. \/ exch' = NoExchange /\ net' \in {{}, net} /\ comm' = "wait" /\ rdpanic' = rdpanic
        \/ exch' = exch /\ net' = net /\ comm' = comm /\ rdpanic' = "server"
    BY <1>7 DEF GivesUp
  <2>3. Process'
    BY <1>1, <1>2, <2>1, <2>2 DEF Process, Quiet
  <2>4. ServeTypes' /\ rdpanic' # "buffers"
    BY <1>1, <2>1, <2>2 DEF ServeTypes
  <2> QED
    BY <2>1, <2>3, <2>4, ServeFits
<1>8. ASSUME NEW m \in net, Server(m)
      PROVE  Fits' /\ ServeTypes' /\ ruined' = ruined
  <2>1. UNCHANGED <<rdbuf, rdreq, rdcache, rdfree, availsem, rdcall, rdmsg, latest, before, writes, comm,
                    rdseq, exch, msgblk, rdpanic, ruined>>
    BY <1>8 DEF Server, listVars
  <2>2. disk' \in [Blk -> Nat]
    <3>1. m.data \in Nat
      BY <1>1, FieldTypes
    <3> QED
      BY <1>1, <1>8, <3>1 DEF Server
  <2> DEFINE d == IF m.type = "read" THEN disk[m.blk] ELSE 0
             r == [m EXCEPT !.kind = "reply", !.data = d]
  <2>3. r \in Datagram
    <3>1. m \in Datagram /\ (m.type = "read" => m.blk \in Blk)
      BY <1>1, FieldTypes
    <3>2. d \in Nat
      BY <1>1, <3>1
    <3> HIDE DEF d
    <3>3. r \in Datagrams /\ r.type = m.type /\ r.blk = m.blk
      BY <3>1, <3>2 DEF Datagram, Datagrams
    <3> HIDE DEF r
    <3> QED
      BY <3>1, <3>3 DEF Datagram
  <2>4. net' \in SUBSET Datagram
    <3>1. net' = (net \ {m}) \cup {r}
      BY <1>8 DEF Server
    <3> HIDE DEF r
    <3> QED
      BY <1>1, <2>3, <3>1
  <2>5. Process'
    BY <1>1, <2>1 DEF Process, Quiet
  <2>6. ServeTypes'
    BY <1>1, <2>1, <2>2, <2>4 DEF ServeTypes
  <2> QED
    BY <1>1, <2>1, <2>5, <2>6, ServeFits
<1>9. ASSUME NEW m \in net, EndWrite(m) \/ RdsopenReturns(m)
      PROVE  Fits' /\ ServeTypes' /\ ruined' = ruined
  <2>1. /\ net' = net \ {m} /\ exch' = NoExchange
        /\ UNCHANGED <<rdbuf, rdreq, rdcache, rdfree, availsem, rdcall, rdmsg, latest, before, writes,
                       rdseq, msgblk, disk, rdpanic, ruined>>
    BY <1>9 DEF EndWrite, RdsopenReturns, listVars
  <2>2. comm' = "wait"
    <3>1. CASE EndWrite(m)
      BY <3>1 DEF EndWrite
    <3>2. CASE RdsopenReturns(m)
      BY <1>1, <3>2 DEF RdsopenReturns, Process
    <3> QED
      BY <1>9, <3>1, <3>2
  <2>3. Process'
    BY <1>2, <2>1, <2>2 DEF Process
  <2>4. ServeTypes'
    BY <1>1, <2>1, <2>2 DEF ServeTypes
  <2> QED
    BY <1>1, <2>1, <2>3, <2>4, ServeFits
<1>10. CASE RdsopenRefused
  <2>1. /\ rdseq' = rdseq + 1 /\ net' = net \cup {Ask("open", 0, 0)} /\ exch' = exch
        /\ UNCHANGED <<rdbuf, rdreq, rdcache, rdfree, availsem, rdcall, rdmsg, latest, before, writes, comm,
                       msgblk, disk, rdpanic, ruined>>
    BY <1>10 DEF RdsopenRefused, listVars
  <2>2. Ask("open", 0, 0) \in Datagram
    BY <1>1, <1>2, AskTyped
  <2>3. Process'
    BY <1>1, <2>1 DEF Process, Quiet
  <2>4. ServeTypes'
    BY <1>1, <2>1, <2>2 DEF ServeTypes
  <2> QED
    BY <1>1, <2>1, <2>3, <2>4, ServeFits
<1> QED
  BY <1>3, <1>4, <1>5, <1>6, <1>7, <1>8, <1>9, <1>10 DEF Serving

\* No other request has the number of the block that a read is for.
LEMMA NoneShares ==
  ASSUME DiskTypes, Shape, SyncsApart, rdreq # <<>>, rdbuf[Head(rdreq)].op = "read"
  PROVE  Sharing(Head(rdreq), Tail(rdreq)) = {}
<1> DEFINE b == Head(rdreq)
           queue == Tail(rdreq)
<1>1. /\ b \in Requested /\ RequestOf(b) /\ b \in RdBuffer
      /\ rdreq \in Seq(RdBuffer) /\ IsInjective(rdreq)
  BY Listed DEF Shape, Lists, DiskTypes, HoldTypes
<1>2. ToSet(queue) = Requested \ {b}
  BY <1>1, HeadOut DEF Requested
<1>3. ASSUME NEW c \in Requested, c # b
      PROVE  rdbuf[c].blk # rdbuf[b].blk
  <2> DEFINE p == rdbuf[b].pid
             q == rdbuf[c].pid
  <2>1. c \in RdBuffer /\ RequestOf(c) /\ On(rdbuf[c]) # On(rdbuf[b]) /\ rdbuf[b].op = "read"
    BY <1>1, <1>3, Listed DEF Shape, RequestOf
  <2>2. On(rdbuf[b]) = rdbuf[b].blk /\ rdbuf[c].op \in Kinds /\ rdbuf[c].op # "none"
    BY <1>1, <2>1, FieldTypes DEF RequestOf
  <2>3. CASE rdbuf[c].op \in {"read", "write"}
    BY <2>1, <2>2, <2>3, FieldTypes
  <2>4. CASE rdbuf[c].op = "sync"
    <3>1. p \in RdProc /\ rdcall[p].op = "read" /\ On(rdcall[p]) = On(rdbuf[b])
      BY <1>1, <2>1 DEF RequestOf
    <3>2. q \in RdProc /\ rdcall[q].op = "sync" /\ rdbuf[c].blk = 0
      BY <2>1, <2>4, FieldTypes DEF RequestOf
    <3>3. rdcall[p].blk = rdbuf[b].blk
      BY <2>2, <3>1, FieldTypes
    <3> QED
      BY <3>1, <3>2, <3>3 DEF SyncsApart
  <2> QED
    BY <2>2, <2>3, <2>4 DEF Kinds
<1>4. ASSUME NEW i \in DOMAIN queue
      PROVE  rdbuf[queue[i]].blk # rdbuf[b].blk
  <2>1. queue[i] \in ToSet(queue)
    BY DEF ToSet
  <2> QED
    BY <1>2, <1>3, <2>1
<1> HIDE DEF b, queue
<1> QED
  BY <1>4 DEF Sharing, b, queue

\* What the end of a read changes: no other request is answered with it.
LEMMA ReadEnds ==
  ASSUME BuffersInv, NEW m \in net, EndRead(m)
  PROVE  LET b == Head(rdreq) IN
         /\ rdreq # <<>> /\ b = comm /\ rdbuf[b].op = "read" /\ m.data \in Nat
         /\ rdbuf' = [rdbuf EXCEPT ![b].data = m.data, ![b].refcnt = 1]
         /\ rdreq' = Tail(rdreq) /\ rdcache' = <<b>> \o rdcache /\ rdmsg' = [rdmsg EXCEPT ![rdbuf[b].pid] = b]
         /\ availsem' = Signaled(availsem) /\ net' = net \ {m} /\ exch' = NoExchange /\ comm' = "wait"
         /\ UNCHANGED <<rdfree, rdcall, latest, rdseq, msgblk, disk, before, writes, rdpanic>>
         /\ ~ruined'
<1> DEFINE b == Head(rdreq)
<1>1. DiskTypes /\ Shape /\ SyncsApart /\ Process
  BY DEF BuffersInv, Shape
<1>2. rdreq # <<>> /\ b = comm /\ rdbuf[b].op = "read"
  BY <1>1 DEF EndRead, Process
<1>3. m.data \in Nat
  BY <1>1, FieldTypes
<1>4. Sharing(b, Tail(rdreq)) = {}
  BY <1>1, <1>2, NoneShares
<1> HIDE DEF b
<1>5. /\ rdbuf' = [rdbuf EXCEPT ![b].data = m.data, ![b].refcnt = 1 + Cardinality({})]
      /\ rdreq' = Tail(rdreq) /\ rdcache' = <<b>> \o rdcache
      /\ rdmsg' = [p \in RdProc |-> IF \E c \in {b} \cup {} : rdbuf[c].pid = p THEN b ELSE rdmsg[p]]
      /\ availsem' = Signaled(availsem) /\ net' = net \ {m} /\ exch' = NoExchange /\ comm' = "wait"
      /\ UNCHANGED <<rdfree, rdcall, latest, rdseq, msgblk, disk, before, writes, rdpanic>>
      /\ ruined' = ({} # {})
  BY <1>2, <1>4 DEF EndRead
<1>6. 1 + Cardinality({}) = 1
  BY FS_EmptySet
<1>7. rdmsg' = [rdmsg EXCEPT ![rdbuf[b].pid] = b]
  BY <1>1, <1>5 DEF DiskTypes, HoldTypes
<1>8. rdbuf' = [rdbuf EXCEPT ![b].data = m.data, ![b].refcnt = 1]
  BY <1>5, <1>6
<1> QED
  BY <1>2, <1>3, <1>5, <1>7, <1>8 DEF b

\* A read ends: its buffer is cached.
LEMMA EndReadFits ==
  ASSUME BuffersInv, NEW m \in net, EndRead(m)
  PROVE  Fits' /\ ServeTypes' /\ ~ruined'
<1> DEFINE b == Head(rdreq)
<1>1. DiskTypes /\ Shape /\ Available /\ Process /\ Lists /\ rdpanic # "buffers"
  BY DEF BuffersInv, Shape
<1>2. rdreq # <<>> /\ b = comm /\ rdbuf[b].op = "read"
  BY ReadEnds
<1>3. m.data \in Nat
  BY ReadEnds
<1>4. /\ rdbuf' = [rdbuf EXCEPT ![b].data = m.data, ![b].refcnt = 1]
      /\ rdreq' = Tail(rdreq) /\ rdcache' = <<b>> \o rdcache /\ rdmsg' = [rdmsg EXCEPT ![rdbuf[b].pid] = b]
      /\ availsem' = Signaled(availsem) /\ net' = net \ {m} /\ exch' = NoExchange /\ comm' = "wait"
      /\ UNCHANGED <<rdfree, rdcall, latest, rdseq, msgblk, disk, before, writes, rdpanic>>
      /\ ~ruined'
  BY ReadEnds
<1>5. Process'
  BY <1>4 DEF Process, NoExchange
<1>6. /\ Shape' /\ rdbuf' \in [RdBuffer -> Contents] /\ rdmsg' \in [RdProc -> RdBuffer \cup {"ok", NoBuffer}]
  BY <1>1, <1>2, <1>3, <1>4, <1>5, ReadCached
<1>7. /\ Len(rdfree') + Len(rdcache') = Len(rdfree) + Len(rdcache) + 1
      /\ rdreq' \in Seq(RdBuffer) /\ rdcache' \in Seq(RdBuffer) /\ rdfree' \in Seq(RdBuffer)
  BY <1>1, <1>2, <1>4, HeadCached
<1>8. Available'
  BY <1>1, <1>4, <1>7, GivenBack
<1>9. HoldTypes'
  BY <1>1, <1>4, <1>6, <1>7 DEF DiskTypes, HoldTypes
<1>10. ServeTypes'
  BY <1>1, <1>4 DEF DiskTypes, ServeTypes
<1> QED
  BY <1>1, <1>4, <1>6, <1>8, <1>9, <1>10 DEF Fits

\* A write begins: its buffer is cached before its contents are sent.
LEMMA StartWriteFits ==
  ASSUME BuffersInv, StartWrite
  PROVE  Fits' /\ ServeTypes' /\ ~ruined'
<1> DEFINE b == Head(rdreq)
<1>1. DiskTypes /\ Shape /\ Available /\ Process /\ Lists /\ rdpanic # "buffers" /\ ~ruined
  BY DEF BuffersInv, Shape
<1>2. /\ rdreq # <<>> /\ rdbuf[b].op = "write" /\ comm' = b /\ msgblk' = rdbuf[b].blk
      /\ StartExchange("write", rdbuf[b].blk, rdbuf[b].data)
      /\ rdreq' = Tail(rdreq) /\ rdcache' = <<b>> \o rdcache /\ availsem' = Signaled(availsem)
      /\ UNCHANGED <<rdbuf, rdfree, disk, rdcall, rdmsg, latest, before, writes, rdpanic, ruined>>
  BY DEF StartWrite
<1>3. b \in RdBuffer /\ RequestOf(b) /\ rdbuf[b].data \in Nat /\ rdbuf[b].blk \in Blk
  <2>1. b \in Requested /\ b \in RdBuffer
    BY <1>1, <1>2, Listed
  <2> QED
    BY <1>1, <1>2, <2>1, FieldTypes DEF Shape, RequestOf
<1>4. exch'.type = "write" /\ net' \in SUBSET Datagram /\ exch' \in Exchange \cup {NoExchange} /\ rdseq' \in Nat
  <2>1. "write" \in Exchanges
    BY DEF Exchanges
  <2> HIDE DEF b
  <2> QED
    BY <1>1, <1>2, <1>3, <2>1, Exchanged
<1>5. Process'
  BY <1>2, <1>3, <1>4, DiskBasics DEF Process
<1>6. Shape'
  BY <1>1, <1>2, <1>5, WriteCached
<1>7. /\ Len(rdfree') + Len(rdcache') = Len(rdfree) + Len(rdcache) + 1
      /\ rdreq' \in Seq(RdBuffer) /\ rdcache' \in Seq(RdBuffer) /\ rdfree' \in Seq(RdBuffer)
  BY <1>1, <1>2, HeadCached
<1>8. Available'
  BY <1>1, <1>2, <1>7, GivenBack
<1>9. HoldTypes'
  BY <1>1, <1>2, <1>7 DEF DiskTypes, HoldTypes
<1>10. ServeTypes'
  BY <1>1, <1>2, <1>3, <1>4 DEF DiskTypes, ServeTypes
<1> QED
  BY <1>1, <1>2, <1>6, <1>8, <1>9, <1>10 DEF Fits

\* A sync has reached the head of the queue.
LEMMA SyncReachedFits ==
  ASSUME BuffersInv, SyncReached
  PROVE  Fits' /\ ServeTypes' /\ ~ruined'
<1> DEFINE b == Head(rdreq)
<1>1. DiskTypes /\ Shape /\ Available /\ Process /\ Lists /\ rdpanic # "buffers" /\ ~ruined
  BY DEF BuffersInv, Shape
<1>2. /\ rdreq # <<>> /\ rdbuf[b].op = "sync" /\ comm = "wait"
      /\ rdmsg' = [rdmsg EXCEPT ![rdbuf[b].pid] = "ok"]
      /\ rdreq' = Tail(rdreq) /\ rdfree' = <<b>> \o rdfree /\ availsem' = Signaled(availsem)
      /\ UNCHANGED <<rdbuf, rdcache, rdseq, exch, net, comm, msgblk, disk, rdcall, latest, before, writes,
                     rdpanic, ruined>>
  BY DEF SyncReached, Taking, exchVars
<1>3. exch.type # "read"
  BY <1>1, <1>2 DEF Process
<1>4. Shape'
  BY <1>1, <1>2, <1>3, SyncFreed
<1>5. /\ Len(rdfree') + Len(rdcache') = Len(rdfree) + Len(rdcache) + 1
      /\ rdreq' \in Seq(RdBuffer) /\ rdcache' \in Seq(RdBuffer) /\ rdfree' \in Seq(RdBuffer)
  BY <1>1, <1>2, HeadFreed
<1>6. Available'
  BY <1>1, <1>2, <1>5, GivenBack
<1>7. rdmsg' \in [RdProc -> RdBuffer \cup {"ok", NoBuffer}]
  BY <1>1, <1>2 DEF DiskTypes, HoldTypes
<1>8. HoldTypes'
  BY <1>1, <1>2, <1>5, <1>7 DEF DiskTypes, HoldTypes
<1>9. ServeTypes'
  BY <1>1, <1>2 DEF DiskTypes, ServeTypes
<1> QED
  BY <1>1, <1>2, <1>4, <1>6, <1>8, <1>9 DEF Fits

\* A sync returns.
LEMMA SyncReturnsFits ==
  ASSUME BuffersInv, NEW p \in RdProc, RdsSyncReturns(p)
  PROVE  Fits' /\ ServeTypes' /\ ~ruined'
<1>1. DiskTypes /\ Shape /\ Available /\ Lists /\ First(rdcache) /\ rdpanic # "buffers" /\ ~ruined
  BY DEF BuffersInv, Shape, Copies
<1>2. /\ rdcall[p].op = "sync" /\ rdcall[p].at = "receive" /\ rdmsg[p] # NoBuffer
      /\ rdcall' = [rdcall EXCEPT ![p] = Idle] /\ rdmsg' = [rdmsg EXCEPT ![p] = NoBuffer]
      /\ UNCHANGED <<rdbuf, rdreq, rdcache, rdfree, availsem, rdseq, exch, net, comm, msgblk, disk, latest,
                     before, writes, rdpanic, ruined>>
  BY DEF RdsSyncReturns, listVars, exchVars
<1>3. /\ Requested' = Requested /\ Cached' = Cached /\ Lists' /\ First(rdcache)'
  BY <1>1, <1>2 DEF Requested, Cached, Spare, Lists, First
<1>4. Shape'
  BY <1>1, <1>2, <1>3, Returned
<1>5. Idle \in Calls /\ Idle.at # "alloc"
  BY CallIs
<1>6. HoldTypes'
  <2>1. rdcall' \in [RdProc -> Calls] /\ rdmsg' \in [RdProc -> RdBuffer \cup {"ok", NoBuffer}]
    BY <1>1, <1>2, <1>5 DEF DiskTypes, HoldTypes
  <2> QED
    BY <1>1, <1>2, <2>1 DEF DiskTypes, HoldTypes
<1>7. Allocating' = Allocating
  BY <1>1, <1>2, <1>5 DEF DiskTypes, HoldTypes, Allocating
<1>8. Available'
  BY <1>1, <1>2, <1>7, AsMany
<1>9. ServeTypes'
  BY <1>1, <1>2 DEF DiskTypes, ServeTypes
<1> QED
  BY <1>1, <1>2, <1>4, <1>6, <1>8, <1>9 DEF Fits

\* A read returns: its buffer is nobody's, and freed if it is not the first copy.
LEMMA ReadReturnsFits ==
  ASSUME BuffersInv, NEW p \in RdProc, RdsreadReturns(p)
  PROVE  Fits' /\ ServeTypes' /\ ~ruined'
<1> DEFINE b == rdmsg[p]
<1>1. DiskTypes /\ Shape /\ Available /\ Lists /\ First(rdcache) /\ rdpanic # "buffers"
  BY DEF BuffersInv, Shape, Copies
<1>2. /\ rdcall[p].op = "read" /\ rdcall[p].at = "receive" /\ b # NoBuffer
      /\ rdbuf' = [rdbuf EXCEPT ![b].refcnt = rdbuf[b].refcnt - 1]
      /\ \/ UNCHANGED <<rdcache, rdfree>>
         \/ rdcache' = Without(rdcache, b) /\ rdfree' = <<b>> \o rdfree
      /\ ruined' = (rdbuf[b].refcnt - 1 <= 0 /\ b \notin ToSet(rdcache))
      /\ rdcall' = [rdcall EXCEPT ![p] = Idle] /\ rdmsg' = [rdmsg EXCEPT ![p] = NoBuffer]
      /\ UNCHANGED <<rdreq, availsem, rdseq, exch, net, comm, msgblk, disk, latest, before, writes, rdpanic>>
  <2> DEFINE earlier == {j \in DOMAIN rdcache : /\ \A i \in 1 .. j : rdcache[i] # b
                                                /\ rdbuf[rdcache[j]].blk = rdcall[p].blk}
             left == rdbuf[b].refcnt - 1
  <2>1. IF left > 0 \/ earlier = {} THEN UNCHANGED <<rdcache, rdfree>>
        ELSE rdcache' = Without(rdcache, b) /\ rdfree' = <<b>> \o rdfree
    BY DEF RdsreadReturns
  <2> HIDE DEF earlier
  <2>2. /\ rdcall[p].op = "read" /\ rdcall[p].at = "receive" /\ b # NoBuffer
        /\ rdbuf' = [rdbuf EXCEPT ![b].refcnt = left]
        /\ ruined' = (left <= 0 /\ b \notin ToSet(rdcache))
        /\ rdcall' = [rdcall EXCEPT ![p] = Idle] /\ rdmsg' = [rdmsg EXCEPT ![p] = NoBuffer]
        /\ UNCHANGED <<rdreq, availsem, rdseq, exch, net, comm, msgblk, disk, latest, before, writes, rdpanic>>
    BY DEF RdsreadReturns, exchVars
  <2> QED
    BY <2>1, <2>2
<1>3. /\ b \in Cached /\ rdbuf[b].pid = p /\ rdbuf[b].refcnt = 1 /\ b \in RdBuffer /\ CachedFor(b)
      /\ ~rdbuf[b].valid
  <2>1. CallOf(p)
    BY <1>1 DEF Shape
  <2>2. b \in Cached /\ rdbuf[b].pid = p /\ rdbuf[b].refcnt = 1
    BY <1>2, <2>1, Zenon DEF CallOf
  <2>3. CachedFor(b) /\ b \in RdBuffer
    BY <1>1, <2>2, Listed DEF Shape
  <2> QED
    BY <2>2, <2>3 DEF CachedFor
<1>4. /\ rdbuf' \in [RdBuffer -> Contents] /\ \A c \in RdBuffer : c # b => rdbuf'[c] = rdbuf[c]
      /\ On(rdbuf'[b]) = On(rdbuf[b]) /\ rdbuf'[b].refcnt = 0 /\ ~rdbuf'[b].valid
  <2> DEFINE x == rdbuf[b]
             r == [x EXCEPT !.refcnt = 0]
  <2>1. rdbuf \in [RdBuffer -> Contents] /\ x \in Contents
    BY <1>1, <1>3, FieldTypes DEF DiskTypes, HoldTypes
  <2> HIDE DEF b
  <2>4. rdbuf' = [rdbuf EXCEPT ![b].refcnt = 1 - 1] /\ rdbuf[b].refcnt = 1
    BY <1>2, <1>3
  <2>2. rdbuf' = [rdbuf EXCEPT ![b] = r]
    BY <2>4
  <2> HIDE DEF x
  <2>3. r \in Contents /\ On(r) = On(x) /\ r.refcnt = 0 /\ r.valid = x.valid
    <3>1. 0 \in Int
      OBVIOUS
    <3> QED
      BY <2>1, <3>1, Recounted
  <2> HIDE DEF r, b
  <2> QED
    BY <1>3, <2>1, <2>2, <2>3 DEF x
<1> HIDE DEF b
<1>5. ~ruined'
  BY <1>2, <1>3 DEF Cached
<1>6. /\ Lists' /\ Requested' = Requested /\ Cached' \subseteq Cached
      /\ \A c \in Cached : c # b => c \in Cached'
      /\ First(rdcache') /\ rdcache' \in Seq(RdBuffer) /\ rdfree' \in Seq(RdBuffer)
      /\ Len(rdfree') + Len(rdcache') = Len(rdfree) + Len(rdcache)
  <2>1. CASE UNCHANGED <<rdcache, rdfree>>
    BY <1>1, <1>2, <2>1 DEF Lists, Requested, Cached, Spare, DiskTypes, HoldTypes
  <2>2. CASE rdcache' = Without(rdcache, b) /\ rdfree' = <<b>> \o rdfree
    <3>1. /\ rdcache \in Seq(RdBuffer) /\ rdfree \in Seq(RdBuffer) /\ IsInjective(rdcache) /\ IsInjective(rdfree)
          /\ b \notin ToSet(rdfree) /\ b \in ToSet(rdcache) /\ b \notin ToSet(rdreq)
      BY <1>1, <1>3 DEF Lists, Requested, Cached, Spare, DiskTypes, HoldTypes
    <3>2. /\ rdcache' \in Seq(RdBuffer) /\ IsInjective(rdcache') /\ ToSet(rdcache') = ToSet(rdcache) \ {b}
          /\ Len(rdcache') = Len(rdcache) - 1 /\ First(rdcache')
      BY <1>1, <2>2, <3>1, WithoutFacts
    <3>3. /\ rdfree' \in Seq(RdBuffer) /\ IsInjective(rdfree') /\ ToSet(rdfree') = ToSet(rdfree) \cup {b}
          /\ Len(rdfree') = Len(rdfree) + 1
      BY <1>3, <2>2, <3>1, PrependIn
    <3>4. Requested' = Requested /\ Cached' = Cached \ {b} /\ Spare' = Spare \cup {b}
      BY <1>2, <3>2, <3>3 DEF Requested, Cached, Spare
    <3>5. Lists'
      BY <1>1, <1>2, <1>3, <3>1, <3>2, <3>3, <3>4 DEF Lists, Requested
    <3>6. Len(rdfree') + Len(rdcache') = Len(rdfree) + Len(rdcache)
      <4>1. Len(rdfree) \in Nat /\ Len(rdcache) \in Nat
        BY <1>1, Listed
      <4> QED
        BY <3>2, <3>3, <4>1
    <3> QED
      BY <3>2, <3>3, <3>4, <3>5, <3>6
  <2> QED
    BY <1>2, <2>1, <2>2
<1>7. First(rdcache)'
  <2>1. \A c \in ToSet(rdcache') : rdbuf'[c].valid = rdbuf[c].valid /\ On(rdbuf'[c]) = On(rdbuf[c])
    <3>1. \A c \in ToSet(rdcache') : c \in RdBuffer
      BY <1>1, <1>6, Listed DEF Cached
    <3>2. rdbuf'[b].valid \in BOOLEAN /\ rdbuf[b].valid \in BOOLEAN
      BY <1>1, <1>3, <1>4, FieldTypes DEF Contents
    <3> QED
      BY <1>3, <1>4, <3>1, <3>2
  <2> QED
    BY <1>6, <2>1, FirstKept DEF First
<1>8. \A c \in RdBuffer :
        IF rdcall[p].op = "read" /\ c = rdmsg[p]
        THEN ~rdbuf[c].valid /\ ~rdbuf'[c].valid /\ rdbuf'[c].refcnt = 0 /\ On(rdbuf'[c]) = On(rdbuf[c])
        ELSE rdbuf'[c] = rdbuf[c] /\ (c \in Cached => c \in Cached')
  BY <1>2, <1>3, <1>4, <1>6 DEF b
<1>9. Shape'
  <2>1. rdcall[p].op \in {"read", "sync"} /\ rdmsg[p] # NoBuffer
    BY <1>2 DEF b
  <2> QED
    BY <1>1, <1>2, <1>6, <1>7, <1>8, <2>1, Returned
<1>10. Idle \in Calls /\ Idle.at # "alloc"
  BY CallIs
<1>11. HoldTypes'
  <2>1. rdcall' \in [RdProc -> Calls] /\ rdmsg' \in [RdProc -> RdBuffer \cup {"ok", NoBuffer}]
    BY <1>1, <1>2, <1>10 DEF DiskTypes, HoldTypes
  <2> QED
    BY <1>1, <1>2, <1>4, <1>6, <2>1 DEF DiskTypes, HoldTypes
<1>12. Allocating' = Allocating
  BY <1>1, <1>2, <1>10 DEF DiskTypes, HoldTypes, Allocating
<1>13. Available'
  BY <1>1, <1>2, <1>6, <1>12, AsMany
<1>14. ServeTypes'
  BY <1>1, <1>2 DEF DiskTypes, ServeTypes
<1> QED
  BY <1>1, <1>2, <1>5, <1>9, <1>11, <1>13, <1>14 DEF Fits

\* The disk is closed, by rdsclose or when it was deleted.
LEMMA CloseFits ==
  ASSUME Careful, BuffersInv, Rdsclose \/ \E m \in net : RdsDeleteReturns(m)
  PROVE  Fits' /\ ServeTypes' /\ ruined' = ruined
<1>1. DiskTypes /\ Shape /\ Available /\ Process /\ Lists /\ rdpanic # "buffers"
  BY DEF BuffersInv, Shape
<1>2. /\ rdreq = <<>> /\ Quiet /\ net' \subseteq net /\ (exch' = exch \/ exch' = NoExchange)
      /\ Closed \/ UNCHANGED <<rdstate, listVars>>
      /\ UNCHANGED <<rdcall, rdmsg, latest, rdseq, comm, msgblk, disk, before, writes, rdpanic, ruined>>
  <2>1. CASE Rdsclose
    BY <2>1 DEF Rdsclose, Careful, exchVars
  <2>2. CASE \E m \in net : RdsDeleteReturns(m)
    <3>1. exch.type = "delete"
      BY <2>2 DEF RdsDeleteReturns
    <3>2. rdreq = <<>> /\ Quiet
      BY <1>1, <3>1 DEF Process
    <3> QED
      BY <2>2, <3>2 DEF RdsDeleteReturns
  <2> QED
    BY <2>1, <2>2
<1>3. Process'
  <2>1. CASE exch' = exch
    <3>1. rdreq' = <<>>
      BY <1>2 DEF Closed, listVars
    <3> QED
      BY <1>1, <1>2, <2>1, <3>1 DEF Process, Quiet
  <2>2. CASE exch' = NoExchange /\ exch' # exch
    <3>1. comm = "wait"
      <4>1. exch.type = "delete"
        BY <2>2 DEF RdsDeleteReturns, Rdsclose, exchVars
      <4> QED
        BY <1>1, <4>1 DEF Process
    <3> QED
      BY <1>2, <2>2, <3>1 DEF Process, NoExchange
  <2> QED
    BY <1>2, <2>1, <2>2
<1>4. ServeTypes'
  BY <1>1, <1>2 DEF DiskTypes, ServeTypes
<1>5. CASE UNCHANGED <<rdstate, listVars>>
  BY <1>1, <1>2, <1>3, <1>4, <1>5, ServeFits DEF listVars
<1>6. CASE Closed
  <2>1. /\ Shape' /\ rdbuf' \in [RdBuffer -> Contents]
        /\ Len(rdfree') + Len(rdcache') = Len(rdfree) + Len(rdcache)
        /\ rdreq' \in Seq(RdBuffer) /\ rdcache' \in Seq(RdBuffer) /\ rdfree' \in Seq(RdBuffer)
    BY <1>1, <1>2, <1>3, <1>6, ClosedShape
  <2>2. HoldTypes'
    BY <1>1, <1>2, <2>1 DEF DiskTypes, HoldTypes
  <2>3. Available'
    <3>1. availsem' = availsem /\ Allocating' = Allocating
      BY <1>2, <1>6 DEF Closed, Allocating
    <3> QED
      BY <1>1, <2>1, <3>1, AsMany
  <2> QED
    BY <1>1, <1>2, <1>4, <2>1, <2>2, <2>3 DEF Fits
<1> QED
  BY <1>2, <1>5, <1>6

\* What a call that reads, writes or syncs leaves alone.
LEMMA CallServes ==
  ASSUME BuffersInv, NEW p \in RdProc,
         \/ \E blk \in Blk : Rdsread(p, blk) \/ Rdswrite(p, blk)
         \/ RdsSync(p) \/ AllocReturns(p)
  PROVE  ServeTypes' /\ ~ruined'
<1>1. DiskTypes /\ HoldTypes /\ ServeTypes /\ ~ruined
  BY DEF BuffersInv, DiskTypes
<1>2. UNCHANGED <<rdseq, exch, net, comm, msgblk, disk, ruined>>
  <2>1. CASE \E blk \in Blk : Rdsread(p, blk)
    BY <2>1 DEF Rdsread, exchVars
  <2>2. CASE \E blk \in Blk : Rdswrite(p, blk)
    BY <2>2 DEF Rdswrite, exchVars
  <2>3. CASE RdsSync(p)
    BY <2>3 DEF RdsSync, exchVars
  <2>4. CASE AllocReturns(p)
    BY <2>4 DEF AllocReturns, exchVars
  <2> QED
    BY <2>1, <2>2, <2>3, <2>4
<1>3. /\ before' = before \/ before' = [before EXCEPT ![p] = latest]
      /\ writes' = writes \/ writes' = writes + 1
  <2>1. CASE \E blk \in Blk : Rdsread(p, blk)
    BY <2>1 DEF Rdsread
  <2>2. CASE \E blk \in Blk : Rdswrite(p, blk)
    BY <2>2 DEF Rdswrite
  <2>3. CASE RdsSync(p)
    BY <2>3 DEF RdsSync
  <2>4. CASE AllocReturns(p)
    BY <2>4 DEF AllocReturns
  <2> QED
    BY <2>1, <2>2, <2>3, <2>4
<1>4. writes' \in Nat
  BY <1>1, <1>3 DEF ServeTypes
<1>5. before' \in [RdProc -> [Blk -> Nat]]
  BY <1>1, <1>3 DEF ServeTypes, HoldTypes
<1> QED
  BY <1>1, <1>2, <1>4, <1>5 DEF ServeTypes

-------------------------------------------------------------------------------
(* The free list at first *)

\* A list without repetition is as long as its members are many.
LEMMA AsLong ==
  ASSUME NEW S, NEW s \in Seq(S), IsInjective(s)
  PROVE  IsFiniteSet(ToSet(s)) /\ Cardinality(ToSet(s)) = Len(s)
<1> DEFINE n == Len(s)
           D == 1 .. n
           T == ToSet(s)
<1>1. n \in Nat /\ DOMAIN s = D
  OBVIOUS
<1>2. s \in [D -> T] /\ \A t \in T : \E i \in D : s[i] = t
  BY <1>1 DEF ToSet
<1>3. IsFiniteSet(D) /\ Cardinality(D) = n
  <2>1. 1 \in Int /\ n \in Int
    BY <1>1
  <2>2. IsFiniteSet(1 .. n) /\ Cardinality(1 .. n) = IF 1 > n THEN 0 ELSE n - 1 + 1
    BY <2>1, FS_Interval
  <2> QED
    BY <1>1, <2>2
<1> HIDE DEF n, D, T
<1>4. s \in Surjection(D, T) /\ s \in Injection(D, T)
  BY <1>2 DEF Surjection, Injection
<1>5. /\ IsFiniteSet(T) /\ (Cardinality(T) = Cardinality(D) <=> s \in Injection(D, T))
  BY <1>3, <1>4, FS_Surjection
<1> QED
  BY <1>3, <1>4, <1>5 DEF n, T

\* Two sets apart have as many members as both.
LEMMA Apart ==
  ASSUME NEW S, IsFiniteSet(S), NEW T, IsFiniteSet(T), S \cap T = {}
  PROVE  IsFiniteSet(S \cup T) /\ Cardinality(S \cup T) = Cardinality(S) + Cardinality(T)
<1>1. /\ IsFiniteSet(S \cup T)
      /\ Cardinality(S \cup T) = Cardinality(S) + Cardinality(T) - Cardinality(S \cap T)
  BY FS_Union
<1>2. Cardinality(S \cap T) = 0
  BY FS_EmptySet
<1>3. Cardinality(S) \in Nat /\ Cardinality(T) \in Nat
  BY FS_CardinalityType
<1> QED
  BY <1>1, <1>2, <1>3

\* The members of a finite set as a list.
LEMMA SetListed ==
  ASSUME NEW S, IsFiniteSet(S)
  PROVE  /\ SetToSeq(S) \in Seq(S) /\ IsInjective(SetToSeq(S))
         /\ ToSet(SetToSeq(S)) = S /\ Len(SetToSeq(S)) = Cardinality(S)
<1> DEFINE n == Cardinality(S)
           D == 1 .. n
           f == SetToSeq(S)
<1>1. n \in Nat /\ Bijection(D, S) # {}
  BY FS_CardinalityType DEF ExistsBijection
<1>2. IsFiniteSet(D) /\ Cardinality(D) = n
  <2>1. 1 \in Int /\ n \in Int
    BY <1>1
  <2>2. IsFiniteSet(1 .. n) /\ Cardinality(1 .. n) = IF 1 > n THEN 0 ELSE n - 1 + 1
    BY <2>1, FS_Interval
  <2> QED
    BY <1>1, <2>2
<1>3. \E g \in [D -> S] : IsInjective(g)
  BY <1>1 DEF Bijection, Injection
<1>4. f \in [D -> S] /\ IsInjective(f)
  BY <1>3 DEF SetToSeq
<1> HIDE DEF f
<1>5. f \in Surjection(D, S)
  <2>1. f \in Injection(D, S)
    BY <1>4 DEF Injection
  <2> HIDE DEF n, D
  <2>2. Cardinality(D) = Cardinality(S) <=> f \in Surjection(D, S)
    BY <2>1, FS_Injection
  <2> QED
    BY <1>2, <2>2 DEF n
<1>6. f \in Seq(S) /\ Len(f) = n /\ DOMAIN f = D
  BY <1>1, <1>4
<1>7. ToSet(f) = S
  BY <1>4, <1>5, <1>6 DEF ToSet, Surjection
<1> QED
  BY <1>4, <1>6, <1>7 DEF f

\* At first every buffer is on the free list and nobody is in a call.
LEMMA InitBuffers ==
  ASSUME RdInit
  PROVE  BuffersInv
<1>1. /\ IsFiniteSet(RdProc) /\ IsFiniteSet(RdBuffer) /\ NoBuffer \notin RdBuffer /\ "wait" \notin RdBuffer
      /\ NoBlk \notin Blk /\ NoBlk \in Int
  BY DiskBasics
<1>2. /\ rdreq = <<>> /\ rdcache = <<>> /\ ToSet(rdreq) = {} /\ ToSet(rdcache) = {}
      /\ rdreq \in Seq(RdBuffer) /\ rdcache \in Seq(RdBuffer) /\ Len(rdcache) = 0
      /\ IsInjective(rdreq) /\ IsInjective(rdcache)
  BY DEF RdInit, ToSet, IsInjective
<1>3. /\ rdfree \in Seq(RdBuffer) /\ IsInjective(rdfree) /\ ToSet(rdfree) = RdBuffer
      /\ Len(rdfree) = Cardinality(RdBuffer)
  BY <1>1, SetListed DEF RdInit
<1>4. /\ \A p \in RdProc : rdcall[p] = Idle /\ rdmsg[p] = NoBuffer
      /\ \A b \in RdBuffer : ~rdbuf[b].valid
  BY DEF RdInit
<1>5. HoldTypes
  <2>1. rdbuf \in [RdBuffer -> Contents]
    BY <1>1 DEF RdInit, Contents, Kinds, Numbered
  <2>2. Idle \in Calls
    BY CallIs
  <2>3. rdcall \in [RdProc -> Calls]
    BY <2>2 DEF RdInit
  <2>4. rdmsg \in [RdProc -> RdBuffer \cup {"ok", NoBuffer}] /\ latest \in [Blk -> Nat]
    BY DEF RdInit
  <2> QED
    BY <1>2, <1>3, <2>1, <2>3, <2>4 DEF HoldTypes
<1>6. ServeTypes
  BY DEF RdInit, ServeTypes
<1>7. Lists
  BY <1>2, <1>3 DEF Lists, Requested, Cached, Spare
<1>8. /\ Idle.op = "none" /\ On(Idle) = NoBlk
  BY DEF Idle, On, About
<1>9. Idle.at = ""
  BY DEF Idle
<1>10. \A blk : Current(blk) = {}
  BY <1>2 DEF Current, Requested, Cached
<1>11. \A p \in RdProc : CallOf(p)
  BY <1>1, <1>4, <1>8, <1>9, <1>10 DEF CallOf
<1>12. Copies
  BY <1>2, <1>10 DEF Copies, First
<1>13. Process
  BY DEF RdInit, Process, NoExchange
<1>14. Shape
  BY <1>2, <1>7, <1>11, <1>12, <1>13 DEF Shape, Requested, Cached
<1>15. Allocating = {}
  BY <1>4, <1>9 DEF Allocating
<1>16. Available
  <2>1. availsem = NewSem(Cardinality(RdBuffer)) /\ Cardinality(RdBuffer) \in Nat
    BY <1>1, FS_CardinalityType DEF RdInit
  <2>2. /\ SoundSem(RdProc, availsem) /\ availsem.ok /\ ToSet(availsem.queue) = {}
        /\ Units({}, availsem) = Cardinality(RdBuffer)
    BY <1>1, <2>1, SemFresh
  <2>3. Len(rdfree) + Len(rdcache) = Units(Allocating, availsem)
    BY <1>2, <1>3, <1>15, <2>1, <2>2
  <2> QED
    BY <2>2, <2>3 DEF Available
<1>17. rdpanic # "buffers" /\ ~ruined
  BY DEF RdInit
<1>18. SyncsApart
  BY <1>4, <1>8 DEF SyncsApart
<1> QED
  BY <1>5, <1>6, <1>14, <1>16, <1>17, <1>18 DEF BuffersInv, DiskTypes

-------------------------------------------------------------------------------
(* Every step *)

\* What becomes of the call of a process that asks for a block.
Called(p, op, blk, data) ==
  \/ rdcall' = rdcall
  \/ \E c \in {Idle, Call(op, "alloc", blk, data), Call(op, "receive", blk, data)} :
       rdcall' = [rdcall EXCEPT ![p] = c]

LEMMA AllocateCalls ==
  ASSUME NEW p, NEW op, NEW blk, NEW data, Allocate(p, op, blk, data)
  PROVE  Called(p, op, blk, data)
BY DEF Allocate, Request, Called

LEMMA EnqueueCalls ==
  ASSUME NEW p, NEW op, NEW blk, NEW data, Enqueue(p, op, blk, data)
  PROVE  Called(p, op, blk, data)
<1>1. CASE availsem.count > 0
  BY <1>1, AllocateCalls DEF Enqueue
<1>2. CASE ~(availsem.count > 0)
  BY <1>2 DEF Enqueue, Called
<1> QED
  BY <1>1, <1>2

\* Syncs and reads of block 0 stay apart when a process gets as far as this.
LEMMA CalledApart ==
  ASSUME DiskTypes, SyncsApart, NEW p \in RdProc, NEW op, NEW blk, NEW data, Called(p, op, blk, data),
         op = "read" /\ blk = 0 => \A q \in RdProc : rdcall[q].op # "sync",
         op = "sync" => \A q \in RdProc : ~(rdcall[q].op = "read" /\ rdcall[q].blk = 0)
  PROVE  SyncsApart'
<1>1. Idle.op = "none"
  BY DEF Idle
<1>2. CASE rdcall' = rdcall
  BY <1>2 DEF SyncsApart
<1>3. ASSUME NEW c, rdcall' = [rdcall EXCEPT ![p] = c],
             c = Idle \/ (c.op = op /\ c.blk = blk)
      PROVE  SyncsApart'
  <2>1. rdcall'[p] = c /\ \A q \in RdProc : q # p => rdcall'[q] = rdcall[q]
    BY <1>3 DEF DiskTypes, HoldTypes
  <2> QED
    BY <1>1, <1>3, <2>1 DEF SyncsApart
<1>4. \A at : Call(op, at, blk, data).op = op /\ Call(op, at, blk, data).blk = blk
  BY DEF Call
<1> QED
  BY <1>2, <1>3, <1>4 DEF Called

\* And whatever else is done.
LEMMA SyncsStayApart ==
  ASSUME Careful, DiskTypes, SyncsApart, [RdNext]_rdVars
  PROVE  SyncsApart'
<1>1. ASSUME NEW p \in RdProc, NEW blk \in Blk, Rdsread(p, blk)
      PROVE  SyncsApart'
  <2>1. CallsFor(blk) = {} /\ Called(p, "read", blk, 0)
    BY <1>1, EnqueueCalls DEF Rdsread, MayRead, Careful
  <2>2. blk = 0 => \A q \in RdProc : rdcall[q].op # "sync"
    <3> SUFFICES ASSUME blk = 0, NEW q \in RdProc, rdcall[q].op = "sync"
                 PROVE  FALSE
      OBVIOUS
    <3>1. rdcall[q].blk = 0
      BY FieldTypes
    <3> QED
      BY <2>1, <3>1 DEF CallsFor
  <2> QED
    BY <2>1, <2>2, CalledApart
<1>2. ASSUME NEW p \in RdProc, NEW blk \in Blk, Rdswrite(p, blk)
      PROVE  SyncsApart'
  <2> DEFINE v == writes + 1
  <2>1. CASE Queuedwrite(blk) # {}
    BY <1>2, <2>1 DEF Rdswrite, SyncsApart
  <2>2. CASE Queuedwrite(blk) = {} /\ Cachedcopy(blk) # {}
    <3>1. \E b : Request(p, "write", blk, v, b)
      BY <1>2, <2>2 DEF Rdswrite
    <3> HIDE DEF v
    <3>2. Called(p, "write", blk, v)
      BY <3>1 DEF Request, Called
    <3> QED
      BY <3>2, CalledApart
  <2>3. CASE Queuedwrite(blk) = {} /\ Cachedcopy(blk) = {}
    <3>1. Enqueue(p, "write", blk, v)
      BY <1>2, <2>3 DEF Rdswrite
    <3> HIDE DEF v
    <3> QED
      BY <3>1, EnqueueCalls, CalledApart
  <2> QED
    BY <2>1, <2>2, <2>3
<1>3. ASSUME NEW p \in RdProc, RdsSync(p)
      PROVE  SyncsApart'
  <2>1. "read" \notin CallsFor(0) /\ Called(p, "sync", 0, 0)
    BY <1>3, EnqueueCalls DEF RdsSync, MaySync, Careful
  <2>2. \A q \in RdProc : ~(rdcall[q].op = "read" /\ rdcall[q].blk = 0)
    BY <2>1 DEF CallsFor
  <2> QED
    BY <2>1, <2>2, CalledApart
<1>4. ASSUME NEW p \in RdProc, AllocReturns(p)
      PROVE  SyncsApart'
  <2>1. Called(p, rdcall[p].op, rdcall[p].blk, rdcall[p].data)
    BY <1>4, AllocateCalls DEF AllocReturns
  <2> QED
    BY <2>1, CalledApart DEF SyncsApart
<1>5. ASSUME NEW p \in RdProc, RdsreadReturns(p) \/ RdsSyncReturns(p)
      PROVE  SyncsApart'
  <2>1. Called(p, "write", 0, 0)
    BY <1>5 DEF RdsreadReturns, RdsSyncReturns, Called
  <2> QED
    BY <2>1, CalledApart
<1>6. CASE rdcall' = rdcall
  BY <1>6 DEF SyncsApart
<1>7. CASE Rdsopen \/ RdsopenRefused \/ Rdsclose \/ RdsDelete \/ StartRead \/ StartWrite \/ SyncReached
           \/ RdsTimeout \/ GivesUp
  BY <1>6, <1>7 DEF Rdsopen, RdsopenRefused, Rdsclose, RdsDelete, StartRead, StartWrite, SyncReached,
                    RdsTimeout, GivesUp
<1>8. ASSUME NEW m \in net, Server(m) \/ RdsIgnore(m) \/ EndRead(m) \/ EndWrite(m)
                             \/ RdsopenReturns(m) \/ RdsDeleteReturns(m)
      PROVE  SyncsApart'
  BY <1>6, <1>8 DEF Server, RdsIgnore, EndRead, EndWrite, RdsopenReturns, RdsDeleteReturns
<1>9. CASE UNCHANGED rdVars
  BY <1>6, <1>9 DEF rdVars
<1> QED
  BY <1>1, <1>2, <1>3, <1>4, <1>5, <1>7, <1>8, <1>9 DEF RdNext

LEMMA BuffersStep ==
  ASSUME Careful, BuffersInv, [RdNext]_rdVars
  PROVE  BuffersInv'
<1>1. ASSUME Fits', ServeTypes', ~ruined'
      PROVE  BuffersInv'
  <2>1. SyncsApart'
    BY SyncsStayApart DEF BuffersInv
  <2> QED
    BY <1>1, <2>1 DEF BuffersInv, Fits, DiskTypes
<1>2. ~ruined
  BY DEF BuffersInv
<1>3. ASSUME NEW p \in RdProc, NEW blk \in Blk, Rdsread(p, blk)
      PROVE  BuffersInv'
  BY <1>1, <1>3, ReadFits, CallServes
<1>4. ASSUME NEW p \in RdProc, NEW blk \in Blk, Rdswrite(p, blk)
      PROVE  BuffersInv'
  BY <1>1, <1>4, WriteFits, CallServes
<1>5. ASSUME NEW p \in RdProc, RdsSync(p)
      PROVE  BuffersInv'
  BY <1>1, <1>5, SyncFits, CallServes
<1>6. ASSUME NEW p \in RdProc, AllocReturns(p)
      PROVE  BuffersInv'
  BY <1>1, <1>6, AllocFits, CallServes
<1>7. ASSUME NEW p \in RdProc, RdsreadReturns(p)
      PROVE  BuffersInv'
  BY <1>1, <1>7, ReadReturnsFits
<1>8. ASSUME NEW p \in RdProc, RdsSyncReturns(p)
      PROVE  BuffersInv'
  BY <1>1, <1>8, SyncReturnsFits
<1>9. CASE Serving
  BY <1>1, <1>2, <1>9, ServingFits
<1>10. CASE StartWrite
  BY <1>1, <1>10, StartWriteFits
<1>11. CASE SyncReached
  BY <1>1, <1>11, SyncReachedFits
<1>12. CASE Rdsclose \/ \E m \in net : RdsDeleteReturns(m)
  BY <1>1, <1>2, <1>12, CloseFits
<1>13. ASSUME NEW m \in net, EndRead(m)
       PROVE  BuffersInv'
  BY <1>1, <1>13, EndReadFits
<1>14. CASE UNCHANGED rdVars
  <2>1. UNCHANGED <<rdbuf, rdreq, rdcache, rdfree, availsem, rdcall, rdmsg, latest, rdpanic, comm, exch,
                    rdseq, net, msgblk, disk, before, writes, ruined>>
    BY <1>14 DEF rdVars, listVars, exchVars
  <2>2. DiskTypes /\ HoldTypes /\ ServeTypes /\ Process
    BY DEF BuffersInv, DiskTypes, Shape
  <2>3. Process' /\ ServeTypes' /\ rdpanic' # "buffers"
    BY <2>1, <2>2 DEF Process, Quiet, ServeTypes, BuffersInv
  <2>4. Fits'
    BY <2>1, <2>3, ServeFits
  <2> QED
    BY <1>1, <1>2, <2>1, <2>3, <2>4
<1> QED
  BY <1>3, <1>4, <1>5, <1>6, <1>7, <1>8, <1>9, <1>10, <1>11, <1>12, <1>13, <1>14 DEF RdNext, Serving

\* In every state each buffer of the remote disk is on one list, each request and each
\* reference is of a call that waits, and availsem counts the buffers that are left.
THEOREM BuffersKept ==
  ASSUME Careful
  PROVE  RdSpec => []BuffersInv
<1>1. RdInit => BuffersInv
  BY InitBuffers
<1>2. BuffersInv /\ [RdNext]_rdVars => BuffersInv'
  BY BuffersStep
<1> QED
  BY <1>1, <1>2, PTL DEF RdSpec

\* rdsbufalloc always finds a buffer for whoever availsem let through, and no buffer of
\* the remote disk is lost or on two lists.
THEOREM BuffersStayAccounted ==
  ASSUME Careful
  PROVE  RdSpec => []BuffersAccounted
<1>1. ASSUME BuffersInv
      PROVE  BuffersAccounted
  <2>1. DiskTypes /\ Lists /\ Available /\ rdpanic # "buffers" /\ ~ruined
    BY <1>1 DEF BuffersInv, Shape
  <2>2. rdreq \in Seq(RdBuffer) /\ rdcache \in Seq(RdBuffer) /\ rdfree \in Seq(RdBuffer)
    BY <2>1 DEF DiskTypes, HoldTypes
  <2>3. /\ IsInjective(rdreq) /\ IsInjective(rdcache) /\ IsInjective(rdfree)
        /\ Requested \cap Cached = {} /\ Requested \cap Spare = {} /\ Cached \cap Spare = {}
        /\ Requested \cup Cached \cup Spare = RdBuffer
    BY <2>1 DEF Lists
  <2>4. /\ IsFiniteSet(Requested) /\ Cardinality(Requested) = Len(rdreq) /\ Len(rdreq) \in Nat
        /\ IsFiniteSet(Cached) /\ Cardinality(Cached) = Len(rdcache) /\ Len(rdcache) \in Nat
        /\ IsFiniteSet(Spare) /\ Cardinality(Spare) = Len(rdfree) /\ Len(rdfree) \in Nat
    BY <2>2, <2>3, AsLong DEF Requested, Cached, Spare
  <2>5. /\ IsFiniteSet(Requested \cup Cached)
        /\ Cardinality(Requested \cup Cached) = Len(rdreq) + Len(rdcache)
    <3>1. /\ IsFiniteSet(Requested \cup Cached)
          /\ Cardinality(Requested \cup Cached) = Cardinality(Requested) + Cardinality(Cached)
      BY <2>3, <2>4, Apart
    <3> QED
      BY <2>4, <3>1
  <2>6. Cardinality(RdBuffer) = Len(rdreq) + Len(rdcache) + Len(rdfree)
    <3>1. (Requested \cup Cached) \cap Spare = {}
      BY <2>3
    <3>2. Cardinality((Requested \cup Cached) \cup Spare) = Cardinality(Requested \cup Cached) + Cardinality(Spare)
      BY <2>4, <2>5, <3>1, Apart
    <3> QED
      BY <2>3, <2>4, <2>5, <3>2
  <2>7. Len(rdfree) + Len(rdcache) = Avail(availsem) + Cardinality(Entitled)
    <3>1. Entitled = {p \in Allocating : ~Queued(availsem, p)}
      BY DEF Entitled, Allocating
    <3> QED
      BY <2>1, <3>1 DEF Available, Units
  <2> QED
    BY <2>1, <2>3, <2>6, <2>7 DEF BuffersAccounted, Requested, Cached, Spare
<1> QED
  BY <1>1, BuffersKept, PTL

\* What a read of the remote disk is given from the cache or from the queue is what was
\* last written to the block, whatever the datagrams under way.
THEOREM CacheStaysFresh ==
  ASSUME Careful
  PROVE  RdSpec => []CacheFresh
<1>1. ASSUME BuffersInv
      PROVE  CacheFresh
  <2>1. DiskTypes /\ Shape /\ Copies /\ \A b \in Requested : RequestOf(b)
    BY <1>1 DEF BuffersInv, Shape
  <2> SUFFICES ASSUME NEW blk \in Blk, NEW b \in AtHand(blk)
               PROVE  rdbuf[b].data = latest[blk]
    BY DEF CacheFresh
  <2>2. Len(rdreq) \in Nat /\ Len(rdcache) \in Nat
    BY <2>1, Listed
  <2>3. CASE b \in InCache(blk)
    <3> DEFINE m == Matching(rdcache, blk)
    <3>1. m # {} /\ rdbuf[rdcache[Min(m)]].valid /\ b = rdcache[Min(m)]
      BY <2>3 DEF InCache
    <3>2. m \in SUBSET (1 .. Len(rdcache)) /\ \A i \in m : rdcache[i] \in Cached /\ On(rdbuf[rdcache[i]]) = blk
      BY <2>1, Matches, CachedBlock
    <3> HIDE DEF m
    <3>3. Min(m) \in m
      BY <2>2, <3>1, <3>2, MinPlace
    <3>4. b \in Current(blk)
      BY <3>1, <3>2, <3>3 DEF Current
    <3> QED
      BY <2>1, <3>4 DEF Copies
  <2>4. CASE b \in InQueue(blk)
    <3> DEFINE m == Matching(rdreq, blk)
    <3>1. m # {} /\ rdbuf[rdreq[Max(m)]].op = "write" /\ b = rdreq[Max(m)]
      BY <2>4 DEF InQueue
    <3>2. m \in SUBSET (1 .. Len(rdreq)) /\ \A i \in m : rdreq[i] \in Requested /\ rdbuf[rdreq[i]].blk = blk
      BY <2>1, Matches
    <3> HIDE DEF m
    <3>3. Max(m) \in m
      BY <2>2, <3>1, <3>2, MaxPlace
    <3>4. b \in Requested /\ rdbuf[b].op = "write" /\ On(rdbuf[b]) = blk
      BY <2>1, <3>1, <3>2, <3>3, Listed, FieldTypes
    <3>5. b \in Current(blk)
      BY <2>1, <3>4 DEF Current, RequestOf
    <3> QED
      BY <2>1, <3>5 DEF Copies
  <2> QED
    BY <2>3, <2>4 DEF AtHand
<1> QED
  BY <1>1, BuffersKept, PTL

-------------------------------------------------------------------------------
(* The invariant of the writes *)

\* The requests to write that are under way are in the order of what was written, and
\* none is older than what the server has, nor newer than what was last queued.
WriteRequests == {m \in net : m.kind = "request" /\ m.type = "write"}
Ordered ==
  /\ \A blk \in Blk : disk[blk] <= latest[blk]
  /\ \A m \in net : m.seq < rdseq
  /\ \A m \in WriteRequests : disk[m.blk] <= m.data /\ m.data <= latest[m.blk]
  /\ \A m, n \in WriteRequests : m.blk = n.blk /\ m.seq <= n.seq => m.data <= n.data

\* What the exchange asks is the newest of them, and a reply to it means that it was done.
Newest ==
  LET a == exch.ask IN
  /\ exch.seq < rdseq /\ a.seq = exch.seq /\ a.type = exch.type /\ a.kind = "request"
  /\ \A m \in net : m.seq = exch.seq =>
       /\ m.kind = "request" => m = a
       /\ m.kind = "reply" => m.type = a.type /\ m.blk = a.blk
       /\ m.kind = "reply" /\ a.type = "write" => a.data <= disk[a.blk]
  /\ a.type = "write" =>
       /\ disk[a.blk] <= a.data /\ a.data <= latest[a.blk]
       /\ \A m \in WriteRequests : m.blk = a.blk => m.data <= a.data /\ m.seq <= a.seq
NetInv == Ordered /\ (exch # NoExchange => Newest)

\* A write is on the server's disk, or in the exchange with the server, or a later one for
\* the block is; or it is among the first n requests.
OnWay(blk, v) ==
  \/ v <= disk[blk]
  \/ exch.type = "write" /\ exch.ask.blk = blk /\ v <= exch.ask.data
Ahead(blk, v, n) ==
  \E i \in 1 .. n : /\ rdbuf[rdreq[i]].op = "write" /\ rdbuf[rdreq[i]].blk = blk
                    /\ v <= rdbuf[rdreq[i]].data
Carried(blk, v, n) == OnWay(blk, v) \/ Ahead(blk, v, n)

\* The last write to a block is carried, and a later one is about to be queued at most;
\* what was the last when a sync was asked for is carried ahead of it.
LatestCarried == \A blk \in Blk : latest[blk] <= writes /\ Carried(blk, latest[blk], Len(rdreq))
WritesNext ==
  \A p \in RdProc : rdcall[p].op = "write" =>
    latest[rdcall[p].blk] <= rdcall[p].data /\ rdcall[p].data <= writes
SyncsNext ==
  \A p \in RdProc : rdcall[p].op = "sync" /\ rdcall[p].at = "alloc" =>
    \A blk \in Blk : Carried(blk, before[p][blk], Len(rdreq))
SyncsQueued ==
  \A i \in 1 .. Len(rdreq) : rdbuf[rdreq[i]].op = "sync" =>
    \A blk \in Blk : Carried(blk, before[rdbuf[rdreq[i]].pid][blk], i - 1)
SyncsDone ==
  \A p \in RdProc : rdcall[p].op = "sync" /\ rdmsg[p] # NoBuffer =>
    \A blk \in Blk : disk[blk] >= before[p][blk]
SyncInv == LatestCarried /\ WritesNext /\ SyncsNext /\ SyncsQueued /\ SyncsDone

WrittenInv == NetInv /\ SyncInv

-------------------------------------------------------------------------------
(* What is carried stays carried *)

\* Numbers.
LEMMA DiskNumbers ==
  ASSUME DiskTypes
  PROVE  /\ \A blk \in Blk : disk[blk] \in Nat /\ latest[blk] \in Nat
         /\ \A p \in RdProc : \A blk \in Blk : before[p][blk] \in Nat
         /\ \A i \in 1 .. Len(rdreq) : rdreq[i] \in RdBuffer /\ rdbuf[rdreq[i]].data \in Nat
         /\ writes \in Nat /\ rdseq \in Nat /\ Len(rdreq) \in Nat
<1>1. /\ rdreq \in Seq(RdBuffer) /\ disk \in [Blk -> Nat] /\ latest \in [Blk -> Nat]
      /\ before \in [RdProc -> [Blk -> Nat]] /\ writes \in Nat /\ rdseq \in Nat
  BY DEF DiskTypes, HoldTypes, ServeTypes
<1>2. \A i \in 1 .. Len(rdreq) : rdreq[i] \in RdBuffer
  BY <1>1
<1>3. \A b \in RdBuffer : rdbuf[b].data \in Nat
  BY FieldTypes
<1> QED
  BY <1>1, <1>2, <1>3

LEMMA NumbersNext ==
  ASSUME DiskTypes'
  PROVE  /\ \A blk \in Blk : disk'[blk] \in Nat /\ latest'[blk] \in Nat
         /\ \A p \in RdProc : \A blk \in Blk : before'[p][blk] \in Nat
         /\ \A i \in 1 .. Len(rdreq') : rdreq'[i] \in RdBuffer /\ rdbuf'[rdreq'[i]].data \in Nat
         /\ writes' \in Nat /\ rdseq' \in Nat /\ Len(rdreq') \in Nat /\ rdreq' \in Seq(RdBuffer)
<1>1. /\ rdreq' \in Seq(RdBuffer) /\ disk' \in [Blk -> Nat] /\ latest' \in [Blk -> Nat]
      /\ before' \in [RdProc -> [Blk -> Nat]] /\ writes' \in Nat /\ rdseq' \in Nat
      /\ rdbuf' \in [RdBuffer -> Contents]
  BY DEF DiskTypes, HoldTypes, ServeTypes
<1>2. \A i \in 1 .. Len(rdreq') : rdreq'[i] \in RdBuffer
  BY <1>1
<1>3. \A b \in RdBuffer : rdbuf'[b].data \in Nat
  <2>1. \A b \in RdBuffer : rdbuf'[b] \in Contents
    BY <1>1
  <2> QED
    BY <2>1 DEF Contents
<1> QED
  BY <1>1, <1>2, <1>3

\* The more requests, the more is carried.
LEMMA CarriedFurther ==
  ASSUME NEW blk, NEW v, NEW n \in Nat, NEW k \in Nat, n <= k, Carried(blk, v, n)
  PROVE  Carried(blk, v, k)
BY DEF Carried, Ahead

\* What is on its way to the server is so still.
StillOnWay == \A blk \in Blk : \A v \in Nat : OnWay(blk, v) => OnWay(blk, v)'

\* A request of a list, and what became of it: what it writes may be replaced.
SameRequest(b, c) ==
  /\ rdbuf'[c].op = rdbuf[b].op /\ rdbuf'[c].blk = rdbuf[b].blk /\ rdbuf'[c].pid = rdbuf[b].pid
  /\ rdbuf[b].data <= rdbuf'[c].data

\* The requests are those there were, and maybe others behind them.
LEMMA CarriedKept ==
  ASSUME DiskTypes, DiskTypes', StillOnWay, Len(rdreq) <= Len(rdreq'),
         \A i \in 1 .. Len(rdreq) : SameRequest(rdreq[i], rdreq'[i])
  PROVE  \A blk \in Blk : \A v \in Nat : \A n \in 0 .. Len(rdreq) :
           Carried(blk, v, n) => Carried(blk, v, n)'
<1> SUFFICES ASSUME NEW blk \in Blk, NEW v \in Nat, NEW n \in 0 .. Len(rdreq), Ahead(blk, v, n)
             PROVE  Ahead(blk, v, n)'
  BY DEF Carried, StillOnWay
<1>1. /\ Len(rdreq) \in Nat /\ Len(rdreq') \in Nat
      /\ \A i \in 1 .. Len(rdreq) : rdbuf[rdreq[i]].data \in Nat
      /\ \A i \in 1 .. Len(rdreq') : rdbuf'[rdreq'[i]].data \in Nat
  BY DiskNumbers, NumbersNext
<1>2. PICK i \in 1 .. n : /\ rdbuf[rdreq[i]].op = "write" /\ rdbuf[rdreq[i]].blk = blk
                          /\ v <= rdbuf[rdreq[i]].data
  BY DEF Ahead
<1>3. i \in 1 .. Len(rdreq) /\ i \in 1 .. Len(rdreq')
  BY <1>1
<1>4. /\ rdbuf'[rdreq'[i]].op = "write" /\ rdbuf'[rdreq'[i]].blk = blk
      /\ rdbuf[rdreq[i]].data <= rdbuf'[rdreq'[i]].data
  BY <1>2, <1>3 DEF SameRequest
<1>5. v <= rdbuf'[rdreq'[i]].data
  BY <1>1, <1>2, <1>3, <1>4
<1> QED
  BY <1>4, <1>5 DEF Ahead

\* The first request is gone, a write to the exchange with the server.
LEMMA CarriedOn ==
  ASSUME DiskTypes, DiskTypes', StillOnWay, rdreq # <<>>, rdreq' = Tail(rdreq),
         \A c \in Requested' : rdbuf'[c] = rdbuf[c],
         \A blk \in Blk : \A v \in Nat :
           /\ rdbuf[Head(rdreq)].op = "write" /\ rdbuf[Head(rdreq)].blk = blk
           /\ v <= rdbuf[Head(rdreq)].data
           => OnWay(blk, v)'
  PROVE  /\ Len(rdreq') = Len(rdreq) - 1
         /\ \A i \in 1 .. Len(rdreq') :
              /\ rdreq'[i] = rdreq[i + 1] /\ i + 1 \in 1 .. Len(rdreq)
              /\ SameRequest(rdreq[i + 1], rdreq'[i])
         /\ \A blk \in Blk : \A v \in Nat : \A n \in 1 .. Len(rdreq) :
              Carried(blk, v, n) => Carried(blk, v, n - 1)'
<1>1. rdreq \in Seq(RdBuffer) /\ Len(rdreq) \in Nat /\ Head(rdreq) = rdreq[1]
  BY DEF DiskTypes, HoldTypes
<1>2. /\ Len(rdreq') = Len(rdreq) - 1
      /\ \A i \in 1 .. Len(rdreq') : rdreq'[i] = rdreq[i + 1] /\ i + 1 \in 1 .. Len(rdreq)
  BY <1>1
<1>3. \A i \in 1 .. Len(rdreq') : rdreq'[i] \in Requested' /\ rdbuf'[rdreq'[i]].data \in Nat
  <2>1. /\ rdreq' \in Seq(RdBuffer)
        /\ \A i \in 1 .. Len(rdreq') : rdreq'[i] \in RdBuffer /\ rdbuf'[rdreq'[i]].data \in Nat
    BY NumbersNext
  <2>2. \A i \in 1 .. Len(rdreq') : rdreq'[i] \in Requested'
    <3>1. DOMAIN rdreq' = 1 .. Len(rdreq')
      BY <2>1
    <3>2. Requested' = {rdreq'[i] : i \in DOMAIN rdreq'}
      BY DEF Requested, ToSet
    <3> QED
      BY <3>1, <3>2
  <2> QED
    BY <2>1, <2>2
<1>4. \A i \in 1 .. Len(rdreq') : rdbuf'[rdreq'[i]] = rdbuf[rdreq[i + 1]]
  BY <1>2, <1>3
<1>5. \A i \in 1 .. Len(rdreq') : SameRequest(rdreq[i + 1], rdreq'[i])
  <2> SUFFICES ASSUME NEW i \in 1 .. Len(rdreq')
               PROVE  SameRequest(rdreq[i + 1], rdreq'[i])
    OBVIOUS
  <2>1. rdbuf'[rdreq'[i]] = rdbuf[rdreq[i + 1]] /\ rdbuf'[rdreq'[i]].data \in Nat
    BY <1>3, <1>4
  <2> QED
    BY <2>1 DEF SameRequest
<1>6. ASSUME NEW blk \in Blk, NEW v \in Nat, NEW n \in 1 .. Len(rdreq), Carried(blk, v, n)
      PROVE  Carried(blk, v, n - 1)'
  <2>1. CASE OnWay(blk, v)
    BY <2>1 DEF Carried, StillOnWay
  <2>2. CASE Ahead(blk, v, n)
    <3>1. PICK i \in 1 .. n : /\ rdbuf[rdreq[i]].op = "write" /\ rdbuf[rdreq[i]].blk = blk
                              /\ v <= rdbuf[rdreq[i]].data
      BY <2>2 DEF Ahead
    <3>2. CASE i = 1
      <4>1. OnWay(blk, v)'
        BY <1>1, <3>1, <3>2
      <4> QED
        BY <4>1 DEF Carried
    <3>3. CASE i # 1
      <4>1. i - 1 \in 1 .. n - 1 /\ i - 1 \in 1 .. Len(rdreq') /\ (i - 1) + 1 = i
        BY <1>1, <1>2, <3>3
      <4>2. rdbuf'[rdreq'[i - 1]] = rdbuf[rdreq[i]]
        BY <1>4, <4>1
      <4>3. Ahead(blk, v, n - 1)'
        BY <3>1, <4>1, <4>2 DEF Ahead
      <4> QED
        BY <4>3 DEF Carried
    <3> QED
      BY <3>2, <3>3
  <2> QED
    BY <1>6, <2>1, <2>2 DEF Carried
<1> QED
  BY <1>2, <1>5, <1>6

-------------------------------------------------------------------------------
(* The datagrams stay in order *)

\* What is written.
LEMMA WritesSent ==
  ASSUME DiskTypes
  PROVE  /\ \A m \in WriteRequests :
              /\ m \in net /\ m.kind = "request" /\ m.type = "write"
              /\ m.blk \in Blk /\ m.data \in Nat /\ m.seq \in Nat
              /\ disk[m.blk] \in Nat /\ latest[m.blk] \in Nat
         /\ exch # NoExchange =>
              /\ exch.ask \in Datagram /\ exch.seq \in Nat /\ exch.ask.data \in Nat /\ exch.ask.seq \in Nat
              /\ exch.ask.type = "write" =>
                   exch.ask.blk \in Blk /\ disk[exch.ask.blk] \in Nat /\ latest[exch.ask.blk] \in Nat
<1>1. \A m \in WriteRequests : m \in net /\ m.kind = "request" /\ m.type = "write"
  BY DEF WriteRequests
<1>2. \A m \in WriteRequests : m.blk \in Blk /\ m.data \in Nat /\ m.seq \in Nat
  BY <1>1, FieldTypes
<1>3. \A blk \in Blk : disk[blk] \in Nat /\ latest[blk] \in Nat
  BY DiskNumbers
<1>4. ASSUME exch # NoExchange
      PROVE  /\ exch.ask \in Datagram /\ exch.seq \in Nat /\ exch.ask.data \in Nat /\ exch.ask.seq \in Nat
             /\ exch.ask.type = "write" => exch.ask.blk \in Blk
  <2>1. exch.ask \in Datagram /\ exch.seq \in Nat
    BY <1>4, FieldTypes
  <2> QED
    BY <2>1 DEF Datagram, Datagrams
<1> QED
  BY <1>1, <1>2, <1>3, <1>4

\* Datagrams that come, are lost or stay, and writes that are queued.
LEMMA NetLess ==
  ASSUME DiskTypes, DiskTypes', NetInv, net' \subseteq net, exch' = exch \/ exch' = NoExchange,
         UNCHANGED <<rdseq, disk>>, \A blk \in Blk : latest[blk] <= latest'[blk]
  PROVE  NetInv'
<1>1. /\ \A m \in WriteRequests' : m \in WriteRequests
      /\ \A m \in net' : m \in net
  BY DEF WriteRequests
<1>2. \A blk \in Blk : disk[blk] \in Nat /\ latest[blk] \in Nat /\ latest'[blk] \in Nat
  BY DiskNumbers, NumbersNext
<1>3. \A blk \in Blk : \A v \in Nat : v <= latest[blk] => v <= latest'[blk]
  BY <1>2
<1>4. Ordered'
  <2>1. \A blk \in Blk : disk'[blk] <= latest'[blk]
    BY <1>2, <1>3 DEF NetInv, Ordered
  <2>2. \A m \in net' : m.seq < rdseq'
    BY <1>1 DEF NetInv, Ordered
  <2>3. \A m \in WriteRequests' : disk'[m.blk] <= m.data /\ m.data <= latest'[m.blk]
    BY <1>1, <1>3, WritesSent DEF NetInv, Ordered
  <2>4. \A m, n \in WriteRequests' : m.blk = n.blk /\ m.seq <= n.seq => m.data <= n.data
    BY <1>1 DEF NetInv, Ordered
  <2> QED
    BY <2>1, <2>2, <2>3, <2>4 DEF Ordered
<1>5. ASSUME exch' # NoExchange
      PROVE  Newest'
  <2> DEFINE a == exch.ask
  <2>1. exch' = exch /\ exch # NoExchange /\ Newest /\ exch'.ask = a
    BY <1>5 DEF NetInv
  <2>2. /\ exch.seq < rdseq /\ a.seq = exch.seq /\ a.type = exch.type /\ a.kind = "request"
        /\ \A m \in net : m.seq = exch.seq =>
             /\ m.kind = "request" => m = a
             /\ m.kind = "reply" => m.type = a.type /\ m.blk = a.blk
             /\ m.kind = "reply" /\ a.type = "write" => a.data <= disk[a.blk]
        /\ a.type = "write" =>
             /\ disk[a.blk] <= a.data /\ a.data <= latest[a.blk]
             /\ \A m \in WriteRequests : m.blk = a.blk => m.data <= a.data /\ m.seq <= a.seq
    BY <2>1 DEF Newest
  <2>3. a.type = "write" => a.blk \in Blk /\ a.data \in Nat
    BY <2>1, WritesSent
  <2> HIDE DEF a
  <2>4. a.type = "write" =>
          /\ disk[a.blk] <= a.data /\ a.data <= latest'[a.blk]
          /\ \A m \in WriteRequests' : m.blk = a.blk => m.data <= a.data /\ m.seq <= a.seq
    BY <1>1, <1>3, <2>2, <2>3
  <2>5. \A m \in net' : m.seq = exch.seq =>
          /\ m.kind = "request" => m = a
          /\ m.kind = "reply" => m.type = a.type /\ m.blk = a.blk
          /\ m.kind = "reply" /\ a.type = "write" => a.data <= disk[a.blk]
    BY <1>1, <2>2
  <2> QED
    BY <2>1, <2>2, <2>4, <2>5 DEF Newest
<1> QED
  BY <1>4, <1>5 DEF NetInv

\* A request is sent again, or a reply is thrown away.
LEMMA NetAgain ==
  ASSUME DiskTypes, NetInv, exch # NoExchange, exch'.type = exch.type, exch'.seq = exch.seq,
         exch'.ask = exch.ask, net' \subseteq net \cup {exch.ask}, UNCHANGED <<rdseq, disk, latest>>
  PROVE  NetInv'
<1> DEFINE a == exch.ask
<1>1. /\ \A blk \in Blk : disk[blk] <= latest[blk]
      /\ \A m \in net : m.seq < rdseq
      /\ \A m \in WriteRequests : disk[m.blk] <= m.data /\ m.data <= latest[m.blk]
      /\ \A m, n \in WriteRequests : m.blk = n.blk /\ m.seq <= n.seq => m.data <= n.data
  BY DEF NetInv, Ordered
<1>2. /\ exch.seq < rdseq /\ a.seq = exch.seq /\ a.type = exch.type /\ a.kind = "request"
      /\ \A m \in net : m.seq = exch.seq =>
           /\ m.kind = "request" => m = a
           /\ m.kind = "reply" => m.type = a.type /\ m.blk = a.blk
           /\ m.kind = "reply" /\ a.type = "write" => a.data <= disk[a.blk]
      /\ a.type = "write" =>
           /\ disk[a.blk] <= a.data /\ a.data <= latest[a.blk]
           /\ \A m \in WriteRequests : m.blk = a.blk => m.data <= a.data /\ m.seq <= a.seq
  BY DEF NetInv, Newest
<1>3. rdseq \in Nat /\ a.data \in Nat /\ a.seq \in Nat /\ \A m \in net : m.seq \in Nat
  BY WritesSent, DiskNumbers, FieldTypes
<1>4. exch'.ask = a /\ net' \subseteq net \cup {a}
  OBVIOUS
<1> HIDE DEF a
<1>5. \A m \in WriteRequests' : m \in WriteRequests \/ (m = a /\ a.type = "write")
  BY <1>4 DEF WriteRequests
<1>6. Ordered'
  <2>1. \A m \in net' : m.seq < rdseq
    BY <1>1, <1>2, <1>3, <1>4
  <2>2. \A m \in WriteRequests' : disk[m.blk] <= m.data /\ m.data <= latest[m.blk]
    BY <1>1, <1>2, <1>5
  <2>3. ASSUME NEW m \in WriteRequests', NEW n \in WriteRequests', m.blk = n.blk, m.seq <= n.seq
        PROVE  m.data <= n.data
    <3>1. CASE m \in WriteRequests /\ n \in WriteRequests
      BY <1>1, <2>3, <3>1
    <3>2. CASE n = a /\ a.type = "write"
      <4>1. m = a \/ m \in WriteRequests
        BY <1>5
      <4> QED
        BY <1>2, <1>3, <2>3, <3>2, <4>1
    <3>3. CASE m = a /\ a.type = "write" /\ n \in WriteRequests
      <4>1. n \in net /\ n.kind = "request"
        BY <3>3 DEF WriteRequests
      <4>2. n.seq <= a.seq /\ a.seq <= n.seq /\ n.seq \in Nat /\ a.seq \in Nat
        BY <1>2, <1>3, <2>3, <3>3, <4>1
      <4>3. n.seq = exch.seq
        BY <1>2, <4>2
      <4> QED
        BY <1>2, <1>3, <3>3, <4>1, <4>3
    <3> QED
      BY <1>5, <3>1, <3>2, <3>3
  <2> QED
    BY <1>1, <2>1, <2>2, <2>3 DEF Ordered
<1>7. Newest'
  <2>1. \A m \in net' : m.seq = exch.seq =>
          /\ m.kind = "request" => m = a
          /\ m.kind = "reply" => m.type = a.type /\ m.blk = a.blk
          /\ m.kind = "reply" /\ a.type = "write" => a.data <= disk[a.blk]
    <3> SUFFICES ASSUME NEW m \in net', m.seq = exch.seq
                 PROVE  /\ m.kind = "request" => m = a
                        /\ m.kind = "reply" => m.type = a.type /\ m.blk = a.blk
                        /\ m.kind = "reply" /\ a.type = "write" => a.data <= disk[a.blk]
      OBVIOUS
    <3>1. CASE m \in net
      BY <1>2, <3>1
    <3>2. CASE m = a
      BY <1>2, <3>2
    <3> QED
      BY <1>4, <3>1, <3>2
  <2>2. a.type = "write" =>
          /\ disk[a.blk] <= a.data /\ a.data <= latest[a.blk]
          /\ \A m \in WriteRequests' : m.blk = a.blk => m.data <= a.data /\ m.seq <= a.seq
    BY <1>2, <1>3, <1>5
  <2> QED
    BY <1>2, <1>4, <2>1, <2>2 DEF Newest
<1> QED
  BY <1>6, <1>7 DEF NetInv

\* An exchange begins: a write has what was last written to its block.
LEMMA NetAsk ==
  ASSUME DiskTypes, NetInv, NEW type \in Exchanges, NEW blk \in Blk \cup {0}, NEW data \in Nat,
         type \in {"read", "write"} => blk \in Blk, type = "write" => data = latest[blk],
         StartExchange(type, blk, data), UNCHANGED <<disk, latest>>
  PROVE  NetInv' /\ (type = "write" => exch'.ask.blk = blk /\ exch'.ask.data = data)
<1> DEFINE a == Ask(type, blk, data)
<1>1. /\ \A x \in Blk : disk[x] <= latest[x]
      /\ \A m \in net : m.seq < rdseq
      /\ \A m \in WriteRequests : disk[m.blk] <= m.data /\ m.data <= latest[m.blk]
      /\ \A m, n \in WriteRequests : m.blk = n.blk /\ m.seq <= n.seq => m.data <= n.data
  BY DEF NetInv, Ordered
<1>2. /\ a.kind = "request" /\ a.type = type /\ a.seq = rdseq /\ a.blk = blk /\ a.data = data
  BY DEF Ask
<1>3. /\ exch'.type = type /\ exch'.seq = rdseq /\ exch'.ask = a
      /\ rdseq' = rdseq + 1 /\ net' = net \cup {a}
  BY Exchanged
<1>4. rdseq \in Nat /\ \A m \in net : m.seq \in Nat /\ m.seq < rdseq
  BY <1>1, DiskNumbers, FieldTypes
<1>5. \A x \in Blk : latest[x] \in Nat /\ disk[x] \in Nat
  BY DiskNumbers
<1> HIDE DEF a
<1>6. \A m \in WriteRequests' : m \in WriteRequests \/ (m = a /\ type = "write")
  BY <1>2, <1>3 DEF WriteRequests
<1>7. \A m \in WriteRequests : m.seq < rdseq /\ m.seq \in Nat
  BY <1>4, WritesSent
<1>8. Ordered'
  <2>1. \A m \in net' : m.seq < rdseq + 1
    BY <1>2, <1>3, <1>4
  <2>2. \A m \in WriteRequests' : disk[m.blk] <= m.data /\ m.data <= latest[m.blk]
    BY <1>1, <1>2, <1>5, <1>6
  <2>3. ASSUME NEW m \in WriteRequests', NEW n \in WriteRequests', m.blk = n.blk, m.seq <= n.seq
        PROVE  m.data <= n.data
    <3>1. CASE m \in WriteRequests /\ n \in WriteRequests
      BY <1>1, <2>3, <3>1
    <3>2. CASE n = a /\ type = "write"
      <4>1. m = a \/ m \in WriteRequests
        BY <1>6
      <4> QED
        BY <1>1, <1>2, <2>3, <3>2, <4>1
    <3>3. CASE m = a /\ type = "write" /\ n \in WriteRequests
      BY <1>2, <1>4, <1>7, <2>3, <3>3
    <3> QED
      BY <1>6, <3>1, <3>2, <3>3
  <2> QED
    BY <1>1, <1>3, <2>1, <2>2, <2>3 DEF Ordered
<1>9. Newest'
  <2>1. \A m \in net' : m.seq = rdseq => m = a
    BY <1>3, <1>4
  <2>2. a.type = "write" =>
          /\ disk[a.blk] <= a.data /\ a.data <= latest[a.blk]
          /\ \A m \in WriteRequests' : m.blk = a.blk => m.data <= a.data /\ m.seq <= a.seq
    BY <1>1, <1>2, <1>4, <1>5, <1>6, <1>7
  <2>3. rdseq < rdseq + 1
    BY <1>4
  <2>4. exch'.seq < rdseq' /\ a.seq = exch'.seq /\ a.type = exch'.type /\ a.kind = "request"
    BY <1>2, <1>3, <2>3
  <2>5. \A m \in net' : m.seq = exch'.seq =>
          /\ m.kind = "request" => m = a
          /\ m.kind = "reply" => m.type = a.type /\ m.blk = a.blk
          /\ m.kind = "reply" /\ a.type = "write" => a.data <= disk[a.blk]
    BY <1>2, <1>3, <2>1
  <2> QED
    BY <1>3, <2>2, <2>4, <2>5 DEF Newest
<1> QED
  BY <1>2, <1>3, <1>8, <1>9 DEF NetInv

\* An open that is refused has sent its request.
LEMMA NetRefused ==
  ASSUME DiskTypes, NetInv, rdseq' = rdseq + 1, net' = net \cup {Ask("open", 0, 0)},
         UNCHANGED <<exch, disk, latest>>
  PROVE  NetInv'
<1> DEFINE n == Ask("open", 0, 0)
<1>1. n.kind = "request" /\ n.type = "open" /\ n.seq = rdseq
  BY DEF Ask
<1>2. net' = net \cup {n}
  OBVIOUS
<1> HIDE DEF n
<1>3. rdseq \in Nat /\ \A m \in net : m.seq \in Nat /\ m.seq < rdseq
  BY DiskNumbers, FieldTypes DEF NetInv, Ordered
<1>4. WriteRequests' = WriteRequests
  BY <1>1, <1>2 DEF WriteRequests
<1>5. Ordered'
  <2>1. \A m \in net' : m.seq < rdseq'
    BY <1>1, <1>2, <1>3
  <2> QED
    BY <1>4, <2>1 DEF NetInv, Ordered
<1>6. ASSUME exch # NoExchange
      PROVE  Newest'
  <2> DEFINE a == exch.ask
  <2>1. /\ exch.seq < rdseq /\ a.seq = exch.seq /\ a.type = exch.type /\ a.kind = "request"
        /\ \A m \in net : m.seq = exch.seq =>
             /\ m.kind = "request" => m = a
             /\ m.kind = "reply" => m.type = a.type /\ m.blk = a.blk
             /\ m.kind = "reply" /\ a.type = "write" => a.data <= disk[a.blk]
        /\ a.type = "write" =>
             /\ disk[a.blk] <= a.data /\ a.data <= latest[a.blk]
             /\ \A m \in WriteRequests : m.blk = a.blk => m.data <= a.data /\ m.seq <= a.seq
    BY <1>6 DEF NetInv, Newest
  <2>2. exch.seq \in Nat /\ exch'.ask = a
    BY <1>6, WritesSent
  <2> HIDE DEF a
  <2>3. exch.seq < rdseq' /\ n.seq # exch.seq
    BY <1>1, <1>3, <2>1, <2>2
  <2>4. \A m \in net' : m.seq = exch.seq => m \in net
    BY <1>2, <2>3
  <2> QED
    BY <1>4, <2>1, <2>2, <2>3, <2>4 DEF Newest
<1> QED
  BY <1>5, <1>6 DEF NetInv

\* The server carries out the oldest request.
LEMMA NetServed ==
  ASSUME "late" \notin RdHazards, DiskTypes, DiskTypes', NetInv, NEW m \in net, Server(m)
  PROVE  NetInv' /\ StillOnWay /\ \A blk \in Blk : disk[blk] <= disk'[blk]
<1> DEFINE a == exch.ask
           d == IF m.type = "read" THEN disk[m.blk] ELSE 0
           r == [m EXCEPT !.kind = "reply", !.data = d]
<1>1. /\ \A x \in Blk : disk[x] <= latest[x]
      /\ \A n \in net : n.seq < rdseq
      /\ \A n \in WriteRequests : disk[n.blk] <= n.data /\ n.data <= latest[n.blk]
      /\ \A n, k \in WriteRequests : n.blk = k.blk /\ n.seq <= k.seq => n.data <= k.data
  BY DEF NetInv, Ordered
<1>2. /\ m.kind = "request" /\ net' = (net \ {m}) \cup {r}
      /\ disk' = IF m.type = "write" THEN [disk EXCEPT ![m.blk] = m.data] ELSE disk
      /\ UNCHANGED <<rdseq, exch, latest>>
      /\ InTime(m)
  BY DEF Server
<1>3. \A n \in net : n.kind = "request" => m.seq <= n.seq
  <2>1. \A n \in net : n.kind = "request" => n.seq >= m.seq
    BY <1>2 DEF InTime
  <2>2. \A n \in net : n.seq \in Nat
    BY FieldTypes
  <2> QED
    BY <2>1, <2>2
<1>4. /\ r.kind = "reply" /\ r.type = m.type /\ r.blk = m.blk /\ r.seq = m.seq
  <2>1. m \in Datagrams
    BY FieldTypes DEF Datagram
  <2> HIDE DEF d
  <2> QED
    BY <2>1 DEF Datagrams
<1> HIDE DEF r
<1>5. \A n \in WriteRequests' : n \in WriteRequests
  BY <1>2, <1>4 DEF WriteRequests
<1>6. \A x \in Blk : disk[x] \in Nat /\ disk'[x] \in Nat /\ latest[x] \in Nat
  BY DiskNumbers, NumbersNext
<1>7. /\ m.type = "write" => m \in WriteRequests /\ m.blk \in Blk /\ m.data \in Nat
      /\ \A x \in Blk : disk'[x] = IF m.type = "write" /\ x = m.blk THEN m.data ELSE disk[x]
  <2>1. m.type = "write" => m \in WriteRequests /\ m.blk \in Blk /\ m.data \in Nat
    BY <1>2, WritesSent DEF WriteRequests
  <2>2. disk \in [Blk -> Nat]
    BY DEF DiskTypes, ServeTypes
  <2> QED
    BY <1>2, <2>1, <2>2
<1>8. \A x \in Blk : disk[x] <= disk'[x] /\ disk'[x] <= latest[x]
  BY <1>1, <1>6, <1>7
<1>9. Ordered'
  <2>1. \A n \in net' : n.seq < rdseq
    BY <1>1, <1>2, <1>4
  <2>2. ASSUME NEW n \in WriteRequests'
        PROVE  disk'[n.blk] <= n.data /\ n.data <= latest[n.blk]
    <3>1. n \in WriteRequests /\ n.blk \in Blk /\ n \in net /\ n.kind = "request"
      BY <1>5, <2>2, WritesSent
    <3>2. disk[n.blk] <= n.data /\ n.data <= latest[n.blk]
      BY <1>1, <3>1
    <3>3. CASE m.type = "write" /\ n.blk = m.blk
      <4>1. m.data <= n.data
        BY <1>1, <1>3, <1>7, <3>1, <3>3
      <4> QED
        BY <1>7, <3>1, <3>2, <3>3, <4>1
    <3>4. CASE ~(m.type = "write" /\ n.blk = m.blk)
      BY <1>7, <3>1, <3>2, <3>4
    <3> QED
      BY <3>3, <3>4
  <2>3. \A n, k \in WriteRequests' : n.blk = k.blk /\ n.seq <= k.seq => n.data <= k.data
    BY <1>1, <1>5
  <2> QED
    BY <1>2, <1>8, <2>1, <2>2, <2>3 DEF Ordered
<1>10. ASSUME exch # NoExchange
       PROVE  Newest'
  <2>1. /\ exch.seq < rdseq /\ a.seq = exch.seq /\ a.type = exch.type /\ a.kind = "request"
        /\ \A n \in net : n.seq = exch.seq =>
             /\ n.kind = "request" => n = a
             /\ n.kind = "reply" => n.type = a.type /\ n.blk = a.blk
             /\ n.kind = "reply" /\ a.type = "write" => a.data <= disk[a.blk]
        /\ a.type = "write" =>
             /\ disk[a.blk] <= a.data /\ a.data <= latest[a.blk]
             /\ \A n \in WriteRequests : n.blk = a.blk => n.data <= a.data /\ n.seq <= a.seq
    BY <1>10 DEF NetInv, Newest
  <2>2. a.data \in Nat /\ (a.type = "write" => a.blk \in Blk) /\ exch'.ask = a
    BY <1>2, <1>10, WritesSent
  <2> HIDE DEF a
  <2>3. a.type = "write" =>
          /\ disk'[a.blk] <= a.data /\ a.data <= latest[a.blk]
          /\ \A n \in WriteRequests' : n.blk = a.blk => n.data <= a.data /\ n.seq <= a.seq
    BY <1>5, <1>7, <2>1, <2>2
  <2>4. ASSUME NEW n \in net', n.seq = exch.seq
        PROVE  /\ n.kind = "request" => n = a
               /\ n.kind = "reply" => n.type = a.type /\ n.blk = a.blk
               /\ n.kind = "reply" /\ a.type = "write" => a.data <= disk'[a.blk]
    <3>1. CASE n \in net
      <4>1. /\ n.kind = "request" => n = a
            /\ n.kind = "reply" => n.type = a.type /\ n.blk = a.blk
            /\ n.kind = "reply" /\ a.type = "write" => a.data <= disk[a.blk]
        BY <2>1, <2>4, <3>1
      <4> QED
        BY <1>6, <1>8, <2>2, <4>1
    <3>2. CASE n = r
      <4>1. m = a /\ n.kind = "reply" /\ n.type = a.type /\ n.blk = a.blk
        BY <1>2, <1>4, <2>1, <2>4, <3>2
      <4>2. a.type = "write" => disk'[a.blk] = a.data
        BY <1>7, <2>2, <4>1
      <4> QED
        BY <2>2, <4>1, <4>2
    <3> QED
      BY <1>2, <2>4, <3>1, <3>2
  <2> QED
    BY <1>2, <2>1, <2>2, <2>3, <2>4 DEF Newest
<1>11. StillOnWay
  <2> SUFFICES ASSUME NEW blk \in Blk, NEW v \in Nat, OnWay(blk, v)
               PROVE  OnWay(blk, v)'
    BY DEF StillOnWay
  <2>1. v <= disk[blk] => v <= disk'[blk]
    BY <1>6, <1>8
  <2> QED
    BY <1>2, <2>1 DEF OnWay
<1>12. NetInv'
  BY <1>2, <1>9, <1>10 DEF NetInv
<1> QED
  BY <1>8, <1>11, <1>12

-------------------------------------------------------------------------------
(* A write is carried until it is on the disk *)

\* Calls that end, and steps of the exchange: the requests stay.
LEMMA SyncStill ==
  ASSUME BuffersInv, DiskTypes', SyncInv, StillOnWay, \A blk \in Blk : disk[blk] <= disk'[blk],
         Len(rdreq') = Len(rdreq), \A i \in 1 .. Len(rdreq) : SameRequest(rdreq[i], rdreq'[i]),
         \A q \in RdProc : \/ rdcall'[q] = rdcall[q] /\ rdmsg'[q] = rdmsg[q]
                           \/ rdcall'[q] = Idle,
         UNCHANGED <<latest, before, writes>>
  PROVE  SyncInv'
<1>1. DiskTypes
  BY DEF BuffersInv
<1>2. \A blk \in Blk : \A v \in Nat : \A n \in 0 .. Len(rdreq) :
        Carried(blk, v, n) => Carried(blk, v, n)'
  <2>1. Len(rdreq) \in Nat /\ Len(rdreq) <= Len(rdreq')
    BY <1>1, DiskNumbers
  <2> QED
    BY <1>1, <2>1, CarriedKept
<1>3. /\ Len(rdreq) \in Nat /\ \A blk \in Blk : latest[blk] \in Nat /\ disk[blk] \in Nat /\ disk'[blk] \in Nat
      /\ \A p \in RdProc : \A blk \in Blk : before[p][blk] \in Nat
  BY <1>1, DiskNumbers, NumbersNext
<1>4. Idle.op = "none"
  BY DEF Idle
<1>5. LatestCarried'
  <2> SUFFICES ASSUME NEW blk \in Blk
               PROVE  latest'[blk] <= writes' /\ Carried(blk, latest[blk], Len(rdreq))'
    BY DEF LatestCarried
  <2>1. latest[blk] <= writes /\ Carried(blk, latest[blk], Len(rdreq))
    BY DEF SyncInv, LatestCarried
  <2>2. PICK v \in Nat : v = latest[blk] /\ v = latest'[blk]
    BY <1>3
  <2>3. PICK n \in 0 .. Len(rdreq) : n = Len(rdreq) /\ n = Len(rdreq')
    BY <1>3
  <2>4. Carried(blk, v, n)
    BY <2>1, <2>2, <2>3
  <2>5. Carried(blk, v, n)'
    BY <1>2, <2>4
  <2> QED
    BY <2>1, <2>2, <2>3, <2>5 DEF Carried, Ahead, OnWay
<1>6. WritesNext'
  BY <1>4 DEF SyncInv, WritesNext
<1>7. SyncsNext'
  <2> SUFFICES ASSUME NEW p \in RdProc, rdcall'[p].op = "sync", rdcall'[p].at = "alloc", NEW blk \in Blk
               PROVE  Carried(blk, before[p][blk], Len(rdreq))'
    BY DEF SyncsNext
  <2>1. rdcall'[p] = rdcall[p]
    BY <1>4
  <2>2. Carried(blk, before[p][blk], Len(rdreq))
    BY <2>1 DEF SyncInv, SyncsNext
  <2>3. PICK v \in Nat : v = before[p][blk] /\ v = before'[p][blk]
    BY <1>3
  <2>4. PICK n \in 0 .. Len(rdreq) : n = Len(rdreq) /\ n = Len(rdreq')
    BY <1>3
  <2>5. Carried(blk, v, n)
    BY <2>2, <2>3, <2>4
  <2>6. Carried(blk, v, n)'
    BY <1>2, <2>5
  <2> QED
    BY <2>3, <2>4, <2>6 DEF Carried, Ahead, OnWay
<1>8. SyncsQueued'
  <2> SUFFICES ASSUME NEW i \in 1 .. Len(rdreq'), rdbuf'[rdreq'[i]].op = "sync", NEW blk \in Blk
               PROVE  Carried(blk, before[rdbuf[rdreq[i]].pid][blk], i - 1)'
    BY DEF SyncsQueued
  <2>1. /\ i \in 1 .. Len(rdreq) /\ rdbuf[rdreq[i]].op = "sync"
        /\ rdbuf'[rdreq'[i]].pid = rdbuf[rdreq[i]].pid
    BY DEF SameRequest
  <2>2. PICK p \in RdProc : p = rdbuf[rdreq[i]].pid
    <3>1. rdreq[i] \in Requested
      BY <1>1, <2>1, Listed
    <3>2. RequestOf(rdreq[i])
      BY <3>1 DEF BuffersInv, Shape
    <3> QED
      BY <2>1, <3>2 DEF RequestOf
  <2>3. PICK v \in Nat : v = before[p][blk] /\ v = before'[p][blk]
    BY <1>3
  <2>4. PICK n \in 0 .. Len(rdreq) : n = i - 1
    BY <1>3, <2>1
  <2>5. Carried(blk, v, n)
    BY <2>1, <2>2, <2>3, <2>4 DEF SyncInv, SyncsQueued
  <2>6. Carried(blk, v, n)'
    BY <1>2, <2>5
  <2> QED
    BY <2>1, <2>2, <2>3, <2>4, <2>6 DEF Carried, Ahead, OnWay
<1>9. SyncsDone'
  <2> SUFFICES ASSUME NEW p \in RdProc, rdcall'[p].op = "sync", rdmsg'[p] # NoBuffer, NEW blk \in Blk
               PROVE  disk'[blk] >= before'[p][blk]
    BY DEF SyncsDone
  <2>1. rdcall'[p] = rdcall[p] /\ rdmsg'[p] = rdmsg[p]
    BY <1>4
  <2>2. disk[blk] >= before[p][blk]
    BY <2>1 DEF SyncInv, SyncsDone
  <2> QED
    BY <1>3, <2>2
<1> QED
  BY <1>5, <1>6, <1>7, <1>8, <1>9 DEF SyncInv

\* rdsprocess takes the first request.
LEMMA SyncOn ==
  ASSUME BuffersInv, DiskTypes', SyncInv, StillOnWay, rdreq # <<>>, rdreq' = Tail(rdreq),
         \A c \in Requested' : rdbuf'[c] = rdbuf[c],
         \A blk \in Blk : \A v \in Nat :
           /\ rdbuf[Head(rdreq)].op = "write" /\ rdbuf[Head(rdreq)].blk = blk
           /\ v <= rdbuf[Head(rdreq)].data
           => OnWay(blk, v)',
         \A q \in RdProc : rdcall[q].op = "sync" /\ rdmsg'[q] # NoBuffer =>
           rdmsg[q] # NoBuffer \/ \A blk \in Blk : before[q][blk] <= disk[blk],
         UNCHANGED <<disk, rdcall, latest, before, writes>>
  PROVE  SyncInv'
<1>1. DiskTypes
  BY DEF BuffersInv
<1>2. /\ Len(rdreq') = Len(rdreq) - 1
      /\ \A i \in 1 .. Len(rdreq') :
           /\ rdreq'[i] = rdreq[i + 1] /\ i + 1 \in 1 .. Len(rdreq)
           /\ SameRequest(rdreq[i + 1], rdreq'[i])
      /\ \A blk \in Blk : \A v \in Nat : \A n \in 1 .. Len(rdreq) :
           Carried(blk, v, n) => Carried(blk, v, n - 1)'
  BY <1>1, CarriedOn
<1>3. /\ Len(rdreq) \in Nat \ {0} /\ \A blk \in Blk : latest[blk] \in Nat /\ disk[blk] \in Nat
      /\ \A p \in RdProc : \A blk \in Blk : before[p][blk] \in Nat
  <2>1. rdreq \in Seq(RdBuffer)
    BY <1>1 DEF DiskTypes, HoldTypes
  <2> QED
    BY <1>1, <2>1, DiskNumbers
<1>4. PICK k \in 1 .. Len(rdreq) : k = Len(rdreq) /\ k - 1 = Len(rdreq')
  <2>1. Len(rdreq) \in 1 .. Len(rdreq) /\ Len(rdreq) - 1 = Len(rdreq')
    BY <1>2, <1>3
  <2> QED
    BY <2>1
<1>5. LatestCarried'
  <2> SUFFICES ASSUME NEW blk \in Blk
               PROVE  latest'[blk] <= writes' /\ Carried(blk, latest[blk], Len(rdreq))'
    BY DEF LatestCarried
  <2>1. latest[blk] <= writes /\ Carried(blk, latest[blk], Len(rdreq))
    BY DEF SyncInv, LatestCarried
  <2>2. PICK v \in Nat : v = latest[blk] /\ v = latest'[blk]
    BY <1>3
  <2>3. Carried(blk, v, k)
    BY <1>4, <2>1, <2>2
  <2>4. Carried(blk, v, k - 1)'
    BY <1>2, <2>3
  <2> QED
    BY <1>4, <2>1, <2>2, <2>4 DEF Carried, Ahead, OnWay
<1>6. WritesNext'
  BY DEF SyncInv, WritesNext
<1>7. SyncsNext'
  <2> SUFFICES ASSUME NEW p \in RdProc, rdcall'[p].op = "sync", rdcall'[p].at = "alloc", NEW blk \in Blk
               PROVE  Carried(blk, before[p][blk], Len(rdreq))'
    BY DEF SyncsNext
  <2>1. Carried(blk, before[p][blk], Len(rdreq))
    BY DEF SyncInv, SyncsNext
  <2>2. PICK v \in Nat : v = before[p][blk] /\ v = before'[p][blk]
    BY <1>3
  <2>3. Carried(blk, v, k)
    BY <1>4, <2>1, <2>2
  <2>4. Carried(blk, v, k - 1)'
    BY <1>2, <2>3
  <2> QED
    BY <1>4, <2>2, <2>4 DEF Carried, Ahead, OnWay
<1>8. SyncsQueued'
  <2> SUFFICES ASSUME NEW i \in 1 .. Len(rdreq'), rdbuf'[rdreq'[i]].op = "sync", NEW blk \in Blk
               PROVE  Carried(blk, before[rdbuf[rdreq[i]].pid][blk], i - 1)'
    BY DEF SyncsQueued
  <2>1. /\ i + 1 \in 1 .. Len(rdreq) /\ i \in 1 .. Len(rdreq) /\ (i + 1) - 1 = i
        /\ rdbuf[rdreq[i + 1]].op = "sync" /\ rdbuf'[rdreq'[i]].pid = rdbuf[rdreq[i + 1]].pid
    BY <1>2, <1>3 DEF SameRequest
  <2>2. PICK p \in RdProc : p = rdbuf[rdreq[i + 1]].pid
    <3>1. rdreq[i + 1] \in Requested
      BY <1>1, <2>1, Listed
    <3>2. RequestOf(rdreq[i + 1])
      BY <3>1 DEF BuffersInv, Shape
    <3> QED
      BY <2>1, <3>2 DEF RequestOf
  <2>3. PICK v \in Nat : v = before[p][blk] /\ v = before'[p][blk]
    BY <1>3
  <2>4. Carried(blk, v, i)
    BY <2>1, <2>2, <2>3 DEF SyncInv, SyncsQueued
  <2>5. Carried(blk, v, i - 1)'
    BY <1>2, <2>1, <2>4
  <2>6. before'[rdbuf'[rdreq'[i]].pid][blk] = v
    BY <2>1, <2>2, <2>3
  <2> QED
    BY <2>5, <2>6 DEF Carried, Ahead, OnWay
<1>9. SyncsDone'
  <2> SUFFICES ASSUME NEW p \in RdProc, rdcall'[p].op = "sync", rdmsg'[p] # NoBuffer, NEW blk \in Blk
               PROVE  disk'[blk] >= before'[p][blk]
    BY DEF SyncsDone
  <2>1. rdmsg[p] # NoBuffer \/ before[p][blk] <= disk[blk]
    OBVIOUS
  <2>2. rdmsg[p] # NoBuffer => disk[blk] >= before[p][blk]
    BY DEF SyncInv, SyncsDone
  <2> QED
    BY <1>3, <2>1, <2>2
<1> QED
  BY <1>5, <1>6, <1>7, <1>8, <1>9 DEF SyncInv

\* A call for a buffer: a write is newer than the last one, and what a sync is for is carried.
LEMMA SyncGoes ==
  ASSUME BuffersInv, DiskTypes', SyncInv, NEW p \in RdProc, NEW op, NEW blk, NEW data,
         Goes(p, op, blk, data), UNCHANGED <<disk, exch>>, writes <= writes',
         \A q \in RdProc : q # p => before'[q] = before[q],
         op = "sync" => \A x \in Blk : Carried(x, before'[p][x], Len(rdreq)),
         op = "write" => blk \in Blk /\ latest[blk] <= data /\ data <= writes'
  PROVE  SyncInv' /\ \A x \in Blk : latest[x] <= latest'[x]
<1>1. DiskTypes /\ Lists /\ rdreq \in Seq(RdBuffer)
  BY DEF BuffersInv, Shape, DiskTypes, HoldTypes
<1>2. /\ Len(rdreq) \in Nat /\ writes \in Nat /\ writes' \in Nat
      /\ \A x \in Blk : latest[x] \in Nat /\ disk[x] \in Nat /\ latest'[x] \in Nat
      /\ \A q \in RdProc : \A x \in Blk : before[q][x] \in Nat /\ before'[q][x] \in Nat
      /\ \A q \in RdProc : rdcall[q].data \in Nat
      /\ data \in Nat
  BY <1>1, DiskNumbers, NumbersNext, FieldTypes DEF Goes, MayAsk
<1>3. MayAsk(p, op, blk, data) /\ rdcall[p].at # "receive"
  BY DEF Goes, MayAsk
<1>4. StillOnWay
  BY DEF StillOnWay, OnWay
<1>5. \A i \in 1 .. Len(rdreq) : /\ rdreq[i] \in Requested /\ rdreq[i] \in RdBuffer
                                 /\ rdbuf[rdreq[i]].data \in Nat /\ RequestOf(rdreq[i])
  BY <1>1, Listed, DiskNumbers DEF BuffersInv, Shape
<1>6. \A i \in 1 .. Len(rdreq) : rdbuf[rdreq[i]].op = "sync" =>
        rdbuf[rdreq[i]].pid \in RdProc /\ rdbuf[rdreq[i]].pid # p
  BY <1>3, <1>5 DEF RequestOf
<1>7. rdmsg[p] = NoBuffer
  <2>1. CallOf(p)
    BY DEF BuffersInv, Shape
  <2> QED
    BY <1>3, <2>1 DEF CallOf
<1>8. ASSUME NEW b \in Cached \cup Spare, Asks(p, op, blk, data, b)
      PROVE  SyncInv' /\ \A x \in Blk : latest[x] <= latest'[x]
  <2>1. /\ b \in RdBuffer /\ b \notin Requested
        /\ rdbuf'[b].op = op /\ rdbuf'[b].blk = blk /\ rdbuf'[b].data = data /\ rdbuf'[b].pid = p
        /\ \A c \in RdBuffer : c # b => rdbuf'[c] = rdbuf[c]
        /\ rdcall'[p] = (IF op = "write" THEN Idle ELSE Call(op, "receive", blk, data))
        /\ rdmsg'[p] = (IF op = "write" THEN rdmsg[p] ELSE NoBuffer)
        /\ \A q \in RdProc : q # p => rdcall'[q] = rdcall[q] /\ rdmsg'[q] = rdmsg[q]
        /\ \A x \in Blk : latest'[x] = (IF op = "write" /\ x = blk THEN data ELSE latest[x])
    <3>1. rdbuf'[b].blk = blk
      <4>1. rdbuf' = [rdbuf EXCEPT ![b] = Header(op, blk, p, data)]
        BY <1>8 DEF Asks, Request
      <4>2. Header(op, blk, p, data).blk = blk
        BY DEF Header
      <4>3. b \in RdBuffer /\ rdbuf \in [RdBuffer -> Contents]
        BY <1>1, <1>3, <1>8, AsksFacts DEF DiskTypes, HoldTypes
      <4> QED
        BY <4>1, <4>2, <4>3
    <3> QED
      BY <1>1, <1>3, <1>8, <3>1, AsksFacts
  <2>2. rdreq' = Append(rdreq, b)
    BY <1>8 DEF Asks, Request
  <2>3. PICK k \in Nat : k = Len(rdreq) /\ Len(rdreq') = k + 1
    BY <1>1, <1>2, <2>1, <2>2
  <2>4. rdreq'[k + 1] = b /\ \A i \in 1 .. k : rdreq'[i] = rdreq[i]
    BY <1>1, <2>1, <2>2, <2>3
  <2>5. \A i \in 1 .. k : rdbuf'[rdreq'[i]] = rdbuf[rdreq[i]]
    BY <1>5, <2>1, <2>3, <2>4
  <2>6. \A x \in Blk : \A v \in Nat : \A n \in 0 .. k : Carried(x, v, n) => Carried(x, v, n)'
    <3>1. \A i \in 1 .. Len(rdreq) : SameRequest(rdreq[i], rdreq'[i])
      <4> SUFFICES ASSUME NEW i \in 1 .. Len(rdreq)
                   PROVE  SameRequest(rdreq[i], rdreq'[i])
        OBVIOUS
      <4>1. rdbuf'[rdreq'[i]] = rdbuf[rdreq[i]] /\ rdbuf[rdreq[i]].data \in Nat
        BY <1>5, <2>3, <2>5
      <4> QED
        BY <4>1 DEF SameRequest
    <3>2. Len(rdreq) <= Len(rdreq')
      BY <2>3
    <3> QED
      BY <1>1, <1>4, <2>3, <3>1, <3>2, CarriedKept
  <2>7. \A x \in Blk : \A v \in Nat : Carried(x, v, k) => Carried(x, v, k + 1)'
    <3> SUFFICES ASSUME NEW x \in Blk, NEW v \in Nat, Carried(x, v, k)
                 PROVE  Carried(x, v, k + 1)'
      OBVIOUS
    <3>1. Carried(x, v, k)'
      BY <2>3, <2>6
    <3> QED
      BY <2>3, <3>1 DEF Carried, Ahead
  <2>8. LatestCarried'
    <3> SUFFICES ASSUME NEW x \in Blk
                 PROVE  latest'[x] <= writes' /\ Carried(x, latest[x], Len(rdreq))'
      BY DEF LatestCarried
    <3>1. PICK v \in Nat : v = latest'[x]
      BY <1>2
    <3>2. CASE op = "write" /\ x = blk
      <4>1. v = data /\ data <= writes'
        BY <2>1, <3>1, <3>2
      <4>2. Ahead(x, v, k + 1)'
        BY <1>2, <2>1, <2>3, <2>4, <3>2, <4>1 DEF Ahead
      <4> QED
        BY <2>3, <3>1, <4>1, <4>2 DEF Carried, Ahead
    <3>3. CASE ~(op = "write" /\ x = blk)
      <4>1. v = latest[x] /\ latest[x] <= writes /\ Carried(x, latest[x], Len(rdreq))
        BY <2>1, <3>1, <3>3 DEF SyncInv, LatestCarried
      <4>2. Carried(x, v, k)
        BY <2>3, <4>1
      <4>3. Carried(x, v, k + 1)'
        BY <2>7, <4>2
      <4> QED
        BY <1>2, <2>3, <3>1, <4>1, <4>3 DEF Carried, Ahead, OnWay
    <3> QED
      BY <3>2, <3>3
  <2>9. Idle.op = "none" /\ Call(op, "receive", blk, data).op = op /\ Call(op, "receive", blk, data).at = "receive"
    BY CallIs
  <2>10. WritesNext'
    <3> SUFFICES ASSUME NEW q \in RdProc, rdcall'[q].op = "write"
                 PROVE  latest'[rdcall'[q].blk] <= rdcall'[q].data /\ rdcall'[q].data <= writes'
      BY DEF WritesNext
    <3>1. q # p /\ rdcall'[q] = rdcall[q]
      BY <2>1, <2>9
    <3>2. latest[rdcall[q].blk] <= rdcall[q].data /\ rdcall[q].data <= writes
      BY <3>1 DEF SyncInv, WritesNext
    <3>3. rdcall[q].blk \in Blk /\ On(rdcall[q]) = rdcall[q].blk
      BY <1>1, <3>1, FieldTypes
    <3>4. latest'[rdcall[q].blk] = latest[rdcall[q].blk]
      <4>1. op = "write" => rdcall[q].blk # blk
        BY <1>3, <3>1, <3>3 DEF MayAsk
      <4> QED
        BY <2>1, <3>3, <4>1
    <3> QED
      BY <1>2, <3>1, <3>2, <3>4
  <2>11. SyncsNext'
    <3> SUFFICES ASSUME NEW q \in RdProc, rdcall'[q].op = "sync", rdcall'[q].at = "alloc", NEW x \in Blk
                 PROVE  Carried(x, before[q][x], Len(rdreq))'
      BY DEF SyncsNext
    <3>1. q # p /\ rdcall'[q] = rdcall[q]
      BY <2>1, <2>9
    <3>2. PICK v \in Nat : v = before[q][x] /\ v = before'[q][x]
      BY <1>2, <3>1
    <3>3. Carried(x, before[q][x], Len(rdreq))
      BY <3>1 DEF SyncInv, SyncsNext
    <3>4. Carried(x, v, k)
      BY <2>3, <3>2, <3>3
    <3>5. Carried(x, v, k + 1)'
      BY <2>7, <3>4
    <3> QED
      BY <2>3, <3>2, <3>5 DEF Carried, Ahead, OnWay
  <2>12. SyncsQueued'
    <3> SUFFICES ASSUME NEW i \in 1 .. Len(rdreq'), rdbuf'[rdreq'[i]].op = "sync", NEW x \in Blk
                 PROVE  Carried(x, before[rdbuf[rdreq[i]].pid][x], i - 1)'
      BY DEF SyncsQueued
    <3>1. CASE i \in 1 .. k
      <4>1. /\ rdbuf[rdreq[i]].op = "sync" /\ rdbuf'[rdreq'[i]].pid = rdbuf[rdreq[i]].pid
            /\ i \in 1 .. Len(rdreq)
        BY <2>3, <2>5, <3>1
      <4>2. PICK q \in RdProc : q = rdbuf[rdreq[i]].pid /\ q # p
        BY <1>6, <4>1
      <4>3. PICK v \in Nat : v = before[q][x] /\ v = before'[q][x]
        BY <1>2, <4>2
      <4>4. PICK n \in 0 .. k : n = i - 1
        BY <3>1
      <4>5. Carried(x, v, n)
        BY <4>1, <4>2, <4>3, <4>4 DEF SyncInv, SyncsQueued
      <4>6. Carried(x, v, n)'
        BY <2>6, <4>5
      <4> QED
        BY <4>1, <4>2, <4>3, <4>4, <4>6 DEF Carried, Ahead, OnWay
    <3>2. CASE i = k + 1
      <4>1. rdbuf'[rdreq'[i]].pid = p /\ op = "sync"
        BY <2>1, <2>4, <3>2
      <4>2. PICK v \in Nat : v = before'[p][x]
        BY <1>2
      <4>3. Carried(x, v, k)
        BY <2>3, <4>1, <4>2
      <4>4. Carried(x, v, k)' /\ i - 1 = k
        BY <2>3, <2>6, <3>2, <4>3
      <4> QED
        BY <4>1, <4>2, <4>4 DEF Carried, Ahead, OnWay
    <3> QED
      BY <2>3, <3>1, <3>2
  <2>13. SyncsDone'
    <3> SUFFICES ASSUME NEW q \in RdProc, rdcall'[q].op = "sync", rdmsg'[q] # NoBuffer, NEW x \in Blk
                 PROVE  disk'[x] >= before'[q][x]
      BY DEF SyncsDone
    <3>1. q # p
      BY <1>7, <2>1
    <3>2. rdcall'[q] = rdcall[q] /\ rdmsg'[q] = rdmsg[q] /\ before'[q] = before[q]
      BY <2>1, <3>1
    <3> QED
      BY <3>2 DEF SyncInv, SyncsDone
  <2>14. \A x \in Blk : latest[x] <= latest'[x]
    BY <1>2, <2>1
  <2> QED
    BY <2>8, <2>10, <2>11, <2>12, <2>13, <2>14 DEF SyncInv
<1>9. ASSUME rdcall' = [rdcall EXCEPT ![p] = Call(op, "alloc", blk, data)],
             UNCHANGED <<rdbuf, rdreq, rdmsg, latest>>
      PROVE  SyncInv' /\ \A x \in Blk : latest[x] <= latest'[x]
  <2> DEFINE c == Call(op, "alloc", blk, data)
  <2>1. c.op = op /\ c.at = "alloc" /\ c.blk = blk /\ c.data = data
    BY CallIs
  <2>2. rdcall'[p] = c /\ \A q \in RdProc : q # p => rdcall'[q] = rdcall[q]
    BY <1>1, <1>9 DEF DiskTypes, HoldTypes
  <2> HIDE DEF c
  <2>3. LatestCarried'
    <3> SUFFICES ASSUME NEW x \in Blk
                 PROVE  latest'[x] <= writes' /\ Carried(x, latest[x], Len(rdreq))'
      BY DEF LatestCarried
    <3>1. latest[x] <= writes /\ Carried(x, latest[x], Len(rdreq))
      BY DEF SyncInv, LatestCarried
    <3> QED
      BY <1>2, <1>9, <3>1 DEF Carried, Ahead, OnWay
  <2>4. WritesNext'
    <3> SUFFICES ASSUME NEW q \in RdProc, rdcall'[q].op = "write"
                 PROVE  latest'[rdcall'[q].blk] <= rdcall'[q].data /\ rdcall'[q].data <= writes'
      BY DEF WritesNext
    <3>1. CASE q = p
      BY <1>9, <2>1, <2>2, <3>1
    <3>2. CASE q # p
      <4>1. latest[rdcall[q].blk] <= rdcall[q].data /\ rdcall[q].data <= writes
        BY <2>2, <3>2 DEF SyncInv, WritesNext
      <4> QED
        BY <1>2, <1>9, <2>2, <3>2, <4>1
    <3> QED
      BY <3>1, <3>2
  <2>5. SyncsNext'
    <3> SUFFICES ASSUME NEW q \in RdProc, rdcall'[q].op = "sync", rdcall'[q].at = "alloc", NEW x \in Blk
                 PROVE  Carried(x, before[q][x], Len(rdreq))'
      BY DEF SyncsNext
    <3>1. Carried(x, before'[q][x], Len(rdreq))
      <4>1. CASE q = p
        BY <2>1, <2>2, <4>1
      <4>2. CASE q # p
        BY <2>2, <4>2 DEF SyncInv, SyncsNext
      <4> QED
        BY <4>1, <4>2
    <3> QED
      BY <1>9, <3>1 DEF Carried, Ahead, OnWay
  <2>6. SyncsQueued'
    <3> SUFFICES ASSUME NEW i \in 1 .. Len(rdreq'), rdbuf'[rdreq'[i]].op = "sync", NEW x \in Blk
                 PROVE  Carried(x, before[rdbuf[rdreq[i]].pid][x], i - 1)'
      BY DEF SyncsQueued
    <3>1. i \in 1 .. Len(rdreq) /\ rdbuf[rdreq[i]].op = "sync"
      BY <1>9
    <3>2. PICK q \in RdProc : q = rdbuf[rdreq[i]].pid /\ q # p
      BY <1>6, <3>1
    <3>3. Carried(x, before[q][x], i - 1) /\ before'[q] = before[q]
      BY <3>1, <3>2 DEF SyncInv, SyncsQueued
    <3> QED
      BY <1>9, <3>2, <3>3 DEF Carried, Ahead, OnWay
  <2>7. SyncsDone'
    <3> SUFFICES ASSUME NEW q \in RdProc, rdcall'[q].op = "sync", rdmsg'[q] # NoBuffer, NEW x \in Blk
                 PROVE  disk'[x] >= before'[q][x]
      BY DEF SyncsDone
    <3>1. q # p
      BY <1>7, <1>9
    <3>2. rdcall'[q] = rdcall[q] /\ rdmsg'[q] = rdmsg[q] /\ before'[q] = before[q]
      BY <1>9, <2>2, <3>1
    <3> QED
      BY <3>2 DEF SyncInv, SyncsDone
  <2>8. \A x \in Blk : latest[x] <= latest'[x]
    BY <1>2, <1>9
  <2> QED
    BY <2>3, <2>4, <2>5, <2>6, <2>7, <2>8 DEF SyncInv
<1> QED
  BY <1>8, <1>9 DEF Goes

\* A write that is queued is replaced by a later one.
LEMMA SyncReplaced ==
  ASSUME BuffersInv, DiskTypes', SyncInv, NEW blk \in Blk, CallsFor(blk) \subseteq {"sync"}, Replaces(blk, writes + 1),
         writes' = writes + 1, UNCHANGED <<disk, exch, before>>
  PROVE  SyncInv' /\ \A x \in Blk : latest[x] <= latest'[x]
<1>1. DiskTypes /\ Copies /\ (\A c \in Requested : RequestOf(c)) /\ rdbuf \in [RdBuffer -> Contents]
      /\ rdreq \in Seq(RdBuffer) /\ latest \in [Blk -> Nat]
  BY DEF BuffersInv, Shape, DiskTypes, HoldTypes
<1>2. /\ Len(rdreq) \in Nat /\ writes \in Nat
      /\ \A x \in Blk : latest[x] \in Nat /\ disk[x] \in Nat
      /\ \A q \in RdProc : \A x \in Blk : before[q][x] \in Nat
      /\ \A i \in 1 .. Len(rdreq) : rdreq[i] \in RdBuffer /\ rdbuf[rdreq[i]].data \in Nat
  BY <1>1, DiskNumbers
<1>3. PICK v \in Nat : v = writes + 1 /\ v = writes'
  BY <1>2
<1>4. PICK b \in Requested : /\ rdbuf[b].op = "write" /\ rdbuf[b].blk = blk
                             /\ rdbuf' = [rdbuf EXCEPT ![b].data = v]
                             /\ latest' = [latest EXCEPT ![blk] = v]
                             /\ UNCHANGED <<rdreq, rdcall, rdmsg>>
  <2>1. PICK b \in Requested : /\ rdbuf[b].op = "write" /\ On(rdbuf[b]) = blk
                               /\ rdbuf' = [rdbuf EXCEPT ![b].data = v]
                               /\ latest' = [latest EXCEPT ![blk] = v]
                               /\ UNCHANGED <<rdreq, rdcall, rdmsg>>
    BY <1>3 DEF Replaces
  <2>2. rdbuf[b].blk = blk
    BY <1>1, <2>1, Listed, FieldTypes
  <2> QED
    BY <2>1, <2>2
<1>5. \A x \in Blk : latest[x] <= writes /\ Carried(x, latest[x], Len(rdreq))
  BY DEF SyncInv, LatestCarried
<1>6. b \in RdBuffer /\ rdbuf[b].data = latest[blk] /\ rdbuf[b].data \in Nat /\ rdbuf[b].data <= v
  <2>1. b \in Current(blk)
    <3>1. On(rdbuf[b]) = blk
      BY <1>1, <1>4, Listed, FieldTypes
    <3> QED
      BY <1>1, <1>4, <3>1 DEF Current, RequestOf
  <2>2. rdbuf[b].data = latest[blk] /\ b \in RdBuffer
    BY <1>1, <2>1, Listed DEF Copies
  <2> QED
    BY <1>2, <1>3, <1>5, <2>2
<1>7. /\ rdbuf'[b].op = "write" /\ rdbuf'[b].blk = blk /\ rdbuf'[b].data = v /\ rdbuf'[b].pid = rdbuf[b].pid
      /\ \A c \in RdBuffer : c # b => rdbuf'[c] = rdbuf[c]
  <2>1. rdbuf[b] \in Contents
    BY <1>1, <1>6
  <2>2. rdbuf'[b] = [rdbuf[b] EXCEPT !.data = v] /\ \A c \in RdBuffer : c # b => rdbuf'[c] = rdbuf[c]
    BY <1>1, <1>4, <1>6
  <2> QED
    BY <1>4, <2>1, <2>2 DEF Contents
<1>8. \A i \in 1 .. Len(rdreq) : SameRequest(rdreq[i], rdreq'[i])
  <2> SUFFICES ASSUME NEW i \in 1 .. Len(rdreq)
               PROVE  SameRequest(rdreq[i], rdreq'[i])
    OBVIOUS
  <2>1. CASE rdreq[i] = b
    BY <1>4, <1>6, <1>7, <2>1 DEF SameRequest
  <2>2. CASE rdreq[i] # b
    <3>1. rdbuf'[rdreq'[i]] = rdbuf[rdreq[i]] /\ rdbuf[rdreq[i]].data \in Nat
      BY <1>2, <1>4, <1>7, <2>2
    <3> QED
      BY <3>1 DEF SameRequest
  <2> QED
    BY <2>1, <2>2
<1>9. \A x \in Blk : \A w \in Nat : \A n \in 0 .. Len(rdreq) : Carried(x, w, n) => Carried(x, w, n)'
  <2>1. StillOnWay
    BY DEF StillOnWay, OnWay
  <2>2. Len(rdreq) <= Len(rdreq')
    BY <1>2, <1>4
  <2> QED
    BY <1>1, <1>8, <2>1, <2>2, CarriedKept
<1>10. PICK k \in 0 .. Len(rdreq) : k = Len(rdreq) /\ k = Len(rdreq')
  <2>1. Len(rdreq) \in 0 .. Len(rdreq) /\ Len(rdreq) = Len(rdreq')
    BY <1>2, <1>4
  <2> QED
    BY <2>1
<1>11. \A x \in Blk : latest'[x] = IF x = blk THEN v ELSE latest[x]
  BY <1>1, <1>4
<1>12. LatestCarried'
  <2> SUFFICES ASSUME NEW x \in Blk
               PROVE  latest'[x] <= writes' /\ Carried(x, latest[x], Len(rdreq))'
    BY DEF LatestCarried
  <2>1. CASE x = blk
    <3>1. PICK i \in 1 .. k : rdreq'[i] = b
      BY <1>1, <1>4, <1>10 DEF Requested, ToSet
    <3>2. Ahead(x, v, k)'
      BY <1>3, <1>7, <2>1, <3>1 DEF Ahead
    <3> QED
      BY <1>3, <1>10, <1>11, <2>1, <3>2 DEF Carried, Ahead
  <2>2. CASE x # blk
    <3>1. PICK w \in Nat : w = latest[x] /\ w = latest'[x]
      BY <1>2, <1>11, <2>2
    <3>2. w <= writes /\ Carried(x, w, k)
      BY <1>5, <1>10, <3>1
    <3>3. Carried(x, w, k)'
      BY <1>9, <3>2
    <3> QED
      BY <1>2, <1>3, <1>10, <3>1, <3>2, <3>3 DEF Carried, Ahead, OnWay
  <2> QED
    BY <2>1, <2>2
<1>13. WritesNext'
  <2> SUFFICES ASSUME NEW q \in RdProc, rdcall'[q].op = "write"
               PROVE  latest'[rdcall'[q].blk] <= rdcall'[q].data /\ rdcall'[q].data <= writes'
    BY DEF WritesNext
  <2>1. rdcall'[q] = rdcall[q] /\ rdcall[q].blk # blk /\ rdcall[q].data \in Nat
    <3>1. rdcall'[q] = rdcall[q] /\ rdcall[q].op \notin {"sync"}
      BY <1>4
    <3>2. rdcall[q].blk = blk => rdcall[q].op \in CallsFor(blk)
      BY DEF CallsFor
    <3> QED
      BY <1>1, <3>1, <3>2, FieldTypes
  <2>2. latest[rdcall[q].blk] <= rdcall[q].data /\ rdcall[q].data <= writes
    BY <2>1 DEF SyncInv, WritesNext
  <2>3. rdcall[q].blk \in Blk
    BY <1>1, <2>1, FieldTypes
  <2> QED
    BY <1>2, <1>3, <1>11, <2>1, <2>2, <2>3
<1>14. SyncsNext'
  <2> SUFFICES ASSUME NEW q \in RdProc, rdcall'[q].op = "sync", rdcall'[q].at = "alloc", NEW x \in Blk
               PROVE  Carried(x, before[q][x], Len(rdreq))'
    BY DEF SyncsNext
  <2>1. PICK w \in Nat : w = before[q][x] /\ w = before'[q][x]
    BY <1>2
  <2>2. Carried(x, w, k)
    BY <1>4, <1>10, <2>1 DEF SyncInv, SyncsNext
  <2>3. Carried(x, w, k)'
    BY <1>9, <2>2
  <2> QED
    BY <1>10, <2>1, <2>3 DEF Carried, Ahead, OnWay
<1>15. SyncsQueued'
  <2> SUFFICES ASSUME NEW i \in 1 .. Len(rdreq'), rdbuf'[rdreq'[i]].op = "sync", NEW x \in Blk
               PROVE  Carried(x, before[rdbuf[rdreq[i]].pid][x], i - 1)'
    BY DEF SyncsQueued
  <2>1. /\ i \in 1 .. Len(rdreq) /\ rdbuf[rdreq[i]].op = "sync"
        /\ rdbuf'[rdreq'[i]].pid = rdbuf[rdreq[i]].pid
    BY <1>4, <1>8 DEF SameRequest
  <2>2. PICK q \in RdProc : q = rdbuf[rdreq[i]].pid
    <3>1. RequestOf(rdreq[i])
      BY <1>1, <2>1, Listed
    <3> QED
      BY <2>1, <3>1 DEF RequestOf
  <2>3. PICK w \in Nat : w = before[q][x] /\ w = before'[q][x]
    BY <1>2
  <2>4. PICK n \in 0 .. Len(rdreq) : n = i - 1
    BY <1>2, <2>1
  <2>5. Carried(x, w, n)
    BY <2>1, <2>2, <2>3, <2>4 DEF SyncInv, SyncsQueued
  <2>6. Carried(x, w, n)'
    BY <1>9, <2>5
  <2> QED
    BY <2>1, <2>2, <2>3, <2>4, <2>6 DEF Carried, Ahead, OnWay
<1>16. SyncsDone'
  BY <1>4 DEF SyncInv, SyncsDone
<1>17. \A x \in Blk : latest[x] <= latest'[x]
  BY <1>2, <1>3, <1>5, <1>11
<1> QED
  BY <1>12, <1>13, <1>14, <1>15, <1>16, <1>17 DEF SyncInv

\* The requests are left alone.
LEMMA SameRequests ==
  ASSUME DiskTypes, rdreq' = rdreq, \A c \in Requested : rdbuf'[c] = rdbuf[c]
  PROVE  Len(rdreq') = Len(rdreq) /\ \A i \in 1 .. Len(rdreq) : SameRequest(rdreq[i], rdreq'[i])
<1> SUFFICES ASSUME NEW i \in 1 .. Len(rdreq)
             PROVE  SameRequest(rdreq[i], rdreq'[i])
  OBVIOUS
<1>1. rdbuf'[rdreq[i]] = rdbuf[rdreq[i]] /\ rdbuf[rdreq[i]].data \in Nat
  BY Listed, DiskNumbers
<1> QED
  BY <1>1 DEF SameRequest

\* A step of the exchange that leaves requests and calls alone.
LEMMA SyncServes ==
  ASSUME BuffersInv, DiskTypes', SyncInv, StillOnWay, \A blk \in Blk : disk[blk] <= disk'[blk],
         UNCHANGED <<rdbuf, rdreq, rdcall, rdmsg, latest, before, writes>>
  PROVE  SyncInv'
<1>1. Len(rdreq') = Len(rdreq) /\ \A i \in 1 .. Len(rdreq) : SameRequest(rdreq[i], rdreq'[i])
  BY SameRequests DEF BuffersInv
<1> QED
  BY <1>1, SyncStill

\* The disk as it is.
LEMMA DiskStill ==
  ASSUME DiskTypes, disk' = disk
  PROVE  /\ \A blk \in Blk : disk[blk] <= disk'[blk]
         /\ exch.type # "write" \/ (exch'.type = exch.type /\ exch'.ask = exch.ask) => StillOnWay
<1>1. \A blk \in Blk : disk[blk] \in Nat
  BY DiskNumbers
<1>2. ASSUME exch.type # "write"
      PROVE  StillOnWay
  BY <1>2 DEF StillOnWay, OnWay
<1>3. ASSUME exch'.type = exch.type, exch'.ask = exch.ask
      PROVE  StillOnWay
  BY <1>3 DEF StillOnWay, OnWay
<1> QED
  BY <1>1, <1>2, <1>3

-------------------------------------------------------------------------------
(* Every step carries on *)

\* The calls up to where they wait.
LEMMA CallsCarry ==
  ASSUME Careful, BuffersInv, DiskTypes', WrittenInv, NEW p \in RdProc,
         \/ \E blk \in Blk : Rdsread(p, blk) \/ Rdswrite(p, blk)
         \/ RdsSync(p) \/ AllocReturns(p)
  PROVE  WrittenInv'
<1>1. DiskTypes /\ NetInv /\ SyncInv
  BY DEF BuffersInv, WrittenInv
<1>2. /\ writes \in Nat /\ Len(rdreq) \in Nat /\ \A blk \in Blk : latest[blk] \in Nat
      /\ before \in [RdProc -> [Blk -> Nat]]
  BY <1>1, DiskNumbers DEF DiskTypes, ServeTypes
<1>3. ASSUME SyncInv', \A x \in Blk : latest[x] <= latest'[x], UNCHANGED <<net, exch, rdseq, disk>>
      PROVE  WrittenInv'
  <2>1. NetInv'
    BY <1>1, <1>3, NetLess
  <2> QED
    BY <1>3, <2>1 DEF WrittenInv
<1>4. ASSUME NEW blk \in Blk, Rdsread(p, blk)
      PROVE  WrittenInv'
  <2>1. UNCHANGED <<net, exch, rdseq, disk, before, writes>>
    BY <1>4 DEF Rdsread, exchVars
  <2>2. Goes(p, "read", blk, 0) /\ writes <= writes'
    BY <1>2, <1>4, <2>1, ReadFits
  <2>3. SyncInv' /\ \A x \in Blk : latest[x] <= latest'[x]
    BY <1>1, <2>1, <2>2, SyncGoes
  <2> QED
    BY <1>3, <2>1, <2>3
<1>5. ASSUME NEW blk \in Blk, Rdswrite(p, blk)
      PROVE  WrittenInv'
  <2>1. UNCHANGED <<net, exch, rdseq, disk, before>> /\ writes' = writes + 1
        /\ CallsFor(blk) \subseteq {"sync"}
    BY <1>5 DEF Rdswrite, MayWrite, exchVars, Careful
  <2>2. latest[blk] <= writes
    BY <1>1 DEF SyncInv, LatestCarried
  <2>3. writes <= writes' /\ latest[blk] <= writes + 1 /\ writes + 1 <= writes'
    BY <1>2, <2>1, <2>2
  <2>4. CASE Goes(p, "write", blk, writes + 1)
    <3>1. SyncInv' /\ \A x \in Blk : latest[x] <= latest'[x]
      BY <1>1, <2>1, <2>3, <2>4, SyncGoes
    <3> QED
      BY <1>3, <2>1, <3>1
  <2>5. CASE Replaces(blk, writes + 1)
    <3>1. SyncInv' /\ \A x \in Blk : latest[x] <= latest'[x]
      BY <1>1, <2>1, <2>5, SyncReplaced
    <3> QED
      BY <1>3, <2>1, <3>1
  <2> QED
    BY <1>5, <2>4, <2>5, WriteFits
<1>6. ASSUME RdsSync(p)
      PROVE  WrittenInv'
  <2>1. UNCHANGED <<net, exch, rdseq, disk, writes>> /\ before' = [before EXCEPT ![p] = latest]
    BY <1>6 DEF RdsSync, exchVars
  <2>2. Goes(p, "sync", 0, 0) /\ writes <= writes'
    BY <1>2, <1>6, <2>1, SyncFits
  <2>3. before'[p] = latest /\ \A q \in RdProc : q # p => before'[q] = before[q]
    BY <1>2, <2>1
  <2>4. \A x \in Blk : Carried(x, before'[p][x], Len(rdreq))
    BY <1>1, <2>3 DEF SyncInv, LatestCarried
  <2>5. SyncInv' /\ \A x \in Blk : latest[x] <= latest'[x]
    BY <1>1, <2>1, <2>2, <2>3, <2>4, SyncGoes
  <2> QED
    BY <1>3, <2>1, <2>5
<1>7. ASSUME AllocReturns(p)
      PROVE  WrittenInv'
  <2> DEFINE c == rdcall[p]
  <2>1. UNCHANGED <<net, exch, rdseq, disk, before, writes>> /\ c.at = "alloc"
    BY <1>7 DEF AllocReturns, exchVars, Entitled
  <2>2. Goes(p, c.op, c.blk, c.data) /\ writes <= writes'
    BY <1>2, <1>7, <2>1, AllocFits
  <2>3. c.op = "sync" => \A x \in Blk : Carried(x, before'[p][x], Len(rdreq))
    BY <1>1, <2>1 DEF SyncInv, SyncsNext
  <2>4. c.op = "write" => c.blk \in Blk /\ latest[c.blk] <= c.data /\ c.data <= writes'
    <3>1. c.op = "write" => c.blk \in Blk
      BY <1>1, FieldTypes
    <3> QED
      BY <1>1, <2>1, <3>1 DEF SyncInv, WritesNext
  <2> HIDE DEF c
  <2>5. SyncInv' /\ \A x \in Blk : latest[x] <= latest'[x]
    BY <1>1, <2>1, <2>2, <2>3, <2>4, SyncGoes
  <2> QED
    BY <1>3, <2>1, <2>5
<1> QED
  BY <1>4, <1>5, <1>6, <1>7

\* The calls that return, and the disk that is closed.
LEMMA ReturnsCarry ==
  ASSUME Careful, BuffersInv, DiskTypes', WrittenInv,
         \/ \E p \in RdProc : RdsreadReturns(p) \/ RdsSyncReturns(p)
         \/ Rdsclose \/ \E m \in net : RdsDeleteReturns(m)
  PROVE  WrittenInv'
<1>1. DiskTypes /\ NetInv /\ SyncInv /\ Lists /\ Process /\ rdreq \in Seq(RdBuffer)
      /\ rdbuf \in [RdBuffer -> Contents]
  BY DEF BuffersInv, WrittenInv, Shape, DiskTypes, HoldTypes
<1>2. \A x \in Blk : latest[x] \in Nat
  BY <1>1, DiskNumbers
<1>3. ASSUME net' \subseteq net, exch' = exch \/ (exch.type # "write" /\ exch' = NoExchange),
             UNCHANGED <<rdseq, disk, latest, before, writes>>,
             Len(rdreq') = Len(rdreq), \A i \in 1 .. Len(rdreq) : SameRequest(rdreq[i], rdreq'[i]),
             \A q \in RdProc : \/ rdcall'[q] = rdcall[q] /\ rdmsg'[q] = rdmsg[q]
                               \/ rdcall'[q] = Idle
      PROVE  WrittenInv'
  <2>1. NetInv'
    BY <1>1, <1>2, <1>3, NetLess
  <2>2. StillOnWay /\ \A blk \in Blk : disk[blk] <= disk'[blk]
    BY <1>1, <1>3, DiskStill
  <2>3. SyncInv'
    BY <1>1, <1>3, <2>2, SyncStill
  <2> QED
    BY <2>1, <2>3 DEF WrittenInv
<1>4. ASSUME NEW p \in RdProc, RdsreadReturns(p)
      PROVE  WrittenInv'
  <2>1. /\ rdcall[p].op = "read" /\ rdmsg[p] # NoBuffer /\ rdcall' = [rdcall EXCEPT ![p] = Idle]
        /\ rdmsg' = [rdmsg EXCEPT ![p] = NoBuffer]
        /\ rdbuf' = [rdbuf EXCEPT ![rdmsg[p]].refcnt = rdbuf[rdmsg[p]].refcnt - 1]
        /\ UNCHANGED <<net, exch, rdseq, disk, rdreq, latest, before, writes>>
    BY <1>4 DEF RdsreadReturns, exchVars
  <2>2. rdmsg[p] \notin Requested
    <3>1. CallOf(p)
      BY DEF BuffersInv, Shape
    <3>2. rdmsg[p] \in Cached
      BY <2>1, <3>1, Zenon DEF CallOf
    <3> QED
      BY <1>1, <3>2 DEF Lists
  <2>3. \A c \in Requested : rdbuf'[c] = rdbuf[c]
    BY <1>1, <2>1, <2>2, Listed
  <2>4. Len(rdreq') = Len(rdreq) /\ \A i \in 1 .. Len(rdreq) : SameRequest(rdreq[i], rdreq'[i])
    BY <1>1, <2>1, <2>3, SameRequests
  <2>5. \A q \in RdProc : (rdcall'[q] = rdcall[q] /\ rdmsg'[q] = rdmsg[q]) \/ rdcall'[q] = Idle
    BY <1>1, <2>1 DEF DiskTypes, HoldTypes
  <2> QED
    BY <1>3, <2>1, <2>4, <2>5
<1>5. ASSUME NEW p \in RdProc, RdsSyncReturns(p)
      PROVE  WrittenInv'
  <2>1. /\ rdcall' = [rdcall EXCEPT ![p] = Idle] /\ rdmsg' = [rdmsg EXCEPT ![p] = NoBuffer]
        /\ UNCHANGED <<net, exch, rdseq, disk, rdbuf, rdreq, latest, before, writes>>
    BY <1>5 DEF RdsSyncReturns, exchVars, listVars
  <2>2. Len(rdreq') = Len(rdreq) /\ \A i \in 1 .. Len(rdreq) : SameRequest(rdreq[i], rdreq'[i])
    BY <1>1, <2>1, SameRequests
  <2>3. \A q \in RdProc : (rdcall'[q] = rdcall[q] /\ rdmsg'[q] = rdmsg[q]) \/ rdcall'[q] = Idle
    BY <1>1, <2>1 DEF DiskTypes, HoldTypes
  <2> QED
    BY <1>3, <2>1, <2>2, <2>3
<1>6. ASSUME rdreq = <<>>, rdreq' = rdreq
      PROVE  Len(rdreq') = Len(rdreq) /\ \A i \in 1 .. Len(rdreq) : SameRequest(rdreq[i], rdreq'[i])
  <2>1. Len(rdreq) = 0 /\ 1 .. 0 = {}
    BY <1>6
  <2> QED
    BY <1>6, <2>1
<1>7. CASE Rdsclose
  <2>1. rdreq = <<>> /\ rdreq' = rdreq /\ UNCHANGED <<net, exch, rdseq, disk, rdcall, rdmsg, latest, before, writes>>
    BY <1>7 DEF Rdsclose, Closed, exchVars
  <2> QED
    BY <1>3, <1>6, <2>1
<1>8. ASSUME NEW m \in net, RdsDeleteReturns(m)
      PROVE  WrittenInv'
  <2>1. /\ exch.type = "delete" /\ net' = net \ {m} /\ exch' = NoExchange /\ rdreq' = rdreq
        /\ UNCHANGED <<rdseq, disk, rdcall, rdmsg, latest, before, writes>>
    BY <1>8 DEF RdsDeleteReturns, Closed, listVars
  <2>2. rdreq = <<>>
    BY <1>1, <2>1 DEF Process
  <2> QED
    BY <1>3, <1>6, <2>1, <2>2
<1> QED
  BY <1>4, <1>5, <1>7, <1>8

\* The steps of the exchange that leave the requests.
LEMMA ServingCarries ==
  ASSUME "late" \notin RdHazards, BuffersInv, DiskTypes', WrittenInv, Serving
  PROVE  WrittenInv'
<1>1. DiskTypes /\ NetInv /\ SyncInv /\ Process
  BY DEF BuffersInv, WrittenInv, Shape
<1>2. /\ 0 \in Blk \cup {0} /\ 0 \in Nat /\ "open" \in Exchanges /\ "delete" \in Exchanges /\ "read" \in Exchanges
      /\ NoExchange.type = "none" /\ msgblk \in Blk \cup {NoBlk}
      /\ \A x \in Blk : latest[x] \in Nat /\ disk[x] \in Nat
  BY <1>1, DiskNumbers DEF Exchanges, NoExchange, DiskTypes, ServeTypes
<1>3. ASSUME NetInv', StillOnWay, \A x \in Blk : disk[x] <= disk'[x],
             UNCHANGED <<rdbuf, rdreq, rdcall, rdmsg, latest, before, writes>>
      PROVE  WrittenInv'
  <2>1. SyncInv'
    BY <1>1, <1>3, SyncServes
  <2> QED
    BY <1>3, <2>1 DEF WrittenInv
<1>4. CASE Rdsopen
  <2>1. /\ StartExchange("open", 0, 0) /\ exch = NoExchange
        /\ UNCHANGED <<disk, rdbuf, rdreq, rdcall, rdmsg, latest, before, writes>>
    BY <1>4 DEF Rdsopen, listVars
  <2>2. NetInv'
    BY <1>1, <1>2, <2>1, NetAsk
  <2>3. StillOnWay /\ \A x \in Blk : disk[x] <= disk'[x]
    BY <1>1, <1>2, <2>1, DiskStill
  <2> QED
    BY <1>3, <2>1, <2>2, <2>3
<1>5. CASE RdsDelete
  <2>1. /\ StartExchange("delete", 0, 0) /\ exch = NoExchange
        /\ UNCHANGED <<disk, rdbuf, rdreq, rdcall, rdmsg, latest, before, writes>>
    BY <1>5 DEF RdsDelete, listVars
  <2>2. NetInv'
    BY <1>1, <1>2, <2>1, NetAsk
  <2>3. StillOnWay /\ \A x \in Blk : disk[x] <= disk'[x]
    BY <1>1, <1>2, <2>1, DiskStill
  <2> QED
    BY <1>3, <2>1, <2>2, <2>3
<1>6. CASE StartRead
  <2>1. comm = "wait" /\ UNCHANGED <<disk, rdbuf, rdreq, rdcall, rdmsg, latest, before, writes>>
    BY <1>6 DEF StartRead, Taking
  <2>2. PICK blk \in (IF msgblk = NoBlk THEN Blk ELSE {msgblk}) : StartExchange("read", blk, 0)
    BY <1>6 DEF StartRead
  <2>3. blk \in Blk
    BY <1>2, <2>2
  <2>4. NetInv'
    BY <1>1, <1>2, <2>1, <2>2, <2>3, NetAsk
  <2>5. exch.type # "write"
    BY <1>1, <2>1 DEF Process
  <2>6. StillOnWay /\ \A x \in Blk : disk[x] <= disk'[x]
    BY <1>1, <2>1, <2>5, DiskStill
  <2> QED
    BY <1>3, <2>1, <2>4, <2>6
<1>7. CASE RdsTimeout \/ \E m \in net : RdsIgnore(m)
  <2>1. /\ exch # NoExchange /\ exch' = [exch EXCEPT !.tries = @ + 1] /\ net' \subseteq net \cup {exch.ask}
        /\ UNCHANGED <<rdseq, disk, rdbuf, rdreq, rdcall, rdmsg, latest, before, writes>>
    <3>1. CASE RdsTimeout
      BY <3>1 DEF RdsTimeout, listVars
    <3>2. CASE \E m \in net : RdsIgnore(m)
      BY <3>2 DEF RdsIgnore, listVars
    <3> QED
      BY <1>7, <3>1, <3>2
  <2>2. exch'.type = exch.type /\ exch'.seq = exch.seq /\ exch'.ask = exch.ask
    BY <1>1, <2>1, TriedAgain
  <2>3. NetInv'
    BY <1>1, <2>1, <2>2, NetAgain
  <2>4. StillOnWay /\ \A x \in Blk : disk[x] <= disk'[x]
    BY <1>1, <2>1, <2>2, DiskStill
  <2> QED
    BY <1>3, <2>1, <2>3, <2>4
<1>8. CASE GivesUp
  <2>1. UNCHANGED <<rdseq, disk, rdbuf, rdreq, rdcall, rdmsg, latest, before, writes>>
    BY <1>8 DEF GivesUp, listVars
  <2>2. \/ exch' = NoExchange /\ net' \subseteq net /\ exch.type # "write"
        \/ exch' = exch /\ net' = net
    BY <1>8 DEF GivesUp
  <2>3. NetInv'
    BY <1>1, <1>2, <2>1, <2>2, NetLess
  <2>4. StillOnWay /\ \A x \in Blk : disk[x] <= disk'[x]
    BY <1>1, <2>1, <2>2, DiskStill
  <2> QED
    BY <1>3, <2>1, <2>3, <2>4
<1>9. ASSUME NEW m \in net, Server(m)
      PROVE  WrittenInv'
  <2>1. UNCHANGED <<rdbuf, rdreq, rdcall, rdmsg, latest, before, writes>>
    BY <1>9 DEF Server, listVars
  <2>2. NetInv' /\ StillOnWay /\ \A x \in Blk : disk[x] <= disk'[x]
    BY <1>1, <1>9, NetServed
  <2> QED
    BY <1>3, <2>1, <2>2
<1>10. ASSUME NEW m \in net, EndWrite(m) \/ RdsopenReturns(m)
       PROVE  WrittenInv'
  <2>1. /\ exch # NoExchange /\ net' = net \ {m} /\ exch' = NoExchange /\ Accepts(m) /\ InTime(m)
        /\ UNCHANGED <<rdseq, disk, rdbuf, rdreq, rdcall, rdmsg, latest, before, writes>>
    BY <1>10 DEF EndWrite, RdsopenReturns, listVars
  <2>2. NetInv'
    BY <1>1, <1>2, <2>1, NetLess
  <2>3. exch.type = "write" => exch.ask.data <= disk[exch.ask.blk]
    <3>1. m.kind = "reply" /\ m.seq = exch.seq
      BY <2>1 DEF Accepts, InTime
    <3> QED
      BY <1>1, <2>1, <3>1 DEF NetInv, Newest
  <2>4. StillOnWay
    <3> SUFFICES ASSUME NEW blk \in Blk, NEW v \in Nat, OnWay(blk, v)
                 PROVE  v <= disk[blk]
      BY <2>1 DEF StillOnWay, OnWay
    <3>1. exch.ask.data \in Nat
      BY <1>1, <2>1, WritesSent
    <3> QED
      BY <1>2, <2>3, <3>1 DEF OnWay
  <2>5. \A x \in Blk : disk[x] <= disk'[x]
    BY <1>2, <2>1
  <2> QED
    BY <1>3, <2>1, <2>2, <2>4, <2>5
<1>11. CASE RdsopenRefused
  <2>1. /\ rdseq' = rdseq + 1 /\ net' = net \cup {Ask("open", 0, 0)} /\ exch' = exch
        /\ UNCHANGED <<disk, rdbuf, rdreq, rdcall, rdmsg, latest, before, writes>>
    BY <1>11 DEF RdsopenRefused, listVars
  <2>2. NetInv'
    BY <1>1, <2>1, NetRefused
  <2>3. StillOnWay /\ \A x \in Blk : disk[x] <= disk'[x]
    BY <1>1, <2>1, DiskStill
  <2> QED
    BY <1>3, <2>1, <2>2, <2>3
<1> QED
  BY <1>4, <1>5, <1>6, <1>7, <1>8, <1>9, <1>10, <1>11 DEF Serving

\* rdsprocess takes the first request: the read that was answered, a write, a sync.
LEMMA TakingCarries ==
  ASSUME BuffersInv, DiskTypes', WrittenInv, StartWrite \/ SyncReached \/ \E m \in net : EndRead(m)
  PROVE  WrittenInv'
<1> DEFINE b == Head(rdreq)
<1>1. DiskTypes /\ NetInv /\ SyncInv /\ Process /\ Lists /\ Copies
  BY DEF BuffersInv, WrittenInv, Shape
<1>2. \A x \in Blk : latest[x] \in Nat /\ disk[x] \in Nat
  BY <1>1, DiskNumbers
<1>3. rdreq # <<>> => b \in Requested /\ b \in RdBuffer /\ RequestOf(b)
  BY <1>1, Listed DEF BuffersInv, Shape
<1>4. rdreq # <<>> /\ rdreq' = Tail(rdreq) => Requested' \subseteq RdBuffer /\ b \notin Requested'
  <2> SUFFICES ASSUME rdreq # <<>>, rdreq' = Tail(rdreq)
               PROVE  Requested' \subseteq RdBuffer /\ b \notin Requested'
    OBVIOUS
  <2>1. rdreq \in Seq(RdBuffer) /\ IsInjective(rdreq) /\ ToSet(rdreq) \subseteq RdBuffer
    BY <1>1, Listed DEF DiskTypes, HoldTypes, Lists, Requested
  <2>2. ToSet(rdreq) = ToSet(Tail(rdreq)) \cup {b} /\ b \notin ToSet(Tail(rdreq))
    BY <2>1, HeadOut
  <2> QED
    BY <2>1, <2>2 DEF Requested
<1> HIDE DEF b
<1>5. CASE StartWrite
  <2>1. /\ rdreq # <<>> /\ rdbuf[b].op = "write" /\ comm = "wait"
        /\ StartExchange("write", rdbuf[b].blk, rdbuf[b].data) /\ rdreq' = Tail(rdreq)
        /\ UNCHANGED <<rdbuf, disk, rdcall, rdmsg, latest, before, writes>>
    BY <1>5 DEF StartWrite, Taking, b
  <2>2. PICK blk \in Blk : blk = rdbuf[b].blk /\ b \in Current(blk)
    <3>1. rdbuf[b].blk \in Blk /\ On(rdbuf[b]) = rdbuf[b].blk /\ rdbuf[b].valid
      BY <1>1, <1>3, <2>1, FieldTypes DEF RequestOf
    <3> QED
      BY <1>3, <2>1, <3>1 DEF Current
  <2>3. PICK data \in Nat : data = rdbuf[b].data /\ data = latest[blk]
    BY <1>1, <1>2, <2>2 DEF Copies
  <2>4. "write" \in Exchanges /\ blk \in Blk \cup {0} /\ StartExchange("write", blk, data)
    BY <2>1, <2>2, <2>3 DEF Exchanges
  <2>5. NetInv' /\ exch'.ask.blk = blk /\ exch'.ask.data = data
    BY <1>1, <2>1, <2>3, <2>4, NetAsk
  <2>6. exch'.type = "write"
    BY <1>1, <2>4, Exchanged
  <2>7. exch.type # "write"
    BY <1>1, <2>1 DEF Process
  <2>8. StillOnWay
    BY <1>1, <2>1, <2>7, DiskStill
  <2>9. \A x \in Blk : \A v \in Nat :
          rdbuf[b].op = "write" /\ rdbuf[b].blk = x /\ v <= rdbuf[b].data => OnWay(x, v)'
    BY <2>2, <2>3, <2>5, <2>6 DEF OnWay
  <2>10. \A c \in Requested' : rdbuf'[c] = rdbuf[c]
    BY <2>1
  <2>11. \A q \in RdProc : rdcall[q].op = "sync" /\ rdmsg'[q] # NoBuffer =>
           rdmsg[q] # NoBuffer \/ \A x \in Blk : before[q][x] <= disk[x]
    BY <2>1
  <2>12. SyncInv'
    BY <1>1, <2>1, <2>8, <2>9, <2>10, <2>11, SyncOn DEF b
  <2> QED
    BY <2>5, <2>12 DEF WrittenInv
<1>6. ASSUME NEW m \in net, EndRead(m)
      PROVE  WrittenInv'
  <2>1. /\ exch.type = "read" /\ net' = net \ {m} /\ exch' = NoExchange /\ rdreq' = Tail(rdreq)
        /\ rdbuf' = [rdbuf EXCEPT ![comm].data = m.data, ![comm].refcnt = 1]
        /\ rdmsg' = [rdmsg EXCEPT ![rdbuf[comm].pid] = comm]
        /\ UNCHANGED <<rdseq, disk, rdcall, latest, before, writes>>
    <3>1. exch.type = "read"
      BY <1>6 DEF EndRead
    <3> QED
      BY <1>6, <3>1, ReadEnds
  <2>2. rdreq # <<>> /\ comm = b /\ rdbuf[b].op = "read"
    BY <1>1, <2>1 DEF Process, b
  <2>3. NetInv'
    BY <1>1, <1>2, <2>1, NetLess
  <2>4. StillOnWay
    BY <1>1, <2>1, DiskStill
  <2>5. \A c \in Requested' : rdbuf'[c] = rdbuf[c]
    <3>1. rdbuf \in [RdBuffer -> Contents]
      BY <1>1 DEF DiskTypes, HoldTypes
    <3>2. Requested' \subseteq RdBuffer /\ b \notin Requested' /\ b \in RdBuffer
      BY <1>3, <1>4, <2>1, <2>2
    <3>3. \A c \in RdBuffer : c # b => rdbuf'[c] = rdbuf[c]
      BY <2>1, <2>2, <3>1, <3>2
    <3> QED
      BY <3>2, <3>3
  <2>6. \A q \in RdProc : rdcall[q].op = "sync" /\ rdmsg'[q] # NoBuffer =>
          rdmsg[q] # NoBuffer \/ \A x \in Blk : before[q][x] <= disk[x]
    <3>1. rdbuf[b].pid \in RdProc /\ rdcall[rdbuf[b].pid].op = "read"
      BY <1>3, <2>2 DEF RequestOf
    <3>2. rdmsg \in [RdProc -> RdBuffer \cup {"ok", NoBuffer}]
      BY <1>1 DEF DiskTypes, HoldTypes
    <3>3. \A q \in RdProc : rdcall[q].op = "sync" => rdmsg'[q] = rdmsg[q]
      BY <2>1, <2>2, <3>1, <3>2
    <3> QED
      BY <3>3
  <2>7. SyncInv'
    BY <1>1, <2>1, <2>2, <2>4, <2>5, <2>6, SyncOn DEF b
  <2> QED
    BY <2>3, <2>7 DEF WrittenInv
<1>7. CASE SyncReached
  <2>1. /\ rdreq # <<>> /\ rdbuf[b].op = "sync" /\ comm = "wait" /\ rdreq' = Tail(rdreq)
        /\ rdmsg' = [rdmsg EXCEPT ![rdbuf[b].pid] = "ok"]
        /\ UNCHANGED <<net, exch, rdseq, disk, rdbuf, rdcall, latest, before, writes>>
    BY <1>7 DEF SyncReached, Taking, exchVars, b
  <2>2. NetInv'
    BY <1>1, <1>2, <2>1, NetLess
  <2>3. StillOnWay
    BY <1>1, <2>1, DiskStill
  <2>4. PICK p \in RdProc : p = rdbuf[b].pid
    BY <1>3, <2>1 DEF RequestOf
  <2>5. \A x \in Blk : before[p][x] <= disk[x]
    <3>1. 1 \in 1 .. Len(rdreq) /\ rdreq[1] = b
      <4>1. rdreq \in Seq(RdBuffer)
        BY <1>1 DEF DiskTypes, HoldTypes
      <4> QED
        BY <2>1, <4>1 DEF b
    <3>2. \A x \in Blk : Carried(x, before[p][x], 1 - 1)
      BY <1>1, <2>1, <2>4, <3>1 DEF SyncInv, SyncsQueued
    <3>3. exch.type # "write"
      BY <1>1, <2>1 DEF Process
    <3> QED
      BY <3>2, <3>3 DEF Carried, Ahead, OnWay
  <2>6. \A q \in RdProc : rdcall[q].op = "sync" /\ rdmsg'[q] # NoBuffer =>
          rdmsg[q] # NoBuffer \/ \A x \in Blk : before[q][x] <= disk[x]
    <3>1. rdmsg \in [RdProc -> RdBuffer \cup {"ok", NoBuffer}]
      BY <1>1 DEF DiskTypes, HoldTypes
    <3>2. \A q \in RdProc : q # p => rdmsg'[q] = rdmsg[q]
      BY <2>1, <2>4, <3>1
    <3> QED
      BY <2>5, <3>2
  <2>7. \A c \in Requested' : rdbuf'[c] = rdbuf[c]
    BY <2>1
  <2>8. SyncInv'
    BY <1>1, <2>1, <2>3, <2>6, <2>7, SyncOn DEF b
  <2> QED
    BY <2>2, <2>8 DEF WrittenInv
<1> QED
  BY <1>5, <1>6, <1>7

\* At first nothing was written.
LEMMA InitWritten ==
  ASSUME RdInit
  PROVE  WrittenInv
<1>1. /\ \A blk \in Blk : disk[blk] = 0 /\ latest[blk] = 0
      /\ net = {} /\ exch = NoExchange /\ writes = 0 /\ rdreq = <<>> /\ Len(rdreq) = 0
      /\ \A p \in RdProc : rdcall[p] = Idle /\ rdmsg[p] = NoBuffer
  BY DEF RdInit
<1>2. NetInv
  BY <1>1 DEF NetInv, Ordered, WriteRequests
<1>3. Idle.op = "none"
  BY DEF Idle
<1>4. LatestCarried
  BY <1>1 DEF LatestCarried, Carried, OnWay
<1>5. WritesNext /\ SyncsNext /\ SyncsDone
  BY <1>1, <1>3 DEF WritesNext, SyncsNext, SyncsDone
<1>6. SyncsQueued
  BY <1>1 DEF SyncsQueued
<1> QED
  BY <1>2, <1>4, <1>5, <1>6 DEF WrittenInv, SyncInv

LEMMA WrittenStep ==
  ASSUME Careful, "late" \notin RdHazards, BuffersInv, BuffersInv', WrittenInv, [RdNext]_rdVars
  PROVE  WrittenInv'
<1>1. DiskTypes' /\ DiskTypes
  BY DEF BuffersInv
<1>2. ASSUME NEW p \in RdProc,
             \/ \E blk \in Blk : Rdsread(p, blk) \/ Rdswrite(p, blk)
             \/ RdsSync(p) \/ AllocReturns(p)
      PROVE  WrittenInv'
  BY <1>1, <1>2, CallsCarry
<1>3. CASE \/ \E p \in RdProc : RdsreadReturns(p) \/ RdsSyncReturns(p)
           \/ Rdsclose \/ \E m \in net : RdsDeleteReturns(m)
  BY <1>1, <1>3, ReturnsCarry
<1>4. CASE Serving
  BY <1>1, <1>4, ServingCarries
<1>5. CASE StartWrite \/ SyncReached \/ \E m \in net : EndRead(m)
  BY <1>1, <1>5, TakingCarries
<1>6. CASE UNCHANGED rdVars
  <2>1. UNCHANGED <<net, exch, rdseq, disk, rdbuf, rdreq, rdcall, rdmsg, latest, before, writes>>
    BY <1>6 DEF rdVars, listVars, exchVars
  <2>2. NetInv'
    BY <2>1 DEF WrittenInv, NetInv, Ordered, Newest, WriteRequests
  <2>3. StillOnWay /\ \A x \in Blk : disk[x] <= disk'[x]
    BY <1>1, <2>1, DiskStill
  <2>4. SyncInv'
    BY <1>1, <2>1, <2>3, SyncServes DEF WrittenInv
  <2> QED
    BY <2>2, <2>4 DEF WrittenInv
<1> QED
  BY <1>2, <1>3, <1>4, <1>5, <1>6 DEF RdNext, Serving

\* When a sync of the remote disk returns, the writes that were queued before it, or later
\* ones to the same blocks, are on the server's disk: whatever datagrams were lost, as long
\* as none is late.
THEOREM SyncStaysWritten ==
  ASSUME Careful, "late" \notin RdHazards
  PROVE  RdSpec => []SyncMeansWritten
<1>1. RdInit => BuffersInv /\ WrittenInv
  BY InitBuffers, InitWritten
<1>2. BuffersInv /\ WrittenInv /\ [RdNext]_rdVars => (BuffersInv /\ WrittenInv)'
  BY BuffersStep, WrittenStep
<1>3. WrittenInv => SyncMeansWritten
  BY DEF WrittenInv, SyncInv, SyncsDone, SyncMeansWritten
<1> QED
  BY <1>1, <1>2, <1>3, PTL DEF RdSpec

-------------------------------------------------------------------------------
(* The remote files: the contents of files *)

LEMMA OfTwo ==
  ASSUME NEW a \in Int, NEW b \in Int
  PROVE  Max({a, b}) = (IF a >= b THEN a ELSE b) /\ Min({a, b}) = IF a <= b THEN a ELSE b
<1>1. \E x \in {a, b} : \A y \in {a, b} : x >= y
  OBVIOUS
<1>2. \E x \in {a, b} : \A y \in {a, b} : x <= y
  OBVIOUS
<1>3. Max({a, b}) \in {a, b} /\ \A y \in {a, b} : Max({a, b}) >= y
  BY <1>1 DEF Max
<1>4. Min({a, b}) \in {a, b} /\ \A y \in {a, b} : Min({a, b}) <= y
  BY <1>2 DEF Min
<1> QED
  BY <1>3, <1>4

\* The length of a file after a write that ends at e.
Reaches(bytes, e) == IF Len(bytes) >= e THEN Len(bytes) ELSE e

LEMMA TupleIs ==
  ASSUME NEW X, NEW L \in Nat, NEW w, w = [k \in 1 .. L |-> w[k]], \A k \in 1 .. L : w[k] \in X
  PROVE  w \in Seq(X) /\ Len(w) = L
<1>1. w \in [1 .. L -> X]
  OBVIOUS
<1> QED
  BY <1>1, SeqDef, LenProperties

\* w is bytes after v was written to n places from pos on, and zeros to a gap before
\* them.
HasWritten(w, X, bytes, pos, n, v) ==
  /\ w \in Seq(X) /\ Len(w) = Reaches(bytes, pos + n) /\ Len(w) \in Nat
  /\ DOMAIN w = 1 .. Len(w)
  /\ \A k \in 1 .. Len(w) :
       w[k] = IF k \in pos + 1 .. pos + n THEN v ELSE IF k <= Len(bytes) THEN bytes[k] ELSE 0

LEMMA WrittenIs ==
  ASSUME NEW X, X \subseteq Int, 0 \in X, NEW bytes \in Seq(X), NEW pos \in Nat, NEW n \in Nat, NEW v \in X
  PROVE  HasWritten(Written(bytes, pos, n, v), X, bytes, pos, n, v)
<1> DEFINE L == Reaches(bytes, pos + n)
           w == Written(bytes, pos, n, v)
           G(k) == IF k \in pos + 1 .. pos + n THEN v ELSE IF k <= Len(bytes) THEN bytes[k] ELSE 0
<1>1. Len(bytes) \in Nat /\ \A k \in 1 .. Len(bytes) : bytes[k] \in X
  OBVIOUS
<1>2. L = Max({Len(bytes), pos + n}) /\ L \in Nat /\ L >= Len(bytes)
  BY <1>1, OfTwo DEF Reaches
<1>3. \A k \in 1 .. L : G(k) \in X
  BY <1>1, <1>2
<1>4. w = [k \in 1 .. L |-> G(k)]
  BY <1>2 DEF Written
<1> HIDE DEF G, L
<1> HIDE DEF w
<1>5. DOMAIN w = 1 .. L /\ \A k \in 1 .. L : w[k] = G(k)
  BY <1>4
<1>6. w = [k \in 1 .. L |-> w[k]]
  BY <1>4, <1>5
<1>7. w \in Seq(X) /\ Len(w) = L
  <2>1. \A k \in 1 .. L : w[k] \in X
    BY <1>3, <1>5
  <2>2. L \in Nat
    BY <1>2
  <2> HIDE DEF G
  <2> QED
    BY <1>6, <2>1, <2>2, TupleIs
<1> QED
  BY <1>2, <1>5, <1>7 DEF G, L, w, HasWritten

LEMMA BlurredIs ==
  ASSUME NEW bytes \in Seq(Int), NEW pos \in Nat, NEW n \in Nat
  PROVE  LET w == Blurred(bytes, pos, n) IN
         /\ w \in Seq(Int) /\ Len(w) = Reaches(bytes, pos + n) /\ Len(w) \in Nat
         /\ DOMAIN w = 1 .. Len(w)
         /\ \A k \in 1 .. Len(w) :
              w[k] = IF k <= Len(bytes) /\ k \notin pos + 1 .. pos + n THEN bytes[k] ELSE -1
<1> DEFINE L == Reaches(bytes, pos + n)
           w == Blurred(bytes, pos, n)
           G(k) == IF k <= Len(bytes) /\ k \notin pos + 1 .. pos + n THEN bytes[k] ELSE -1
<1>1. Len(bytes) \in Nat /\ L \in Nat /\ \A k \in 1 .. Len(bytes) : bytes[k] \in Int
  BY DEF Reaches
<1>2. DOMAIN Written(bytes, pos, n, -1) = 1 .. L
  BY WrittenIs DEF HasWritten
<1>3. \A k \in 1 .. L : G(k) \in Int
  BY <1>1
<1>4. w = [k \in 1 .. L |-> G(k)]
  BY <1>2 DEF Blurred
<1> HIDE DEF G, L
<1> HIDE DEF w
<1>5. DOMAIN w = 1 .. L /\ \A k \in 1 .. L : w[k] = G(k)
  BY <1>4
<1>6. w = [k \in 1 .. L |-> w[k]]
  BY <1>4, <1>5
<1>7. w \in Seq(Int) /\ Len(w) = L
  BY <1>1, <1>3, <1>5, <1>6, TupleIs
<1> QED
  BY <1>1, <1>5, <1>7 DEF G, L, w

\* s is what a read of n bytes at pos returns.
HasSlice(s, X, bytes, pos, n) ==
  /\ s \in Seq(X) /\ Len(s) \in Nat
  /\ DOMAIN s = {k \in Nat \ {0} : k <= n /\ pos + k <= Len(bytes)}
  /\ \A k \in DOMAIN s : s[k] = bytes[pos + k]

LEMMA SliceIs ==
  ASSUME NEW X, NEW bytes \in Seq(X), NEW pos \in Nat, NEW n \in Nat
  PROVE  HasSlice(Slice(bytes, pos, n), X, bytes, pos, n)
<1> DEFINE e == IF pos + n <= Len(bytes) THEN pos + n ELSE Len(bytes)
           s == SubSeq(bytes, pos + 1, e)
<1>1. Len(bytes) \in Nat /\ e \in Nat /\ e <= Len(bytes)
  OBVIOUS
<1>2. Slice(bytes, pos, n) = s
  <2>1. pos + n \in Int /\ Len(bytes) \in Int
    BY <1>1
  <2>2. Min({pos + n, Len(bytes)}) = e
    BY <2>1, OfTwo
  <2> QED
    BY <2>2 DEF Slice
<1>3. s = [k \in 1 .. (IF pos + 1 <= e THEN e - pos ELSE 0) |-> bytes[pos + k]]
  BY <1>1
<1>4. s \in Seq(X)
  BY <1>1, <1>3
<1>5. DOMAIN s = 1 .. (IF pos + 1 <= e THEN e - pos ELSE 0) /\ \A k \in DOMAIN s : s[k] = bytes[pos + k]
  BY <1>1, <1>3
<1>6. 1 .. (IF pos + 1 <= e THEN e - pos ELSE 0) = {k \in Nat \ {0} : k <= n /\ pos + k <= Len(bytes)}
  BY <1>1
<1>7. Len(s) \in Nat
  BY <1>4
<1> QED
  BY <1>2, <1>4, <1>5, <1>6, <1>7 DEF HasSlice

-------------------------------------------------------------------------------
(* Requests, and what they do to a file *)

RfOps == {"open", "read", "write"} \cup Rfsndmsg \cup {"size"}
RfKnown == RfName \cup RfBad \cup {""}
RfBits == SUBSET {"r", "w", "o", "n", "bad"}

Requests ==
  {m \in [kind : {"request"}, op : RfOps, seq : Nat \ {0}, slot : Nat, name : RfName, mode : RfBits,
          pos : Nat, len : Nat] :
     m.op = "write" => m.len > 0 /\ m.pos + m.len <= RfMaxPos}
Replies == [kind : {"reply"}, op : RfOps, seq : Nat \ {0}, ok : BOOLEAN, data : Seq(Nat), len : Nat]

Bytes == Seq(Nat) \cup {Absent}

\* A file has the bytes of which the history is sure, and no more than it knows of.
Agrees(f, s) ==
  /\ f = Absent => \A k \in 1 .. Len(s) : s[k] = -1
  /\ f # Absent => /\ Len(f) <= Len(s)
                   /\ \A k \in 1 .. Len(s) : s[k] # -1 => k <= Len(f) /\ f[k] = s[k]

\* The server executes m on its file f.
RfDoes(m, f) ==
  IF f = Absent THEN IF m.op = "open" /\ "o" \notin m.mode THEN <<>> ELSE f
  ELSE CASE m.op = "write" -> Written(f, m.pos, m.len, m.seq)
         [] m.op = "trunc" -> <<>>
         [] m.op = "delete" -> Absent
         [] OTHER -> f

\* The history of the file once m is known to be done, and once nobody knows.
RfAfter(m, s) ==
  CASE m.op = "write" -> Written(s, m.pos, m.len, m.seq)
    [] m.op \in {"trunc", "delete"} -> <<>>
    [] OTHER -> s
RfBlur(m, s) ==
  CASE m.op = "write" -> Blurred(s, m.pos, m.len)
    [] m.op \in {"trunc", "delete"} -> [k \in 1 .. RfMaxPos |-> -1]
    [] OTHER -> s

\* A late request to whose file nothing more can happen by it.
RfSpent(m, s) ==
  /\ m.op = "write" => /\ m.pos + m.len <= Len(s)
                       /\ \A k \in m.pos + 1 .. m.pos + m.len : s[k] \in {-1, m.seq}
  /\ m.op \in {"trunc", "delete"} => \A k \in 1 .. Len(s) : s[k] = -1

LEMMA BytesAre ==
  /\ \A f \in Bytes : f # Absent => f \in Seq(Nat) /\ Len(f) \in Nat
  /\ \A f \in Seq(Nat) : f # Absent
  /\ <<>> \in Bytes /\ <<>> \in Seq(Nat) /\ Len(<<>>) = 0 /\ Absent \in Bytes /\ <<>> # Absent
<1>1. \A f \in Seq(Nat) : f # Absent
  <2> SUFFICES ASSUME NEW f \in Seq(Nat), f = Absent
               PROVE  FALSE
    OBVIOUS
  <2>1. Len(f) = 1 /\ f[1] = -1
    BY DEF Absent
  <2> QED
    BY <2>1
<1>2. <<>> \in Seq(Nat) /\ Len(<<>>) = 0
  OBVIOUS
<1>3. \A f \in Bytes : f # Absent => f \in Seq(Nat) /\ Len(f) \in Nat
  BY LenProperties DEF Bytes
<1>4. <<>> \in Bytes /\ Absent \in Bytes
  BY <1>2 DEF Bytes
<1> QED
  BY <1>1, <1>2, <1>3, <1>4

LEMMA RequestIs ==
  ASSUME NEW m \in Requests
  PROVE  /\ m.kind = "request" /\ m.op \in RfOps /\ m.seq \in Nat \ {0} /\ m.slot \in Nat
         /\ m.name \in RfName /\ m.mode \in RfBits /\ m.pos \in Nat /\ m.len \in Nat
         /\ m.op = "write" => m.len > 0 /\ m.pos + m.len <= RfMaxPos
  BY DEF Requests

\* What a write makes of a file and of its history.
LEMMA WritesAre ==
  ASSUME NEW m \in Requests, NEW X \in {Nat, Int}, NEW s \in Seq(X)
  PROVE  HasWritten(Written(s, m.pos, m.len, m.seq), X, s, m.pos, m.len, m.seq)
<1>1. m.pos \in Nat /\ m.len \in Nat /\ m.seq \in X /\ 0 \in X /\ X \subseteq Int
  BY RequestIs
<1> QED
  BY <1>1, WrittenIs

LEMMA DoesIs ==
  ASSUME NEW m \in Requests, NEW f \in Bytes
  PROVE  RfDoes(m, f) \in Bytes
<1>1. CASE f = Absent
  BY <1>1, BytesAre DEF RfDoes
<1>2. CASE f # Absent
  <2>1. f \in Seq(Nat)
    BY <1>2, BytesAre
  <2>2. m.op = "write" => Written(f, m.pos, m.len, m.seq) \in Seq(Nat)
    BY <2>1, WritesAre DEF HasWritten
  <2> QED
    BY <1>2, <2>1, <2>2, BytesAre DEF RfDoes, Bytes
<1> QED
  BY <1>1, <1>2

LEMMA HistoryIs ==
  ASSUME NEW m \in Requests, NEW s \in Seq(Int), Len(s) <= RfMaxPos
  PROVE  /\ RfAfter(m, s) \in Seq(Int) /\ Len(RfAfter(m, s)) <= RfMaxPos
         /\ RfBlur(m, s) \in Seq(Int) /\ Len(RfBlur(m, s)) <= RfMaxPos
<1>1. RfMaxPos \in Nat /\ Len(s) \in Nat
  BY RemoteFilesAssumption
<1>2. CASE m.op = "write"
  <2>1. /\ Written(s, m.pos, m.len, m.seq) \in Seq(Int)
        /\ Len(Written(s, m.pos, m.len, m.seq)) = Reaches(s, m.pos + m.len)
    BY WritesAre DEF HasWritten
  <2>2. /\ Blurred(s, m.pos, m.len) \in Seq(Int)
        /\ Len(Blurred(s, m.pos, m.len)) = Reaches(s, m.pos + m.len)
    BY RequestIs, BlurredIs
  <2>3. Reaches(s, m.pos + m.len) <= RfMaxPos
    BY <1>1, <1>2, RequestIs DEF Reaches
  <2> QED
    BY <1>2, <2>1, <2>2, <2>3 DEF RfAfter, RfBlur
<1>3. CASE m.op \in {"trunc", "delete"}
  <2>1. RfAfter(m, s) = <<>> /\ RfBlur(m, s) = [k \in 1 .. RfMaxPos |-> -1]
    BY <1>3 DEF RfAfter, RfBlur
  <2> QED
    BY <1>1, <2>1
<1>4. CASE m.op \notin {"write", "trunc", "delete"}
  BY <1>4 DEF RfAfter, RfBlur
<1> QED
  BY <1>2, <1>3, <1>4

\* A late request leaves the file as the history has it.
LEMMA SpentKeeps ==
  ASSUME NEW m \in Requests, NEW f \in Bytes, NEW s \in Seq(Int), Agrees(f, s), RfSpent(m, s)
  PROVE  Agrees(RfDoes(m, f), s)
<1>1. CASE f = Absent
  <2>1. CASE m.op = "open" /\ "o" \notin m.mode
    BY <1>1, <2>1, BytesAre DEF RfDoes, Agrees
  <2>2. CASE ~(m.op = "open" /\ "o" \notin m.mode)
    BY <1>1, <2>2 DEF RfDoes
  <2> QED
    BY <2>1, <2>2
<1>2. CASE f # Absent
  <2>0. f \in Seq(Nat) /\ Len(f) \in Nat /\ Len(s) \in Nat
    BY <1>2, BytesAre
  <2>1. CASE m.op = "write"
    <3> DEFINE w == Written(f, m.pos, m.len, m.seq)
    <3>1. RfDoes(m, f) = w
      BY <1>2, <2>1 DEF RfDoes
    <3>2. /\ w \in Seq(Nat) /\ Len(w) = Reaches(f, m.pos + m.len)
          /\ \A k \in 1 .. Len(w) : w[k] = IF k \in m.pos + 1 .. m.pos + m.len THEN m.seq
                                           ELSE IF k <= Len(f) THEN f[k] ELSE 0
      BY <2>0, WritesAre DEF HasWritten
    <3>3. w # Absent
      BY <3>2, BytesAre
    <3>4. /\ Len(f) <= Len(s) /\ m.pos + m.len <= Len(s)
          /\ \A k \in 1 .. Len(s) : s[k] # -1 => k <= Len(f) /\ f[k] = s[k]
          /\ \A k \in m.pos + 1 .. m.pos + m.len : s[k] \in {-1, m.seq}
      BY <1>2, <2>1 DEF Agrees, RfSpent
    <3>5. m.pos \in Nat /\ m.len \in Nat
      BY RequestIs
    <3> HIDE DEF w
    <3>6. Len(w) <= Len(s) /\ Len(f) <= Len(w) /\ m.pos + m.len <= Len(w) /\ Len(w) \in Nat
      BY <2>0, <3>2, <3>4, <3>5 DEF Reaches
    <3>7. ASSUME NEW k \in 1 .. Len(s), s[k] # -1
          PROVE  k <= Len(w) /\ w[k] = s[k]
      <4>1. k \in 1 .. Len(w) /\ k <= Len(f) /\ f[k] = s[k]
        BY <2>0, <3>4, <3>6, <3>7
      <4>2. w[k] = IF k \in m.pos + 1 .. m.pos + m.len THEN m.seq ELSE IF k <= Len(f) THEN f[k] ELSE 0
        BY <3>2, <4>1
      <4>3. k \in m.pos + 1 .. m.pos + m.len => s[k] = m.seq
        BY <3>4, <3>7
      <4> QED
        BY <4>1, <4>2, <4>3
    <3> QED
      BY <3>1, <3>3, <3>6, <3>7 DEF Agrees
  <2>2. CASE m.op \in {"trunc", "delete"}
    <3>1. \A k \in 1 .. Len(s) : s[k] = -1
      BY <2>2 DEF RfSpent
    <3>2. RfDoes(m, f) \in {<<>>, Absent}
      BY <1>2, <2>2 DEF RfDoes
    <3> QED
      BY <2>0, <3>1, <3>2, BytesAre DEF Agrees
  <2>3. CASE m.op \notin {"write", "trunc", "delete"}
    BY <1>2, <2>3 DEF RfDoes
  <2> QED
    BY <2>1, <2>2, <2>3
<1> QED
  BY <1>1, <1>2

\* A request that is executed brings its file to what the history will say of it;
\* if there is no file, it may be refused and change nothing.
LEMMA DoesNew ==
  ASSUME NEW m \in Requests, NEW f \in Bytes, NEW s \in Seq(Int), Agrees(f, s)
  PROVE  /\ Agrees(RfDoes(m, f), RfAfter(m, s)) \/ (Agrees(RfDoes(m, f), s) /\ f = Absent)
         /\ m.op = "write" /\ f = Absent => RfDoes(m, f) = f
<1>1. CASE m.op = "write" /\ f = Absent
  BY <1>1 DEF RfDoes
<1>2. CASE m.op = "write" /\ f # Absent
  <2>0. f \in Seq(Nat) /\ Len(f) \in Nat /\ Len(s) \in Nat
    BY <1>2, BytesAre
  <2> DEFINE w == Written(f, m.pos, m.len, m.seq)
             t == Written(s, m.pos, m.len, m.seq)
  <2>1. RfDoes(m, f) = w /\ RfAfter(m, s) = t
    BY <1>2 DEF RfDoes, RfAfter
  <2>2. /\ w \in Seq(Nat) /\ Len(w) = Reaches(f, m.pos + m.len)
        /\ \A k \in 1 .. Len(w) : w[k] = IF k \in m.pos + 1 .. m.pos + m.len THEN m.seq
                                         ELSE IF k <= Len(f) THEN f[k] ELSE 0
    BY <2>0, WritesAre DEF HasWritten
  <2>3. /\ t \in Seq(Int) /\ Len(t) = Reaches(s, m.pos + m.len)
        /\ \A k \in 1 .. Len(t) : t[k] = IF k \in m.pos + 1 .. m.pos + m.len THEN m.seq
                                         ELSE IF k <= Len(s) THEN s[k] ELSE 0
    BY <2>0, WritesAre DEF HasWritten
  <2>4. w # Absent
    BY <2>2, BytesAre
  <2>5. Len(f) <= Len(s) /\ \A k \in 1 .. Len(s) : s[k] # -1 => k <= Len(f) /\ f[k] = s[k]
    BY <1>2 DEF Agrees
  <2>6. m.pos \in Nat /\ m.len \in Nat
    BY RequestIs
  <2> HIDE DEF w, t
  <2>7. /\ Len(w) \in Nat /\ Len(t) \in Nat /\ Len(w) <= Len(t)
        /\ Len(f) <= Len(w) /\ m.pos + m.len <= Len(w) /\ (Len(t) = Len(s) \/ Len(t) = m.pos + m.len)
    BY <2>0, <2>2, <2>3, <2>5, <2>6 DEF Reaches
  <2>8. ASSUME NEW k \in 1 .. Len(t), t[k] # -1
        PROVE  k <= Len(w) /\ w[k] = t[k]
    <3>1. CASE k \in m.pos + 1 .. m.pos + m.len
      <4>1. k \in 1 .. Len(w)
        BY <2>6, <2>7, <3>1
      <4> QED
        BY <2>2, <2>3, <3>1, <4>1
    <3>2. CASE k \notin m.pos + 1 .. m.pos + m.len /\ k <= Len(s)
      <4>1. t[k] = s[k]
        BY <2>3, <3>2
      <4>2. k <= Len(f) /\ f[k] = s[k]
        BY <2>0, <2>5, <2>8, <3>2, <4>1
      <4> QED
        BY <2>0, <2>2, <2>7, <3>2, <4>1, <4>2
    <3>3. CASE k \notin m.pos + 1 .. m.pos + m.len /\ k > Len(s)
      <4>1. t[k] = 0 /\ k <= m.pos + m.len
        BY <2>0, <2>3, <2>6, <2>7, <3>3
      <4>2. k <= Len(w) /\ ~(k <= Len(f))
        BY <2>0, <2>5, <2>6, <2>7, <3>3, <4>1
      <4> QED
        BY <2>2, <3>3, <4>1, <4>2
    <3> QED
      BY <2>0, <3>1, <3>2, <3>3
  <2> QED
    BY <1>2, <2>1, <2>4, <2>7, <2>8 DEF Agrees
<1>3. CASE m.op \in {"trunc", "delete"}
  <2>1. RfAfter(m, s) = <<>>
    BY <1>3 DEF RfAfter
  <2>2. RfDoes(m, f) \in {<<>>, Absent}
    BY <1>3 DEF RfDoes
  <2>3. Agrees(<<>>, <<>>) /\ Agrees(Absent, <<>>)
    BY BytesAre DEF Agrees
  <2> QED
    BY <1>3, <2>1, <2>2, <2>3
<1>4. CASE m.op \notin {"write", "trunc", "delete"}
  <2>1. RfAfter(m, s) = s
    BY <1>4 DEF RfAfter
  <2>2. RfSpent(m, s)
    BY <1>4 DEF RfSpent
  <2> QED
    BY <1>4, <2>1, <2>2, SpentKeeps
<1> QED
  BY <1>1, <1>2, <1>3, <1>4

\* A request that is done, or about which nobody knows, is spent.
LEMMA SpentAfter ==
  ASSUME NEW m \in Requests, NEW s \in Seq(Int), Len(s) <= RfMaxPos
  PROVE  RfSpent(m, RfAfter(m, s)) /\ RfSpent(m, RfBlur(m, s))
<1>0. RfMaxPos \in Nat /\ Len(s) \in Nat
  BY RemoteFilesAssumption
<1>1. CASE m.op = "write"
  <2> DEFINE t == Written(s, m.pos, m.len, m.seq)
             b == Blurred(s, m.pos, m.len)
  <2>1. RfAfter(m, s) = t /\ RfBlur(m, s) = b
    BY <1>1 DEF RfAfter, RfBlur
  <2>2. /\ Len(t) = Reaches(s, m.pos + m.len)
        /\ \A k \in 1 .. Len(t) : t[k] = IF k \in m.pos + 1 .. m.pos + m.len THEN m.seq
                                         ELSE IF k <= Len(s) THEN s[k] ELSE 0
    BY WritesAre DEF HasWritten
  <2>3. /\ Len(b) = Reaches(s, m.pos + m.len)
        /\ \A k \in 1 .. Len(b) :
             b[k] = IF k <= Len(s) /\ k \notin m.pos + 1 .. m.pos + m.len THEN s[k] ELSE -1
    BY RequestIs, BlurredIs
  <2>4. m.pos \in Nat /\ m.len \in Nat
    BY RequestIs
  <2> HIDE DEF t, b
  <2>5. m.pos + m.len <= Len(t) /\ m.pos + m.len <= Len(b) /\ Len(t) \in Nat /\ Len(b) \in Nat
    BY <1>0, <2>2, <2>3, <2>4 DEF Reaches
  <2>6. \A k \in m.pos + 1 .. m.pos + m.len : k \in 1 .. Len(t) /\ k \in 1 .. Len(b)
    BY <2>4, <2>5
  <2>7. \A k \in m.pos + 1 .. m.pos + m.len : t[k] = m.seq /\ b[k] = -1
    BY <2>2, <2>3, <2>6
  <2> QED
    BY <1>1, <2>1, <2>5, <2>7 DEF RfSpent
<1>2. CASE m.op \in {"trunc", "delete"}
  <2>1. RfAfter(m, s) = <<>> /\ RfBlur(m, s) = [k \in 1 .. RfMaxPos |-> -1]
    BY <1>2 DEF RfAfter, RfBlur
  <2>2. Len([k \in 1 .. RfMaxPos |-> -1]) = RfMaxPos
    BY <1>0
  <2> QED
    BY <1>0, <1>2, <2>1, <2>2 DEF RfSpent
<1>3. CASE m.op \notin {"write", "trunc", "delete"}
  BY <1>3 DEF RfSpent
<1> QED
  BY <1>1, <1>2, <1>3

\* Knowing less of a file, after a request whose fate is unknown.
Weaker(t, s) ==
  /\ Len(s) <= Len(t)
  /\ \A k \in 1 .. Len(t) : t[k] = -1 \/ (k <= Len(s) /\ t[k] = s[k])

LEMMA WeakerKeeps ==
  ASSUME NEW s \in Seq(Int), NEW t \in Seq(Int), Weaker(t, s)
  PROVE  /\ \A f \in Bytes : Agrees(f, s) => Agrees(f, t)
         /\ \A m \in Requests : RfSpent(m, s) => RfSpent(m, t)
<1>1. Len(s) \in Nat /\ Len(t) \in Nat
  OBVIOUS
<1>2. ASSUME NEW f \in Bytes, Agrees(f, s)
      PROVE  Agrees(f, t)
  <2>1. CASE f = Absent
    BY <1>1, <1>2, <2>1 DEF Agrees, Weaker
  <2>2. CASE f # Absent
    <3>1. Len(f) \in Nat
      BY <2>2, BytesAre
    <3> QED
      BY <1>1, <1>2, <2>2, <3>1 DEF Agrees, Weaker
  <2> QED
    BY <2>1, <2>2
<1>3. ASSUME NEW m \in Requests, RfSpent(m, s)
      PROVE  RfSpent(m, t)
  <2>1. m.pos \in Nat /\ m.len \in Nat
    BY RequestIs
  <2>2. CASE m.op = "write"
    <3>1. /\ m.pos + m.len <= Len(s) /\ \A k \in m.pos + 1 .. m.pos + m.len : s[k] \in {-1, m.seq}
      BY <1>3, <2>2 DEF RfSpent
    <3>2. m.pos + m.len <= Len(t)
      BY <1>1, <2>1, <3>1 DEF Weaker
    <3>3. \A k \in m.pos + 1 .. m.pos + m.len : k \in 1 .. Len(t)
      BY <1>1, <2>1, <3>2
    <3> QED
      BY <2>2, <3>1, <3>2, <3>3 DEF RfSpent, Weaker
  <2>3. CASE m.op \in {"trunc", "delete"}
    BY <1>1, <1>3, <2>3 DEF RfSpent, Weaker
  <2>4. CASE m.op \notin {"write", "trunc", "delete"}
    BY <2>4 DEF RfSpent
  <2> QED
    BY <2>2, <2>3, <2>4
<1> QED
  BY <1>2, <1>3

LEMMA BlurWeaker ==
  ASSUME NEW m \in Requests, NEW s \in Seq(Int), Len(s) <= RfMaxPos
  PROVE  Weaker(RfBlur(m, s), s) /\ Weaker(RfBlur(m, s), RfAfter(m, s))
<1>0. RfMaxPos \in Nat /\ Len(s) \in Nat
  BY RemoteFilesAssumption
<1>1. CASE m.op = "write"
  <2> DEFINE t == Written(s, m.pos, m.len, m.seq)
             b == Blurred(s, m.pos, m.len)
  <2>1. RfAfter(m, s) = t /\ RfBlur(m, s) = b
    BY <1>1 DEF RfAfter, RfBlur
  <2>2. /\ Len(t) = Reaches(s, m.pos + m.len)
        /\ \A k \in 1 .. Len(t) : t[k] = IF k \in m.pos + 1 .. m.pos + m.len THEN m.seq
                                         ELSE IF k <= Len(s) THEN s[k] ELSE 0
    BY WritesAre DEF HasWritten
  <2>3. /\ Len(b) = Reaches(s, m.pos + m.len)
        /\ \A k \in 1 .. Len(b) :
             b[k] = IF k <= Len(s) /\ k \notin m.pos + 1 .. m.pos + m.len THEN s[k] ELSE -1
    BY RequestIs, BlurredIs
  <2>4. m.pos \in Nat /\ m.len \in Nat
    BY RequestIs
  <2> HIDE DEF t, b
  <2>5. Len(t) = Len(b) /\ Len(s) <= Len(b) /\ Len(b) \in Nat
    BY <1>0, <2>2, <2>3, <2>4 DEF Reaches
  <2>6. \A k \in 1 .. Len(b) : b[k] = -1 \/ (k <= Len(s) /\ b[k] = s[k] /\ t[k] = s[k])
    BY <2>2, <2>3, <2>5
  <2> QED
    BY <2>1, <2>5, <2>6 DEF Weaker
<1>2. CASE m.op \in {"trunc", "delete"}
  <2> DEFINE b == [k \in 1 .. RfMaxPos |-> -1]
  <2>1. RfAfter(m, s) = <<>> /\ RfBlur(m, s) = b
    BY <1>2 DEF RfAfter, RfBlur
  <2>2. Len(b) = RfMaxPos /\ \A k \in 1 .. Len(b) : b[k] = -1
    BY <1>0
  <2> HIDE DEF b
  <2> QED
    BY <1>0, <2>1, <2>2 DEF Weaker
<1>3. CASE m.op \notin {"write", "trunc", "delete"}
  BY <1>0, <1>3 DEF Weaker, RfAfter, RfBlur
<1> QED
  BY <1>1, <1>2, <1>3

-------------------------------------------------------------------------------
(* The remote files: the invariant *)

RfCallT == [op : RfOps \cup {"none", "seek", "close"}, at : {"", "mutex", "reply"}, dev : Nat,
            name : RfKnown, mode : RfModes \cup {<<>>}, len : Int]
RfCallFits(c) ==
  /\ c.at = "" <=> c = RfIdle
  /\ c.op = "none" => c = RfIdle
  /\ c.op \in {"read", "write", "seek", "close"} => c.dev \in Rfl
  /\ c.op \in {"open", "size"} \cup Rfsndmsg => c.name \in RfName \cup RfBad
  /\ c.op \notin {"read", "write"} => c.len \in Nat
RfExchT == [seq : Nat \ {0}, tries : Nat \ {0}, by : RfProc, ask : Requests]

RfTypes ==
  /\ rfltab \in [Rfl -> [state : {"free", "used"}, name : RfKnown, mode : RfBits, pos : Nat]]
  /\ \A i \in Rfl : rfltab[i].state = "used" => rfltab[i].name \in RfName
  /\ rfseq \in Nat \ {0}
  /\ rfcall \in [RfProc -> RfCallT] /\ \A p \in RfProc : RfCallFits(rfcall[p])
  /\ rfexch \in RfExchT \cup {RfNone}
  /\ rfexch # RfNone /\ rfexch.ask.op = "open" =>
       rfexch.ask.slot \in Rfl /\ rfltab[rfexch.ask.slot].name \in RfName
  /\ rfnet \subseteq Requests \cup Replies
  /\ files \in [RfName -> Bytes]
  /\ sure \in [RfName -> Seq(Int)] /\ \A n \in RfName : Len(sure[n]) <= RfMaxPos
  /\ rfread \in [RfProc -> [data : Seq(Nat), want : Seq(Int)]]

\* One call at a time has the mutex, and the exchange under way is its.
InRf == {p \in RfProc : rfcall[p].at # ""}
RfMutexed ==
  /\ SoundSem(RfProc, rfmutex) /\ rfmutex.ok
  /\ ToSet(rfmutex.queue) \subseteq {p \in RfProc : rfcall[p].at = "mutex"}
  /\ Units(InRf, rfmutex) = 1
  /\ \A p \in RfProc : rfcall[p].at = "reply" <=> rfexch # RfNone /\ rfexch.by = p

\* The server carries out changes in the order of their numbers; the exchange under
\* way is about the last request, sent once it is under way or answered.
RfNumbers ==
  /\ \A m \in rfnet : m.seq < rfseq
  /\ \A q, r \in rfnet : q.kind = "request" /\ r.kind = "reply" /\ {q.op, r.op} \subseteq RfChanging
                        => r.seq <= q.seq
  /\ rfexch # RfNone =>
       /\ rfexch.ask.seq = rfexch.seq /\ rfexch.seq = rfseq - 1
       /\ \A m \in rfnet : m.kind = "request" /\ m.seq = rfexch.seq => m = rfexch.ask
       /\ \A r \in rfnet : r.kind = "reply" /\ r.seq = rfexch.seq => r.op = rfexch.ask.op
       /\ rfexch.tries = 1 /\ rfexch.ask \in rfnet =>
            \A r \in rfnet : r.kind = "reply" => r.seq # rfexch.seq

\* Late requests change nothing that is sure, and a file has the bytes that its
\* history is sure of, or those it will be sure of once the request under way is
\* answered; then no change is late.
RfLate == {m \in rfnet : m.kind = "request" /\ (rfexch = RfNone \/ m # rfexch.ask)}
RfLateChanges == {m \in RfLate : m.op \in RfChanging}
RfReads(data, want) ==
  \A k \in DOMAIN want : want[k] # -1 => k \in DOMAIN data /\ data[k] = want[k]
RfAnswer(r, a, f, s, tries) ==
  /\ r.ok => Agrees(f, RfAfter(a, s))
  /\ ~r.ok /\ tries = 1 => Agrees(f, s)
  /\ r.ok /\ r.op = "read" => RfReads(r.data, Slice(s, a.pos, a.len))
RfKept ==
  /\ \A m \in RfLate : RfSpent(m, sure[m.name])
  /\ \A n \in RfName :
       \/ Agrees(files[n], sure[n])
       \/ /\ rfexch # RfNone /\ n = rfexch.ask.name /\ RfLateChanges = {}
          /\ Agrees(files[n], RfAfter(rfexch.ask, sure[n]))
  /\ rfexch # RfNone =>
       LET a == rfexch.ask IN
       /\ \A r \in rfnet : r.kind = "reply" /\ r.seq = rfexch.seq =>
            RfAnswer(r, a, files[a.name], sure[a.name], rfexch.tries)
       /\ rfexch.tries = 1 /\ a \in rfnet => Agrees(files[a.name], sure[a.name])
  /\ ReadsWhatWasWritten

RfInv == RfTypes /\ RfMutexed /\ RfNumbers /\ RfKept

LEMMA RfExchIs ==
  ASSUME RfTypes, rfexch # RfNone
  PROVE  /\ rfexch \in RfExchT /\ rfexch.seq \in Nat \ {0} /\ rfexch.tries \in Nat \ {0}
         /\ rfexch.by \in RfProc /\ rfexch.ask \in Requests /\ rfexch.ask.name \in RfName
  BY RequestIs DEF RfTypes, RfExchT

LEMMA RfNetIs ==
  ASSUME RfTypes, NEW m \in rfnet
  PROVE  /\ m \in Requests <=> m.kind = "request"
         /\ m \in Replies <=> m.kind = "reply"
         /\ m \in Requests \/ m \in Replies
         /\ m.seq \in Nat \ {0}
  BY DEF RfTypes, Requests, Replies

LEMMA ExchIsOne ==
  ASSUME NEW x \in RfExchT
  PROVE  x # RfNone
  BY DEF RfExchT, RfNone

-------------------------------------------------------------------------------
(* The remote files: the mutex *)

LEMMA RfAlone ==
  ASSUME RfTypes, RfMutexed, NEW p \in InRf, NEW q \in InRf, ~Queued(rfmutex, p), ~Queued(rfmutex, q)
  PROVE  p = q
<1> SUFFICES ASSUME p # q
             PROVE  FALSE
  OBVIOUS
<1>1. IsFiniteSet(RfProc) /\ InRf \in SUBSET RfProc /\ InRf \ {p} \in SUBSET RfProc /\ q \in InRf \ {p}
  BY RemoteFilesAssumption DEF InRf
<1>2. SoundSem(RfProc, rfmutex) /\ Units(InRf, rfmutex) = 1
  BY DEF RfMutexed
<1>3. Units(InRf \ {p}, rfmutex) = Units(InRf, rfmutex) - 1
  BY <1>1, <1>2, SemGoesOn
<1>4. Units(InRf \ {p}, rfmutex) >= 1
  BY <1>1, <1>2, SemGoesOn
<1> QED
  BY <1>2, <1>3, <1>4

LEMMA RfHasAlone ==
  ASSUME RfTypes, RfMutexed, NEW p \in RfProc, Has(p)
  PROVE  rfexch = RfNone /\ p \in InRf
<1>1. p \in InRf /\ ~Queued(rfmutex, p) /\ rfcall[p].at = "mutex"
  BY DEF Has, InRf
<1>2. ASSUME rfexch # RfNone
      PROVE  FALSE
  <2>1. rfexch.by \in RfProc /\ rfcall[rfexch.by].at = "reply"
    BY <1>2, RfExchIs DEF RfMutexed
  <2>2. rfexch.by \in InRf /\ ~Queued(rfmutex, rfexch.by)
    BY <2>1 DEF InRf, Queued, RfMutexed
  <2>3. rfexch.by = p
    BY <1>1, <2>2, RfAlone
  <2> QED
    BY <1>1, <2>1, <2>3
<1> QED
  BY <1>1, <1>2

LEMMA BeginKeepsMutex ==
  ASSUME RfTypes, RfMutexed, NEW p \in RfProc, NEW c, c.at = "mutex", RfBegin(p, c)
  PROVE  RfMutexed'
<1>1. IsFiniteSet(RfProc) /\ InRf \in SUBSET RfProc /\ InRf \cup {p} \in SUBSET RfProc
  BY RemoteFilesAssumption DEF InRf
<1>2. SoundSem(RfProc, rfmutex) /\ rfmutex.ok /\ Units(InRf, rfmutex) = 1
  BY DEF RfMutexed
<1>3. p \notin InRf /\ ~Queued(rfmutex, p) /\ rfcall[p].at = ""
  <2>1. rfcall[p].at = ""
    <3>1. rfcall[p] = RfIdle
      BY DEF RfBegin
    <3>2. RfIdle.at = ""
      BY DEF RfIdle
    <3> QED
      BY <3>1, <3>2
  <2> QED
    BY <2>1 DEF RfMutexed, InRf, Queued
<1>4. rfmutex' = Waits(rfmutex, p) /\ rfexch' = rfexch /\ rfcall' = [rfcall EXCEPT ![p] = c]
  BY DEF RfBegin
<1>5. InRf' = InRf \cup {p}
  BY <1>4 DEF RfTypes, InRf
<1>6. {q \in RfProc : rfcall'[q].at = "mutex"} = {q \in RfProc : rfcall[q].at = "mutex"} \cup {p}
  BY <1>3, <1>4 DEF RfTypes
<1>7. \A q \in RfProc : rfcall'[q].at = "reply" <=> rfcall[q].at = "reply"
  BY <1>3, <1>4 DEF RfTypes
<1>8. CASE rfmutex.count > 0
  <2>1. /\ SoundSem(RfProc, rfmutex') /\ rfmutex'.ok /\ ToSet(rfmutex'.queue) = {}
        /\ Units(InRf, rfmutex') = 0
    BY <1>1, <1>2, <1>4, <1>8, SemTakes
  <2>2. ~Queued(rfmutex', p) /\ p \in InRf \cup {p} /\ (InRf \cup {p}) \ {p} = InRf
    BY <1>3, <2>1 DEF Queued
  <2>3. Units((InRf \cup {p}) \ {p}, rfmutex') = Units(InRf \cup {p}, rfmutex') - 1
    BY <1>1, <2>1, <2>2, SemGoesOn
  <2>4. Units(InRf \cup {p}, rfmutex') \in Nat
    BY <1>1, <2>1, SemUnits
  <2>5. Units(InRf \cup {p}, rfmutex') = 1
    <3> DEFINE u == Units(InRf \cup {p}, rfmutex')
    <3>1. u \in Nat /\ u - 1 = 0
      BY <2>1, <2>2, <2>3, <2>4
    <3> HIDE DEF u
    <3>2. u = 1
      BY <3>1
    <3> QED
      BY <3>2 DEF u
  <2> QED
    BY <1>4, <1>5, <1>7, <2>1, <2>5 DEF RfMutexed
<1>9. CASE ~(rfmutex.count > 0)
  <2>1. /\ SoundSem(RfProc, rfmutex') /\ rfmutex'.ok
        /\ ToSet(rfmutex'.queue) = ToSet(rfmutex.queue) \cup {p}
        /\ Units(InRf \cup {p}, rfmutex') = 1
    <3> DEFINE t == Waits(rfmutex, p)
    <3>1. /\ SoundSem(RfProc, t) /\ t.ok /\ ToSet(t.queue) = ToSet(rfmutex.queue) \cup {p}
          /\ \A E \in SUBSET RfProc : p \notin E => Units(E \cup {p}, t) = Units(E, rfmutex)
      <4>1. IsFiniteSet(RfProc) /\ SoundSem(RfProc, rfmutex) /\ rfmutex.ok /\ ~Queued(rfmutex, p)
        BY <1>1, <1>2, <1>3
      <4> QED
        BY <1>9, <4>1, SemQueues, SMTT(30)
    <3>2. t = rfmutex'
      BY <1>4
    <3> HIDE DEF t
    <3>3. Units(InRf \cup {p}, t) = Units(InRf, rfmutex)
      BY <1>1, <1>3, <3>1
    <3> QED
      BY <1>2, <3>1, <3>2, <3>3
  <2> QED
    BY <1>4, <1>5, <1>6, <1>7, <2>1 DEF RfMutexed
<1> QED
  BY <1>8, <1>9

LEMMA LeavesKeepsMutex ==
  ASSUME RfTypes, RfMutexed, NEW p \in InRf, ~Queued(rfmutex, p), Leaves(p),
         rfexch' = RfNone, rfexch = RfNone \/ rfexch.by = p
  PROVE  RfMutexed'
<1>1. IsFiniteSet(RfProc) /\ InRf \in SUBSET RfProc /\ InRf \ {p} \in SUBSET RfProc /\ p \in RfProc
  BY RemoteFilesAssumption DEF InRf
<1>2. /\ SoundSem(RfProc, rfmutex) /\ rfmutex.ok /\ Units(InRf, rfmutex) = 1
      /\ ToSet(rfmutex.queue) \subseteq {q \in RfProc : rfcall[q].at = "mutex"}
  BY DEF RfMutexed
<1>3. Units(InRf \ {p}, rfmutex) = 0
  BY <1>1, <1>2, SemGoesOn
<1>4. rfmutex' = Signaled(rfmutex) /\ rfcall' = [rfcall EXCEPT ![p] = RfIdle]
  BY DEF Leaves
<1>5. ToSet(rfmutex.queue) \subseteq InRf \ {p}
  BY <1>2 DEF InRf, Queued
<1>6. /\ SoundSem(RfProc, rfmutex') /\ rfmutex'.ok /\ ToSet(rfmutex'.queue) \subseteq ToSet(rfmutex.queue)
      /\ Units(InRf \ {p}, rfmutex') = 1
  BY <1>1, <1>2, <1>3, <1>4, <1>5, SemAdds
<1>7. InRf' = InRf \ {p}
  BY <1>1, <1>4 DEF RfTypes, InRf, RfIdle
<1>8. \A q \in RfProc : q # p => rfcall'[q] = rfcall[q]
  BY <1>4 DEF RfTypes
<1>9. rfcall'[p].at = ""
  BY <1>1, <1>4 DEF RfTypes, RfIdle
<1>10. \A q \in RfProc : rfcall'[q].at # "reply"
  BY <1>8, <1>9 DEF RfMutexed
<1>11. ToSet(rfmutex'.queue) \subseteq {q \in RfProc : rfcall'[q].at = "mutex"}
  BY <1>2, <1>5, <1>6, <1>8
<1> QED
  BY <1>6, <1>7, <1>10, <1>11 DEF RfMutexed

LEMMA RfByLeaves ==
  ASSUME RfTypes, RfMutexed, rfexch # RfNone, Leaves(rfexch.by), rfexch' = RfNone
  PROVE  RfMutexed'
<1>1. rfexch.by \in RfProc /\ rfcall[rfexch.by].at = "reply"
  BY RfExchIs DEF RfMutexed
<1>2. rfexch.by \in InRf /\ ~Queued(rfmutex, rfexch.by)
  BY <1>1 DEF InRf, Queued, RfMutexed
<1> QED
  BY <1>2, LeavesKeepsMutex

LEMMA RfCallLeaves ==
  ASSUME RfTypes, NEW p, Leaves(p)
  PROVE  rfcall' \in [RfProc -> RfCallT] /\ \A q \in RfProc : RfCallFits(rfcall'[q])
<1>1. RfIdle \in RfCallT /\ RfCallFits(RfIdle)
  BY DEF RfCallT, RfIdle, RfCallFits, RfKnown, Rfsndmsg
<1>2. rfcall' = [rfcall EXCEPT ![p] = RfIdle]
  BY DEF Leaves
<1> QED
  BY <1>1, <1>2 DEF RfTypes

-------------------------------------------------------------------------------
(* The remote files: what is on its way *)

LEMMA RfStill ==
  ASSUME RfNumbers, RfKept, UNCHANGED <<rfseq, rfexch, rfnet, files, sure, rfread>>
  PROVE  RfNumbers' /\ RfKept'
<1>1. RfNumbers'
  BY DEF RfNumbers
<1>2. RfLate' = RfLate /\ RfLateChanges' = RfLateChanges
  BY DEF RfLate, RfLateChanges
<1>3. RfKept'
  BY <1>2 DEF RfKept, ReadsWhatWasWritten
<1> QED
  BY <1>1, <1>3

\* No change is late once that of the exchange under way is answered.
LEMMA RfNoneLate ==
  ASSUME RfTypes, RfNumbers, rfexch # RfNone, NEW r \in rfnet, r.kind = "reply", r.seq = rfexch.seq,
         rfexch.ask.op \in RfChanging
  PROVE  RfLateChanges = {}
<1> SUFFICES ASSUME NEW m \in RfLateChanges
             PROVE  FALSE
  OBVIOUS
<1>1. m \in rfnet /\ m.kind = "request" /\ m # rfexch.ask /\ m.op \in RfChanging
  BY DEF RfLate, RfLateChanges
<1>2. m.seq \in Nat /\ rfexch.seq \in Nat /\ rfseq \in Nat
  BY <1>1, RfNetIs, RfExchIs DEF RfTypes
<1>3. rfexch.seq <= m.seq /\ m.seq < rfseq /\ rfexch.seq = rfseq - 1
  <2>1. r.op = rfexch.ask.op
    BY DEF RfNumbers
  <2> QED
    BY <1>1, <2>1 DEF RfNumbers
<1>4. m.seq = rfexch.seq
  BY <1>2, <1>3
<1> QED
  BY <1>1, <1>4 DEF RfNumbers

\* A request is sent.
LEMMA AsksKeeps ==
  ASSUME RfTypes, RfNumbers, RfKept, rfexch = RfNone, NEW a \in Requests, a.seq = rfseq,
         NEW p \in RfProc, rfexch' = [seq |-> rfseq, tries |-> 1, by |-> p, ask |-> a],
         rfseq' = rfseq + 1, rfnet' = rfnet \cup {a}, UNCHANGED <<files, sure, rfread>>
  PROVE  /\ rfexch' \in RfExchT /\ rfnet' \subseteq Requests \cup Replies /\ rfseq' \in Nat \ {0}
         /\ RfNumbers' /\ RfKept'
<1>1. rfseq \in Nat \ {0} /\ a.seq \in Nat /\ a.kind = "request" /\ a.name \in RfName
  BY RequestIs DEF RfTypes
<1>2. rfexch' \in RfExchT /\ rfnet' \subseteq Requests \cup Replies /\ rfseq' \in Nat \ {0}
  BY <1>1 DEF RfExchT, RfTypes
<1>3. rfexch' # RfNone /\ rfexch'.seq = rfseq /\ rfexch'.tries = 1 /\ rfexch'.ask = a
  BY <1>2, ExchIsOne
<1>4. \A m \in rfnet : m.seq \in Nat /\ m.seq < rfseq
  BY RfNetIs DEF RfNumbers
<1>5. RfNumbers'
  <2>1. \A m \in rfnet' : m.seq < rfseq'
    BY <1>1, <1>4
  <2>2. \A q, r \in rfnet' : q.kind = "request" /\ r.kind = "reply" /\ {q.op, r.op} \subseteq RfChanging
                           => r.seq <= q.seq
    <3> SUFFICES ASSUME NEW q \in rfnet', NEW r \in rfnet', q.kind = "request", r.kind = "reply",
                        {q.op, r.op} \subseteq RfChanging
                 PROVE  r.seq <= q.seq
      OBVIOUS
    <3>1. r \in rfnet /\ r.seq \in Nat /\ r.seq < rfseq
      BY <1>1, <1>4
    <3>2. CASE q \in rfnet
      BY <3>1, <3>2 DEF RfNumbers
    <3>3. CASE q = a
      BY <1>1, <3>1, <3>3
    <3> QED
      BY <3>2, <3>3
  <2>3. \A m \in rfnet' : m.seq = rfseq => m = a
    BY <1>1, <1>4
  <2>4. \A r \in rfnet' : r.kind = "reply" => r.seq # rfseq
    BY <1>1, <1>4
  <2>5. rfexch'.ask.seq = rfexch'.seq /\ rfexch'.seq = rfseq' - 1
    BY <1>1, <1>3
  <2> QED
    BY <1>3, <2>1, <2>2, <2>3, <2>4, <2>5 DEF RfNumbers
<1>6. \A r \in rfnet' : r.kind = "reply" => r.seq # rfseq
  BY <1>1, <1>4
<1>7. RfLate' \subseteq RfLate /\ RfLateChanges' \subseteq RfLateChanges
  BY <1>3 DEF RfLate, RfLateChanges
<1>8. \A n \in RfName : Agrees(files[n], sure[n])
  BY DEF RfKept
<1>9. RfKept'
  BY <1>1, <1>3, <1>6, <1>7, <1>8 DEF RfKept, ReadsWhatWasWritten
<1> QED
  BY <1>2, <1>5, <1>9

\* It is sent again, while datagrams arrive, are lost or are dropped.
LEMMA TriesKeep ==
  ASSUME RfTypes, RfNumbers, RfKept, RfTries, rfexch.ask \in rfnet', rfnet' \subseteq rfnet \cup {rfexch.ask},
         UNCHANGED <<rfseq, files, sure, rfread>>
  PROVE  /\ rfexch' \in RfExchT /\ rfexch'.by = rfexch.by /\ rfexch'.ask = rfexch.ask
         /\ rfnet' \subseteq Requests \cup Replies /\ RfNumbers' /\ RfKept'
<1>1. rfexch # RfNone /\ rfexch' = [rfexch EXCEPT !.tries = @ + 1]
  BY DEF RfTries
<1>2. /\ rfexch \in RfExchT /\ rfexch.tries \in Nat \ {0} /\ rfexch.ask \in Requests
      /\ rfexch.ask.kind = "request"
  BY <1>1, RfExchIs, RequestIs
<1>3. /\ rfexch' \in RfExchT /\ rfexch'.seq = rfexch.seq /\ rfexch'.by = rfexch.by
      /\ rfexch'.ask = rfexch.ask /\ rfexch'.tries = rfexch.tries + 1 /\ rfexch'.tries # 1
  BY <1>1, <1>2 DEF RfExchT
<1>4. rfexch' # RfNone
  BY <1>3, ExchIsOne
<1>5. rfnet' \subseteq Requests \cup Replies
  BY <1>2 DEF RfTypes
<1>6. \A r \in rfnet' : r.kind = "reply" => r \in rfnet
  BY <1>2
<1>7. RfNumbers'
  <2>1. rfexch.ask.seq = rfexch.seq /\ rfexch.seq = rfseq - 1 /\ rfseq \in Nat \ {0} /\ rfexch.seq \in Nat
    BY <1>1, RfExchIs DEF RfNumbers, RfTypes
  <2>2. \A m \in rfnet' : m.seq < rfseq'
    BY <2>1 DEF RfNumbers
  <2>3. \A q, r \in rfnet' : q.kind = "request" /\ r.kind = "reply" /\ {q.op, r.op} \subseteq RfChanging
                           => r.seq <= q.seq
    <3> SUFFICES ASSUME NEW q \in rfnet', NEW r \in rfnet', q.kind = "request", r.kind = "reply",
                        {q.op, r.op} \subseteq RfChanging
                 PROVE  r.seq <= q.seq
      OBVIOUS
    <3>1. r \in rfnet /\ r.seq \in Nat /\ r.seq < rfseq
      BY <1>6, RfNetIs DEF RfNumbers
    <3>2. CASE q \in rfnet
      BY <3>1, <3>2 DEF RfNumbers
    <3>3. CASE q = rfexch.ask
      BY <2>1, <3>1, <3>3
    <3> QED
      BY <3>2, <3>3
  <2>4. /\ \A m \in rfnet' : m.kind = "request" /\ m.seq = rfexch.seq => m = rfexch.ask
        /\ \A r \in rfnet' : r.kind = "reply" /\ r.seq = rfexch.seq => r.op = rfexch.ask.op
    BY <1>1, <1>6 DEF RfNumbers
  <2> QED
    BY <1>3, <2>1, <2>2, <2>3, <2>4 DEF RfNumbers
<1>8. RfLate' \subseteq RfLate /\ RfLateChanges' \subseteq RfLateChanges
  BY <1>1, <1>3, <1>4 DEF RfLate, RfLateChanges
<1>9. \A r \in rfnet' : r.kind = "reply" /\ r.seq = rfexch.seq =>
        RfAnswer(r, rfexch.ask, files[rfexch.ask.name], sure[rfexch.ask.name], rfexch'.tries)
  BY <1>1, <1>3, <1>6 DEF RfKept, RfAnswer
<1>10. RfKept'
  <2>1. \A m \in RfLate' : RfSpent(m, sure'[m.name])
    BY <1>8 DEF RfKept
  <2>2. \A n \in RfName :
          \/ Agrees(files'[n], sure'[n])
          \/ /\ n = rfexch'.ask.name /\ RfLateChanges' = {} /\ Agrees(files'[n], RfAfter(rfexch'.ask, sure'[n]))
    BY <1>3, <1>8 DEF RfKept
  <2> QED
    BY <1>3, <1>4, <1>9, <2>1, <2>2 DEF RfKept, ReadsWhatWasWritten
<1> QED
  BY <1>3, <1>5, <1>7, <1>10

\* The exchange ends: the file agrees with its history, and what is left of
\* requests to it can do nothing more.
LEMMA EndKeeps ==
  ASSUME RfTypes, RfNumbers, RfKept, rfexch # RfNone, rfexch' = RfNone, rfnet' \subseteq rfnet,
         UNCHANGED <<rfseq, files>>, ReadsWhatWasWritten',
         NEW t \in Seq(Int), Len(t) <= RfMaxPos, sure' = [sure EXCEPT ![rfexch.ask.name] = t],
         Agrees(files[rfexch.ask.name], t),
         \A m \in rfnet' : m.kind = "request" /\ m.name = rfexch.ask.name => RfSpent(m, t),
         \A m \in rfnet' : m.kind = "request" /\ m.name # rfexch.ask.name => m \in RfLate
  PROVE  /\ sure' \in [RfName -> Seq(Int)] /\ \A n \in RfName : Len(sure'[n]) <= RfMaxPos
         /\ rfnet' \subseteq Requests \cup Replies /\ RfNumbers' /\ RfKept'
<1>1. rfexch.ask.name \in RfName
  BY RfExchIs
<1>2. /\ sure' \in [RfName -> Seq(Int)]
      /\ \A n \in RfName : sure'[n] = IF n = rfexch.ask.name THEN t ELSE sure[n]
  BY <1>1 DEF RfTypes
<1>3. \A n \in RfName : Len(sure'[n]) <= RfMaxPos
  BY <1>2 DEF RfTypes
<1>4. rfnet' \subseteq Requests \cup Replies
  BY DEF RfTypes
<1>5. RfNumbers'
  BY DEF RfNumbers
<1>6. \A n \in RfName : Agrees(files'[n], sure'[n])
  BY <1>2 DEF RfKept
<1>7. \A m \in RfLate' : RfSpent(m, sure'[m.name])
  <2> SUFFICES ASSUME NEW m \in RfLate'
               PROVE  RfSpent(m, sure'[m.name])
    OBVIOUS
  <2>1. m \in rfnet' /\ m \in rfnet /\ m.kind = "request"
    BY DEF RfLate
  <2>2. m.name \in RfName
    BY <2>1, RfNetIs, RequestIs
  <2>3. CASE m.name = rfexch.ask.name
    BY <1>2, <2>1, <2>2, <2>3
  <2>4. CASE m.name # rfexch.ask.name
    BY <1>2, <2>1, <2>2, <2>4 DEF RfKept
  <2> QED
    BY <2>3, <2>4
<1>8. RfKept'
  BY <1>6, <1>7 DEF RfKept
<1> QED
  BY <1>2, <1>3, <1>4, <1>5, <1>8

\* Nobody knows whether the last request was executed.
LEMMA BlurKeeps ==
  ASSUME RfTypes, RfNumbers, RfKept, rfexch # RfNone, rfexch' = RfNone, rfnet' \subseteq rfnet,
         UNCHANGED <<rfseq, files, rfread>>, sure' = Unsure(rfexch.ask)
  PROVE  /\ sure' \in [RfName -> Seq(Int)] /\ \A n \in RfName : Len(sure'[n]) <= RfMaxPos
         /\ rfnet' \subseteq Requests \cup Replies /\ RfNumbers' /\ RfKept'
<1> DEFINE a == rfexch.ask
           s == sure[a.name]
           t == RfBlur(a, s)
<1>1. a \in Requests /\ a.name \in RfName
  BY RfExchIs
<1>2. s \in Seq(Int) /\ Len(s) <= RfMaxPos /\ files[a.name] \in Bytes
  BY <1>1 DEF RfTypes
<1>3. sure' = [sure EXCEPT ![a.name] = t]
  <2>1. CASE a.op = "write"
    BY <2>1 DEF Unsure, RfBlur
  <2>2. CASE a.op \in {"trunc", "delete"}
    BY <2>2 DEF Unsure, RfBlur
  <2>3. CASE a.op \notin {"write", "trunc", "delete"}
    <3>1. sure' = sure /\ t = s
      BY <2>3 DEF Unsure, RfBlur
    <3> QED
      BY <1>1, <3>1 DEF RfTypes
  <2> QED
    BY <2>1, <2>2, <2>3
<1>4. a \in Requests /\ (Agrees(files[a.name], s) \/ Agrees(files[a.name], RfAfter(a, s)))
  BY <1>1 DEF RfKept
<1> HIDE DEF a, s, t
<1>5. /\ t \in Seq(Int) /\ Len(t) <= RfMaxPos /\ RfAfter(a, s) \in Seq(Int)
      /\ Weaker(t, s) /\ Weaker(t, RfAfter(a, s)) /\ RfSpent(a, t)
  BY <1>1, <1>2, HistoryIs, BlurWeaker, SpentAfter DEF t
<1>6. Agrees(files[a.name], t)
  BY <1>2, <1>4, <1>5, WeakerKeeps
<1>7. \A m \in rfnet' : m.kind = "request" /\ m.name = a.name => RfSpent(m, t)
  <2> SUFFICES ASSUME NEW m \in rfnet', m.kind = "request", m.name = a.name
               PROVE  RfSpent(m, t)
    OBVIOUS
  <2>1. m \in Requests
    BY RfNetIs
  <2>2. CASE m = a
    BY <1>5, <2>2
  <2>3. CASE m # a
    <3>1. m \in RfLate
      BY <2>3 DEF RfLate, a
    <3>2. RfSpent(m, s)
      BY <3>1 DEF RfKept, s
    <3> QED
      BY <1>2, <1>5, <2>1, <3>2, WeakerKeeps
  <2> QED
    BY <2>2, <2>3
<1>8. \A m \in rfnet' : m.kind = "request" /\ m.name # a.name => m \in RfLate
  BY DEF RfLate, a
<1>9. ReadsWhatWasWritten'
  BY DEF RfKept, ReadsWhatWasWritten
<1> QED
  BY <1>3, <1>5, <1>6, <1>7, <1>8, <1>9, EndKeeps DEF a

\* The reply says that the last request was executed.
LEMMA DoneKeeps ==
  ASSUME RfTypes, RfNumbers, RfKept, rfexch # RfNone, rfexch' = RfNone, rfnet' \subseteq rfnet,
         NEW r \in rfnet, r.kind = "reply", r.seq = rfexch.seq, r.ok,
         UNCHANGED <<rfseq, files>>, ReadsWhatWasWritten',
         sure' = [sure EXCEPT ![rfexch.ask.name] = RfAfter(rfexch.ask, @)]
  PROVE  /\ sure' \in [RfName -> Seq(Int)] /\ \A n \in RfName : Len(sure'[n]) <= RfMaxPos
         /\ rfnet' \subseteq Requests \cup Replies /\ RfNumbers' /\ RfKept'
<1> DEFINE a == rfexch.ask
           s == sure[a.name]
           t == RfAfter(a, s)
<1>1. a \in Requests /\ a.name \in RfName
  BY RfExchIs
<1>2. s \in Seq(Int) /\ Len(s) <= RfMaxPos
  BY <1>1 DEF RfTypes
<1>3. sure' = [sure EXCEPT ![a.name] = t]
  OBVIOUS
<1>4. Agrees(files[a.name], t)
  BY DEF RfKept, RfAnswer
<1>5. \A m \in rfnet' : m.kind = "request" => m = a \/ m \in RfLate
  BY DEF RfLate
<1>6. a.op \in RfChanging => \A m \in RfLate : m.op \notin RfChanging
  BY RfNoneLate DEF RfLateChanges
<1>7. \A m \in RfLate : RfSpent(m, sure[m.name])
  BY DEF RfKept
<1> HIDE DEF a, s, t
<1>8. t \in Seq(Int) /\ Len(t) <= RfMaxPos /\ RfSpent(a, t)
  BY <1>1, <1>2, HistoryIs, SpentAfter DEF t
<1>9. ASSUME NEW m \in RfLate, m.name = a.name
      PROVE  RfSpent(m, t)
  <2>1. CASE a.op \in RfChanging
    BY <1>6, <2>1 DEF RfSpent, RfChanging
  <2>2. CASE a.op \notin RfChanging
    <3>1. t = s
      BY <2>2 DEF RfAfter, RfChanging, t
    <3> QED
      BY <1>7, <1>9, <3>1 DEF s
  <2> QED
    BY <2>1, <2>2
<1>10. /\ \A m \in rfnet' : m.kind = "request" /\ m.name = a.name => RfSpent(m, t)
       /\ \A m \in rfnet' : m.kind = "request" /\ m.name # a.name => m \in RfLate
  BY <1>5, <1>8, <1>9
<1> QED
  BY <1>3, <1>4, <1>8, <1>10, EndKeeps DEF a

\* It was sent once and refused.
LEMMA FailsKeeps ==
  ASSUME RfTypes, RfNumbers, RfKept, NEW r \in rfnet, RfFails(r)
  PROVE  /\ sure' \in [RfName -> Seq(Int)] /\ \A n \in RfName : Len(sure'[n]) <= RfMaxPos
         /\ rfnet' \subseteq Requests \cup Replies /\ RfNumbers' /\ RfKept'
<1>1. /\ rfexch # RfNone /\ rfexch' = RfNone /\ rfnet' = rfnet \ {r} /\ ~r.ok
      /\ r.kind = "reply" /\ r.seq = rfexch.seq /\ UNCHANGED <<rfseq, files, rfread>>
      /\ sure' = IF rfexch.tries > 1 THEN Unsure(rfexch.ask) ELSE sure
  BY DEF RfFails, RfAnswered, RfAccepts
<1>2. CASE rfexch.tries > 1
  BY <1>1, <1>2, BlurKeeps
<1>3. CASE ~(rfexch.tries > 1)
  <2>1. rfexch.tries = 1 /\ rfexch.ask \in Requests /\ rfexch.ask.name \in RfName
    BY <1>1, <1>3, RfExchIs
  <2> DEFINE t == sure[rfexch.ask.name]
  <2>2. t \in Seq(Int) /\ Len(t) <= RfMaxPos
    BY <2>1 DEF RfTypes
  <2>3. sure' = [sure EXCEPT ![rfexch.ask.name] = t]
    BY <1>1, <1>3, <2>1 DEF RfTypes
  <2>4. Agrees(files[rfexch.ask.name], t)
    BY <1>1, <2>1 DEF RfKept, RfAnswer
  <2>5. rfexch.ask \notin rfnet
    BY <1>1, <2>1 DEF RfNumbers
  <2>6. \A m \in rfnet' : m.kind = "request" => m \in RfLate
    BY <1>1, <2>5 DEF RfLate
  <2>7. \A m \in rfnet' : m.kind = "request" /\ m.name = rfexch.ask.name => RfSpent(m, t)
    BY <2>6 DEF RfKept
  <2>8. ReadsWhatWasWritten'
    BY <1>1 DEF RfKept, ReadsWhatWasWritten
  <2> HIDE DEF t
  <2> QED
    BY <1>1, <2>2, <2>3, <2>4, <2>6, <2>7, <2>8, EndKeeps
<1> QED
  BY <1>2, <1>3

-------------------------------------------------------------------------------
(* The remote files: the server *)

LEMMA RfServes ==
  ASSUME "late" \notin RfHazards, RfTypes, NEW m \in rfnet, RfServer(m)
  PROVE  /\ m \in Requests /\ m.name \in RfName /\ m.seq \in Nat \ {0}
         /\ m.op \notin RfChanging => RfDoes(m, files[m.name]) = files[m.name]
         /\ files' = [files EXCEPT ![m.name] = RfDoes(m, files[m.name])]
         /\ files' \in [RfName -> Bytes]
         /\ m.op \in RfChanging =>
              \A n \in rfnet : n.kind = "request" /\ n.op \in RfChanging => n.seq >= m.seq
         /\ \E r \in Replies :
              /\ rfnet' = (rfnet \ {m}) \cup {r} /\ r.seq = m.seq /\ r.kind = "reply" /\ r.op = m.op
              /\ r.ok /\ m.op \in {"read", "write", "delete", "trunc", "size"} => files[m.name] # Absent
              /\ ~r.ok => RfDoes(m, files[m.name]) = files[m.name]
              /\ r.ok /\ r.op = "read" =>
                   m.op = "read" /\ files[m.name] # Absent /\ r.data = Slice(files[m.name], m.pos, m.len)
<1> DEFINE f == files[m.name]
           d == RfDoes(m, f)
<1>1. m \in Requests /\ m.name \in RfName /\ m.seq \in Nat \ {0} /\ m.op \in RfOps /\ m.pos \in Nat /\ m.len \in Nat
  BY RfNetIs, RequestIs DEF RfServer
<1>2. f \in Bytes /\ d \in Bytes /\ files \in [RfName -> Bytes]
  BY <1>1, DoesIs DEF RfTypes
<1>3. Refuses(m) => d = f
  <2>1. CASE m.op = "open"
    BY <2>1 DEF Refuses, RfDoes
  <2>2. CASE m.op # "open"
    BY <2>2 DEF Refuses, RfDoes
  <2> QED
    BY <2>1, <2>2
<1>4. files' = [files EXCEPT ![m.name] = d]
  <2>0. files = [files EXCEPT ![m.name] = f]
    BY <1>1, <1>2
  <2>1. CASE Refuses(m)
    BY <1>3, <2>0, <2>1 DEF RfServer
  <2>2. CASE ~Refuses(m)
    <3>0. files' = CASE m.op = "open" /\ f = Absent -> [files EXCEPT ![m.name] = <<>>]
                     [] m.op = "write" -> [files EXCEPT ![m.name] = Written(f, m.pos, m.len, m.seq)]
                     [] m.op = "trunc" -> [files EXCEPT ![m.name] = <<>>]
                     [] m.op = "delete" -> [files EXCEPT ![m.name] = Absent]
                     [] OTHER -> files
      BY <2>2 DEF RfServer
    <3>1. CASE f = Absent
      <4>1. CASE m.op = "open"
        <5>1. d = <<>>
          BY <2>2, <3>1, <4>1 DEF Refuses, RfDoes
        <5> QED
          BY <3>0, <3>1, <4>1, <5>1
      <4>2. CASE m.op # "open"
        <5>1. m.op \notin {"write", "trunc", "delete"} /\ d = f
          BY <2>2, <3>1, <4>2 DEF Refuses, RfDoes
        <5> QED
          BY <2>0, <3>0, <4>2, <5>1
      <4> QED
        BY <4>1, <4>2
    <3>2. CASE f # Absent
      <4>1. CASE m.op \in {"write", "trunc", "delete"}
        BY <3>0, <3>2, <4>1 DEF RfDoes
      <4>2. CASE m.op \notin {"write", "trunc", "delete"}
        <5>1. d = f
          BY <3>2, <4>2 DEF RfDoes
        <5> QED
          BY <2>0, <3>0, <3>2, <4>2, <5>1
      <4> QED
        BY <4>1, <4>2
    <3> QED
      BY <3>1, <3>2
  <2> QED
    BY <2>1, <2>2
<1>5. files' \in [RfName -> Bytes]
  BY <1>1, <1>2, <1>4
<1>6. PICK ok \in BOOLEAN :
        /\ m.op \notin {"mkdir", "rmdir"} => ok = ~Refuses(m)
        /\ rfnet' = (rfnet \ {m}) \cup
             {[kind |-> "reply", op |-> m.op, seq |-> m.seq, ok |-> ok,
               data |-> IF m.op = "read" /\ ok THEN Slice(f, m.pos, m.len) ELSE <<>>,
               len |-> IF m.op = "write" /\ ok THEN m.len ELSE 0]}
  <2>1. PICK ok \in (IF m.op \in {"mkdir", "rmdir"} THEN BOOLEAN ELSE {~Refuses(m)}) :
        rfnet' = (rfnet \ {m}) \cup
             {[kind |-> "reply", op |-> m.op, seq |-> m.seq, ok |-> ok,
               data |-> IF m.op = "read" /\ ok THEN Slice(f, m.pos, m.len) ELSE <<>>,
               len |-> IF m.op = "write" /\ ok THEN m.len ELSE 0]}
    BY DEF RfServer
  <2>2. ok \in BOOLEAN /\ (m.op \notin {"mkdir", "rmdir"} => ok = ~Refuses(m))
    BY <2>1 DEF Refuses
  <2> QED
    BY <2>1, <2>2
<1> DEFINE data == IF m.op = "read" /\ ok THEN Slice(f, m.pos, m.len) ELSE <<>>
           len == IF m.op = "write" /\ ok THEN m.len ELSE 0
           r == [kind |-> "reply", op |-> m.op, seq |-> m.seq, ok |-> ok, data |-> data, len |-> len]
<1>7. ok /\ m.op \in {"read", "write", "delete", "trunc", "size"} => f # Absent
  BY <1>6 DEF Refuses
<1>8. ~ok => d = f
  <2>1. CASE m.op \in {"mkdir", "rmdir"}
    BY <2>1 DEF RfDoes
  <2>2. CASE m.op \notin {"mkdir", "rmdir"}
    BY <1>3, <1>6, <2>2
  <2> QED
    BY <2>1, <2>2
<1>9. data \in Seq(Nat) /\ len \in Nat
  <2>1. m.op = "read" /\ ok => f \in Seq(Nat)
    BY <1>2, <1>7, BytesAre
  <2>2. f \in Seq(Nat) => Slice(f, m.pos, m.len) \in Seq(Nat)
    BY <1>1, SliceIs DEF HasSlice
  <2> QED
    BY <1>1, <2>1, <2>2, BytesAre
<1>10. rfnet' = (rfnet \ {m}) \cup {r}
  BY <1>6
<1> HIDE DEF data, len, f, d
<1>11. r \in Replies
  BY <1>1, <1>6, <1>9 DEF Replies
<1>12. /\ r.seq = m.seq /\ r.kind = "reply" /\ r.ok = ok /\ r.op = m.op /\ r.data = data
  OBVIOUS
<1>13. r.ok /\ r.op = "read" => f # Absent /\ r.data = Slice(f, m.pos, m.len)
  BY <1>7, <1>12 DEF data
<1> HIDE DEF r
<1>14. m.op \in RfChanging =>
         \A n \in rfnet : n.kind = "request" /\ n.op \in RfChanging => n.seq >= m.seq
  BY DEF RfServer, RfInTime
<1>15. m.op \notin RfChanging => d = f
  BY DEF RfDoes, RfChanging, d
<1> QED
  BY <1>1, <1>4, <1>5, <1>7, <1>8, <1>10, <1>11, <1>12, <1>13, <1>14, <1>15 DEF f, d

\* What is read of a file is what its history is sure of.
LEMMA SliceReads ==
  ASSUME NEW f \in Seq(Nat), NEW s \in Seq(Int), Agrees(f, s), NEW pos \in Nat, NEW n \in Nat
  PROVE  RfReads(Slice(f, pos, n), Slice(s, pos, n))
<1>1. f # Absent /\ Len(f) \in Nat /\ Len(s) \in Nat
  BY BytesAre
<1> DEFINE d == Slice(f, pos, n)
           w == Slice(s, pos, n)
<1>2. /\ DOMAIN d = {k \in Nat \ {0} : k <= n /\ pos + k <= Len(f)}
      /\ \A k \in DOMAIN d : d[k] = f[pos + k]
  <2>1. HasSlice(d, Nat, f, pos, n)
    BY SliceIs
  <2> QED
    BY <2>1 DEF HasSlice
<1>3. /\ DOMAIN w = {k \in Nat \ {0} : k <= n /\ pos + k <= Len(s)}
      /\ \A k \in DOMAIN w : w[k] = s[pos + k]
  <2>1. HasSlice(w, Int, s, pos, n)
    BY SliceIs
  <2> QED
    BY <2>1 DEF HasSlice
<1> HIDE DEF d, w
<1> SUFFICES ASSUME NEW k \in DOMAIN w, w[k] # -1
             PROVE  k \in DOMAIN d /\ d[k] = w[k]
  BY DEF RfReads, d, w
<1>4. k \in Nat \ {0} /\ k <= n /\ pos + k <= Len(s) /\ s[pos + k] = w[k]
  BY <1>3
<1>5. pos + k \in 1 .. Len(s)
  BY <1>1, <1>4
<1>6. pos + k <= Len(f) /\ f[pos + k] = s[pos + k]
  BY <1>1, <1>4, <1>5 DEF Agrees
<1>7. k \in DOMAIN d
  BY <1>2, <1>4, <1>6
<1> QED
  BY <1>2, <1>4, <1>6, <1>7

\* The server executes the request of the exchange under way.
LEMMA ServesLast ==
  ASSUME "late" \notin RfHazards, RfTypes, RfNumbers, RfKept, NEW m \in rfnet, RfServer(m),
         rfexch # RfNone, m = rfexch.ask,
         UNCHANGED <<rfexch, sure, rfread>>
  PROVE  RfKept'
<1> DEFINE f == files[m.name]
           s == sure[m.name]
           d == RfDoes(m, f)
           t == RfAfter(m, s)
<1>1. /\ m \in Requests /\ m.name \in RfName /\ m.seq \in Nat \ {0} /\ m.pos \in Nat /\ m.len \in Nat
      /\ m.kind = "request" /\ m.op \in RfOps
  BY RfServes, RequestIs
<1>2. /\ files' = [files EXCEPT ![m.name] = d] /\ (m.op \notin RfChanging => d = f)
      /\ m.op \in RfChanging =>
           \A n \in rfnet : n.kind = "request" /\ n.op \in RfChanging => n.seq >= m.seq
  BY RfServes
<1>3. PICK r \in Replies :
        /\ rfnet' = (rfnet \ {m}) \cup {r} /\ r.seq = m.seq /\ r.kind = "reply" /\ r.op = m.op
        /\ r.ok /\ m.op \in {"read", "write", "delete", "trunc", "size"} => f # Absent
        /\ ~r.ok => d = f
        /\ r.ok /\ r.op = "read" =>
             m.op = "read" /\ f # Absent /\ r.data = Slice(f, m.pos, m.len)
  BY RfServes
<1>4. f \in Bytes /\ s \in Seq(Int) /\ Len(s) <= RfMaxPos /\ files \in [RfName -> Bytes]
  BY <1>1 DEF RfTypes
<1>5. t \in Seq(Int) /\ RfSpent(m, t)
  BY <1>1, <1>4, HistoryIs, SpentAfter
<1>6. m.op \in RfChanging => RfLateChanges = {}
  <2> SUFFICES ASSUME m.op \in RfChanging, NEW n \in RfLateChanges
               PROVE  FALSE
    OBVIOUS
  <2>1. n \in rfnet /\ n.kind = "request" /\ n # rfexch.ask /\ n.op \in RfChanging
    BY DEF RfLate, RfLateChanges
  <2>2. n.seq \in Nat /\ rfexch.seq \in Nat /\ rfseq \in Nat
    BY <2>1, RfNetIs, RfExchIs DEF RfTypes
  <2>3. rfexch.seq <= n.seq /\ n.seq < rfseq /\ rfexch.seq = rfseq - 1
    BY <1>2, <2>1 DEF RfNumbers
  <2>4. n.seq = rfexch.seq
    BY <2>2, <2>3
  <2> QED
    BY <2>1, <2>4 DEF RfNumbers
<1>7. Agrees(f, s) \/ Agrees(f, t)
  BY <1>1 DEF RfKept
<1>8. Agrees(f, t) => Agrees(d, t)
  BY <1>1, <1>4, <1>5, SpentKeeps
<1>9. Agrees(f, s) => Agrees(d, t) \/ (Agrees(d, s) /\ f = Absent)
  BY <1>1, <1>4, DoesNew
<1>10. r.ok => Agrees(d, t)
  <2>1. CASE m.op \in {"read", "write", "delete", "trunc", "size"}
    BY <1>3, <1>7, <1>8, <1>9, <2>1
  <2>2. CASE m.op \notin {"read", "write", "delete", "trunc", "size"}
    <3>1. t = s
      BY <2>2 DEF RfAfter
    <3> QED
      BY <1>7, <1>8, <1>9, <3>1
  <2> QED
    BY <2>1, <2>2
<1>11. ~r.ok /\ rfexch.tries = 1 => Agrees(d, s)
  BY <1>3 DEF RfKept
<1>12. r.ok /\ r.op = "read" => RfReads(r.data, Slice(s, m.pos, m.len))
  <2> SUFFICES ASSUME r.ok, r.op = "read"
               PROVE  RfReads(r.data, Slice(s, m.pos, m.len))
    OBVIOUS
  <2>1. m.op = "read" /\ f # Absent /\ r.data = Slice(f, m.pos, m.len)
    BY <1>3
  <2>2. t = s
    BY <2>1 DEF RfAfter
  <2>3. f \in Seq(Nat)
    BY <1>4, <2>1, BytesAre
  <2>4. Agrees(f, s)
    BY <1>7, <2>2
  <2> HIDE DEF f, s
  <2> QED
    BY <1>1, <1>4, <2>1, <2>3, <2>4, SliceReads
<1>13. RfAnswer(r, m, d, s, rfexch.tries)
  BY <1>10, <1>11, <1>12 DEF RfAnswer
<1>14. \A x \in rfnet : x.kind = "reply" /\ x.seq = rfexch.seq => RfAnswer(x, m, d, s, rfexch.tries)
  <2> SUFFICES ASSUME NEW x \in rfnet, x.kind = "reply", x.seq = rfexch.seq
               PROVE  RfAnswer(x, m, d, s, rfexch.tries)
    OBVIOUS
  <2>1. RfAnswer(x, m, f, s, rfexch.tries)
    BY DEF RfKept
  <2>2. rfexch.tries # 1
    BY DEF RfNumbers
  <2> QED
    BY <1>8, <2>1, <2>2 DEF RfAnswer
<1>15. files'[m.name] = d /\ \A n \in RfName : n # m.name => files'[n] = files[n]
  BY <1>1, <1>2, <1>4
<1>16. m \notin rfnet'
  BY <1>1, <1>3
<1>17. RfLate' \subseteq RfLate /\ (m.op \in RfChanging => RfLateChanges' = {})
  BY <1>1, <1>3, <1>6 DEF RfLate, RfLateChanges
<1>18. Agrees(d, s) \/ (Agrees(d, t) /\ m.op \in RfChanging)
  <2>1. m.op \notin RfChanging => t = s
    BY DEF RfAfter, RfChanging
  <2> QED
    BY <1>2, <1>7, <1>8, <1>9, <2>1
<1>19. \A n \in RfName : n # m.name => Agrees(files[n], sure[n])
  BY DEF RfKept
<1>20. \A x \in rfnet' : x.kind = "reply" /\ x.seq = rfexch.seq => RfAnswer(x, m, d, s, rfexch.tries)
  BY <1>3, <1>13, <1>14
<1>21. ReadsWhatWasWritten'
  BY DEF RfKept, ReadsWhatWasWritten
<1> HIDE DEF f, s, d, t
<1>22. sure'[m.name] = s /\ RfAfter(m, s) = t
  BY DEF s, t
<1>23. ASSUME NEW n \in RfName
       PROVE  \/ Agrees(files'[n], sure'[n])
              \/ /\ n = m.name /\ RfLateChanges' = {}
                 /\ Agrees(files'[n], RfAfter(m, sure'[n]))
  <2>1. CASE n = m.name
    BY <1>15, <1>17, <1>18, <1>22, <2>1
  <2>2. CASE n # m.name
    BY <1>15, <1>19, <2>2
  <2> QED
    BY <2>1, <2>2
<1>24. rfexch' = rfexch
  OBVIOUS
<1>25. \A n \in RfLate' : RfSpent(n, sure'[n.name])
  BY <1>17 DEF RfKept
<1> QED
  BY <1>15, <1>16, <1>20, <1>21, <1>22, <1>23, <1>24, <1>25 DEF RfKept

\* It executes one that is late.
LEMMA ServesLate ==
  ASSUME "late" \notin RfHazards, RfTypes, RfNumbers, RfKept, NEW m \in rfnet, RfServer(m),
         rfexch = RfNone \/ m # rfexch.ask, UNCHANGED <<rfexch, sure, rfread>>
  PROVE  RfKept'
<1> DEFINE d == RfDoes(m, files[m.name])
<1>1. /\ m \in Requests /\ m.name \in RfName /\ m.kind = "request"
      /\ files' = [files EXCEPT ![m.name] = d] /\ (m.op \notin RfChanging => d = files[m.name])
  BY RfServes, RequestIs
<1>2. PICK r \in Replies : rfnet' = (rfnet \ {m}) \cup {r} /\ r.seq = m.seq /\ r.kind = "reply"
  BY RfServes
<1>3. m \in RfLate /\ RfSpent(m, sure[m.name])
  BY <1>1 DEF RfLate, RfKept
<1>4. files \in [RfName -> Bytes] /\ sure[m.name] \in Seq(Int) /\ files[m.name] \in Bytes
  BY <1>1 DEF RfTypes
<1>5. RfLate' \subseteq RfLate /\ RfLateChanges' \subseteq RfLateChanges
  BY <1>2 DEF RfLate, RfLateChanges
<1>6. \A n \in RfLate' : RfSpent(n, sure'[n.name])
  BY <1>5 DEF RfKept
<1>7. rfexch # RfNone => \A x \in rfnet' : x.kind = "reply" /\ x.seq = rfexch.seq => x \in rfnet
  <2> SUFFICES ASSUME rfexch # RfNone, NEW x \in rfnet', x.kind = "reply", x.seq = rfexch.seq, x = r
               PROVE  FALSE
    BY <1>2
  <2> QED
    BY <1>1, <1>2 DEF RfNumbers
<1>8. ReadsWhatWasWritten'
  BY DEF RfKept, ReadsWhatWasWritten
<1>9. rfexch # RfNone => rfexch.ask.name \in RfName /\ rfexch.ask.kind = "request"
  BY RfExchIs, RequestIs
<1>10. rfexch # RfNone /\ rfexch.ask \in rfnet' => rfexch.ask \in rfnet
  BY <1>2, <1>9
\* A request that changes nothing leaves the files as they are.
<1>11. CASE m.op \notin RfChanging
  <2>1. files' = files
    BY <1>1, <1>4, <1>11
  <2>2. \A n \in RfName :
          \/ Agrees(files'[n], sure'[n])
          \/ /\ rfexch' # RfNone /\ n = rfexch'.ask.name /\ RfLateChanges' = {}
             /\ Agrees(files'[n], RfAfter(rfexch'.ask, sure'[n]))
    BY <1>5, <2>1 DEF RfKept
  <2>3. rfexch' # RfNone =>
          LET a == rfexch'.ask IN
          /\ \A x \in rfnet' : x.kind = "reply" /\ x.seq = rfexch'.seq =>
               RfAnswer(x, a, files'[a.name], sure'[a.name], rfexch'.tries)
          /\ rfexch'.tries = 1 /\ a \in rfnet' => Agrees(files'[a.name], sure'[a.name])
    BY <1>7, <1>10, <2>1 DEF RfKept
  <2> QED
    BY <1>6, <1>8, <2>2, <2>3 DEF RfKept
\* A change comes before that of the exchange under way is answered, and leaves what is sure.
<1>12. CASE m.op \in RfChanging
  <2>1. m \in RfLateChanges
    BY <1>3, <1>12 DEF RfLateChanges
  <2>2. \A n \in RfName : Agrees(files[n], sure[n])
    BY <2>1 DEF RfKept
  <2>3. Agrees(d, sure[m.name])
    BY <1>1, <1>3, <1>4, <2>2, SpentKeeps
  <2> HIDE DEF d
  <2>4. \A n \in RfName : Agrees(files'[n], sure'[n])
    BY <1>1, <1>4, <2>2, <2>3
  <2>5. ASSUME rfexch # RfNone, NEW x \in rfnet', x.kind = "reply", x.seq = rfexch.seq
        PROVE  RfAnswer(x, rfexch.ask, files'[rfexch.ask.name], sure[rfexch.ask.name], rfexch.tries)
    <3>1. x \in rfnet /\ RfAnswer(x, rfexch.ask, files[rfexch.ask.name], sure[rfexch.ask.name], rfexch.tries)
      BY <1>7, <2>5 DEF RfKept
    <3>2. rfexch.ask.op \notin RfChanging
      BY <2>1, <2>5, <3>1, RfNoneLate
    <3>3. RfAfter(rfexch.ask, sure[rfexch.ask.name]) = sure[rfexch.ask.name]
      BY <3>2 DEF RfAfter, RfChanging
    <3>4. Agrees(files'[rfexch.ask.name], sure[rfexch.ask.name])
      BY <1>9, <2>4, <2>5
    <3> QED
      BY <3>1, <3>3, <3>4 DEF RfAnswer
  <2>6. rfexch # RfNone => Agrees(files'[rfexch.ask.name], sure'[rfexch.ask.name])
    BY <1>9, <2>4
  <2> QED
    BY <1>6, <1>8, <2>4, <2>5, <2>6 DEF RfKept
<1> QED
  BY <1>11, <1>12

LEMMA ServerKeeps ==
  ASSUME "late" \notin RfHazards, RfTypes, RfMutexed, RfNumbers, RfKept, NEW m \in rfnet, RfServer(m)
  PROVE  RfTypes' /\ RfMutexed' /\ RfNumbers' /\ RfKept'
<1>1. UNCHANGED <<rfltab, rfmutex, rfseq, rfcall, rfexch, sure, rfread>>
  BY DEF RfServer
<1>2. m \in Requests /\ m.seq \in Nat \ {0} /\ files' \in [RfName -> Bytes] /\ m.kind = "request"
  BY RfServes, RequestIs
<1>3. m.op \in RfChanging =>
        \A n \in rfnet : n.kind = "request" /\ n.op \in RfChanging => n.seq >= m.seq
  BY RfServes
<1>4. PICK r \in Replies :
        rfnet' = (rfnet \ {m}) \cup {r} /\ r.seq = m.seq /\ r.kind = "reply" /\ r.op = m.op
  BY RfServes
<1>5. rfnet' \subseteq Requests \cup Replies
  BY <1>4 DEF RfTypes
<1>6. RfTypes'
  BY <1>1, <1>2, <1>5 DEF RfTypes
<1>7. RfMutexed'
  BY <1>1 DEF RfMutexed, InRf
<1>8. RfNumbers'
  <2>1. \A x \in rfnet' : x.seq < rfseq'
    BY <1>1, <1>4 DEF RfNumbers
  <2>2. \A q, x \in rfnet' : q.kind = "request" /\ x.kind = "reply" /\ {q.op, x.op} \subseteq RfChanging
                           => x.seq <= q.seq
    <3> SUFFICES ASSUME NEW q \in rfnet', NEW x \in rfnet', q.kind = "request", x.kind = "reply",
                        {q.op, x.op} \subseteq RfChanging
                 PROVE  x.seq <= q.seq
      OBVIOUS
    <3>1. q \in rfnet /\ q.seq \in Nat
      BY <1>4, RfNetIs
    <3>2. CASE x \in rfnet
      BY <3>1, <3>2 DEF RfNumbers
    <3>3. CASE x = r
      BY <1>2, <1>3, <1>4, <3>1, <3>3
    <3> QED
      BY <1>4, <3>2, <3>3
  <2>3. ASSUME rfexch # RfNone
        PROVE  /\ \A x \in rfnet' : x.kind = "request" /\ x.seq = rfexch.seq => x = rfexch.ask
               /\ \A x \in rfnet' : x.kind = "reply" /\ x.seq = rfexch.seq => x.op = rfexch.ask.op
               /\ rfexch.tries = 1 /\ rfexch.ask \in rfnet' =>
                    \A x \in rfnet' : x.kind = "reply" => x.seq # rfexch.seq
    <3>1. \A x \in rfnet' : x.kind = "request" => x \in rfnet
      BY <1>4
    <3>2. rfexch.ask.kind = "request"
      BY <2>3, RfExchIs, RequestIs
    <3>3. rfexch.ask \in rfnet' => rfexch.ask \in rfnet /\ rfexch.ask # m
      BY <1>4, <3>2
    <3>4. m # rfexch.ask => r.seq # rfexch.seq
      BY <1>2, <1>4, <2>3 DEF RfNumbers
    <3>5. \A x \in rfnet' : x.kind = "reply" /\ x.seq = rfexch.seq => x.op = rfexch.ask.op
      BY <1>2, <1>4, <2>3 DEF RfNumbers
    <3> QED
      BY <1>4, <2>3, <3>1, <3>3, <3>4, <3>5 DEF RfNumbers
  <2>4. rfexch # RfNone => rfexch.ask.seq = rfexch.seq /\ rfexch.seq = rfseq - 1
    BY DEF RfNumbers
  <2> QED
    BY <1>1, <2>1, <2>2, <2>3, <2>4 DEF RfNumbers
<1>9. RfKept'
  <2>1. UNCHANGED <<rfexch, sure, rfread>>
    BY <1>1
  <2> QED
    BY <2>1, ServesLast, ServesLate
<1> QED
  BY <1>6, <1>7, <1>8, <1>9

-------------------------------------------------------------------------------
(* The remote files: the calls *)

LEMMA IdleIs == RfIdle.at = ""
  BY DEF RfIdle

\* What a process may ask for.
RfAsked(c) == c.at = "mutex" /\ c \in RfCallT /\ RfCallFits(c)

LEMMA RfCallIs ==
  ASSUME NEW op \in RfOps \cup {"seek", "close"}, NEW dev \in Nat, NEW name \in RfKnown,
         NEW mode \in RfModes \cup {<<>>}, NEW len \in Int,
         op \in {"read", "write", "seek", "close"} => dev \in Rfl,
         op \in {"open", "size"} \cup Rfsndmsg => name \in RfName \cup RfBad,
         op \notin {"read", "write"} => len \in Nat
  PROVE  RfAsked(RfCall(op, dev, name, mode, len))
<1> DEFINE c == RfCall(op, dev, name, mode, len)
<1>1. c.at = "mutex" /\ c.op = op /\ c.dev = dev /\ c.name = name /\ c.len = len
  BY DEF RfCall
<1>2. c \in RfCallT
  BY DEF RfCall, RfCallT
<1> HIDE DEF c
<1>3. c # RfIdle
  BY <1>1, IdleIs
<1>4. op # "none"
  BY DEF RfOps, Rfsndmsg
<1>5. RfCallFits(c)
  BY <1>1, <1>3, <1>4 DEF RfCallFits
<1> QED
  BY <1>1, <1>2, <1>5 DEF c, RfAsked

LEMMA RfCallsAre ==
  ASSUME NEW c \in RfCalls
  PROVE  RfAsked(c)
<1>1. RfLens \subseteq Int /\ Rfl \subseteq Nat /\ 0 .. RfMaxPos \subseteq Nat /\ 0 \in Nat /\ 0 \in Int /\ 1 \in Int
  BY RemoteFilesAssumption
<1>0. /\ {"open", "size", "read", "write"} \cup Rfsndmsg \subseteq RfOps
      /\ RfName \cup RfBad \subseteq RfKnown /\ "" \in RfKnown
      /\ \A op \in Rfsndmsg \cup {"size"} : op \notin {"read", "write", "seek", "close"}
  BY DEF RfOps, RfKnown, Rfsndmsg
<1>2. ASSUME NEW n \in RfName \cup RfBad, NEW md \in RfModes, c = RfCall("open", 0, n, md, 0)
      PROVE  RfAsked(c)
  BY <1>0, <1>1, <1>2, RfCallIs
<1>3. ASSUME NEW op \in Rfsndmsg \cup {"size"}, NEW n \in RfName \cup RfBad, c = RfCall(op, 0, n, <<>>, 0)
      PROVE  RfAsked(c)
  BY <1>0, <1>1, <1>3, RfCallIs
<1>4. ASSUME NEW i \in Rfl, NEW n \in RfLens \cup {1}, c = Reading(i, n) \/ c = Writing(i, n)
      PROVE  RfAsked(c)
  <2>1. PICK op \in {"read", "write"} : c = RfCall(op, i, "", <<>>, n)
    BY <1>4 DEF Reading, Writing
  <2>2. op \notin {"open", "size"} \cup Rfsndmsg /\ n \in Int /\ i \in Nat
    BY <1>1 DEF Rfsndmsg
  <2> QED
    BY <1>0, <1>1, <2>1, <2>2, RfCallIs
<1>5. ASSUME NEW i \in Rfl, NEW op \in {"seek", "close"}, NEW n \in Nat, c = RfCall(op, i, "", <<>>, n)
      PROVE  RfAsked(c)
  <2>1. /\ op \notin {"open", "size"} \cup Rfsndmsg /\ i \in Nat /\ n \in Int
        /\ op \in RfOps \cup {"seek", "close"} /\ op \notin {"read", "write"}
        /\ "" \in RfKnown /\ <<>> \in RfModes \cup {<<>>}
    <3>1. op = "seek" \/ op = "close"
      OBVIOUS
    <3>2. op \notin {"open", "size"} \cup Rfsndmsg /\ op \notin {"read", "write"}
      BY <3>1 DEF Rfsndmsg
    <3>3. i \in Nat /\ n \in Int
      BY <1>1
    <3> QED
      BY <1>0, <3>1, <3>2, <3>3
  <2>2. RfAsked(RfCall(op, i, "", <<>>, n))
    BY <2>1, RfCallIs
  <2> QED
    BY <1>5, <2>2
<1>6. CASE \E n \in RfName \cup RfBad, md \in RfModes : c = RfCall("open", 0, n, md, 0)
  <2>1. PICK n \in RfName \cup RfBad, md \in RfModes : c = RfCall("open", 0, n, md, 0)
    BY <1>6
  <2> QED
    BY <1>2, <2>1
<1>7. CASE \E op \in Rfsndmsg \cup {"size"}, n \in RfName \cup RfBad : c = RfCall(op, 0, n, <<>>, 0)
  BY <1>3, <1>7
<1>8. ASSUME NEW i \in Rfl, c \in RfCallsOn(i)
      PROVE  RfAsked(c)
  <2>1. \/ \E n \in RfLens : c = Reading(i, n) \/ c = Writing(i, n)
        \/ c = Rflgetc(i) \/ c = Rflputc(i) \/ c = RfCall("close", i, "", <<>>, 0)
        \/ \E n \in 0 .. RfMaxPos : c = RfCall("seek", i, "", <<>>, n)
    BY <1>8 DEF RfCallsOn
  <2>2. CASE \E n \in RfLens : c = Reading(i, n) \/ c = Writing(i, n)
    BY <1>4, <2>2
  <2>3. CASE c = Rflgetc(i) \/ c = Rflputc(i)
    BY <1>4, <2>3 DEF Rflgetc, Rflputc
  <2>4. CASE c = RfCall("close", i, "", <<>>, 0)
    BY <1>1, <1>5, <2>4
  <2>5. CASE \E n \in 0 .. RfMaxPos : c = RfCall("seek", i, "", <<>>, n)
    BY <1>1, <1>5, <2>5
  <2> QED
    BY <2>1, <2>2, <2>3, <2>4, <2>5
<1>9. \/ \E n \in RfName \cup RfBad, md \in RfModes : c = RfCall("open", 0, n, md, 0)
      \/ \E op \in Rfsndmsg \cup {"size"}, n \in RfName \cup RfBad : c = RfCall(op, 0, n, <<>>, 0)
      \/ \E i \in Rfl : c \in RfCallsOn(i)
  BY DEF RfCalls
<1> QED
  BY <1>6, <1>7, <1>8, <1>9

LEMMA BeginsKeep ==
  ASSUME RfInv, NEW p \in RfProc, NEW c \in RfCalls, RfBegin(p, c)
  PROVE  RfInv'
<1>1. RfTypes /\ RfMutexed /\ RfNumbers /\ RfKept
  BY DEF RfInv
<1>2. UNCHANGED <<rfltab, rfseq, rfexch, rfnet, files, sure, rfread>> /\ rfcall' = [rfcall EXCEPT ![p] = c]
  BY DEF RfBegin
<1>3. RfNumbers' /\ RfKept'
  BY <1>1, <1>2, RfStill
<1>4. RfMutexed'
  BY <1>1, RfCallsAre, BeginKeepsMutex DEF RfAsked
<1>5. rfcall' \in [RfProc -> RfCallT] /\ \A q \in RfProc : RfCallFits(rfcall'[q])
  BY <1>1, <1>2, RfCallsAre DEF RfTypes, RfAsked
<1>6. RfTypes'
  BY <1>1, <1>2, <1>5 DEF RfTypes
<1> QED
  BY <1>3, <1>4, <1>6 DEF RfInv

\* A call that ends without asking the server.
LEMMA LeavesKeeps ==
  ASSUME RfInv, NEW p \in RfProc, Has(p), Leaves(p), UNCHANGED <<rfseq, rfexch, rfnet, files, sure, rfread>>,
         rfltab' \in [Rfl -> [state : {"free", "used"}, name : RfKnown, mode : RfBits, pos : Nat]],
         \A i \in Rfl : rfltab'[i].name = rfltab[i].name /\ (rfltab'[i].state = "used" => rfltab[i].state = "used")
  PROVE  RfInv'
<1>1. RfTypes /\ RfMutexed /\ RfNumbers /\ RfKept
  BY DEF RfInv
<1>2. rfexch = RfNone /\ p \in InRf /\ ~Queued(rfmutex, p)
  BY <1>1, RfHasAlone DEF Has
<1>3. RfMutexed'
  BY <1>1, <1>2, LeavesKeepsMutex
<1>4. RfNumbers' /\ RfKept'
  BY <1>1, RfStill
<1>5. rfcall' \in [RfProc -> RfCallT] /\ \A q \in RfProc : RfCallFits(rfcall'[q])
  BY <1>1, RfCallLeaves
<1>6. RfTypes'
  BY <1>1, <1>2, <1>5 DEF RfTypes
<1> QED
  BY <1>3, <1>4, <1>6 DEF RfInv

LEMMA OwnCallsKeep ==
  ASSUME RfInv, NEW p \in RfProc, RfReturnsError(p) \/ Rflseek(p) \/ Rflclose(p)
  PROVE  RfInv'
<1>1. RfTypes
  BY DEF RfInv
<1>2. CASE RfReturnsError(p)
  <2>1. Has(p) /\ Leaves(p) /\ UNCHANGED <<rfltab, rfseq, rfexch, rfnet, files, sure, rfread>>
    BY <1>2 DEF RfReturnsError
  <2> QED
    BY <1>1, <2>1, LeavesKeeps DEF RfTypes
<1>3. CASE Rflseek(p)
  <2>1. /\ Has(p) /\ Leaves(p) /\ UNCHANGED <<rfseq, rfexch, rfnet, files, sure, rfread>>
        /\ rfcall[p].op = "seek" /\ rfltab' = [rfltab EXCEPT ![rfcall[p].dev].pos = rfcall[p].len]
    BY <1>3 DEF Rflseek
  <2>2. rfcall[p].dev \in Rfl /\ rfcall[p].len \in Nat
    BY <1>1, <2>1 DEF RfTypes, RfCallFits
  <2>3. /\ rfltab' \in [Rfl -> [state : {"free", "used"}, name : RfKnown, mode : RfBits, pos : Nat]]
        /\ \A i \in Rfl : rfltab'[i].name = rfltab[i].name /\ rfltab'[i].state = rfltab[i].state
    BY <1>1, <2>1, <2>2 DEF RfTypes
  <2> QED
    BY <2>1, <2>3, LeavesKeeps
<1>4. CASE Rflclose(p)
  <2>1. /\ Has(p) /\ Leaves(p) /\ UNCHANGED <<rfseq, rfexch, rfnet, files, sure, rfread>>
        /\ rfcall[p].op = "close" /\ rfltab' = [rfltab EXCEPT ![rfcall[p].dev].state = "free"]
    BY <1>4 DEF Rflclose
  <2>2. rfcall[p].dev \in Rfl
    BY <1>1, <2>1 DEF RfTypes, RfCallFits
  <2>3. /\ rfltab' \in [Rfl -> [state : {"free", "used"}, name : RfKnown, mode : RfBits, pos : Nat]]
        /\ \A i \in Rfl : /\ rfltab'[i].name = rfltab[i].name
                          /\ rfltab'[i].state = "used" => rfltab[i].state = "used"
    BY <1>1, <2>1, <2>2 DEF RfTypes
  <2> QED
    BY <2>1, <2>3, LeavesKeeps
<1> QED
  BY <1>2, <1>3, <1>4

LEMMA ModeBits ==
  ASSUME NEW mode
  PROVE  Rfsgetmode(mode) \in RfBits
  BY DEF Rfsgetmode, Getmode, Legal, Bits, BadMode, RfBits

\* What is asked of the server names a file that can be used.
LEMMA AskedIs ==
  ASSUME RfTypes, NEW p \in RfProc, Has(p), rfcall[p].op \notin {"seek", "close"}, ~RfRefused(rfcall[p]),
         NEW slot, slot = IF rfcall[p].op = "open" THEN Min(FreeRfl) ELSE rfcall[p].dev,
         NEW m, m = RfRequest(rfcall[p], slot), rfcall[p].op = "write" => m.pos + m.len <= RfMaxPos
  PROVE  /\ m \in Requests /\ m.op = rfcall[p].op /\ m.slot = slot /\ m.seq = rfseq
         /\ rfcall[p].op = "open" => /\ slot \in Rfl /\ rfltab[slot].state = "free"
                                     /\ rfcall[p].name \in RfName /\ m.mode \in RfBits
<1> DEFINE c == rfcall[p]
<1>1. c \in RfCallT /\ RfCallFits(c) /\ c.at = "mutex" /\ c # RfIdle
  <2>1. c \in RfCallT /\ RfCallFits(c) /\ c.at = "mutex"
    BY DEF RfTypes, Has
  <2> QED
    BY <2>1, IdleIs
<1> DEFINE f == rfltab[IF c.op = "open" THEN slot ELSE c.dev]
<1>2. /\ m.kind = "request" /\ m.op = c.op /\ m.seq = rfseq /\ m.slot = slot
      /\ m.name = (IF c.op \in {"read", "write"} THEN f.name ELSE c.name)
      /\ m.mode = (IF c.op = "open" THEN Rfsgetmode(c.mode) ELSE {})
      /\ m.pos = (IF c.op \in {"read", "write"} THEN f.pos ELSE 0) /\ m.len = c.len
      /\ m = [kind |-> m.kind, op |-> m.op, seq |-> m.seq, slot |-> m.slot, name |-> m.name,
              mode |-> m.mode, pos |-> m.pos, len |-> m.len]
  BY DEF RfRequest
<1>3. c.op \in RfOps
  <2>1. c.op # "none"
    BY <1>1 DEF RfCallFits
  <2> QED
    BY <1>1, <2>1 DEF RfCallT
<1>4. c.op = "open" => slot \in Rfl /\ rfltab[slot].state = "free" /\ slot \in Nat
  <2> SUFFICES ASSUME c.op = "open"
               PROVE  slot \in Rfl /\ rfltab[slot].state = "free" /\ slot \in Nat
    OBVIOUS
  <2>1. FreeRfl # {} /\ FreeRfl \subseteq Nat /\ slot = Min(FreeRfl)
    BY RemoteFilesAssumption DEF RfRefused, FreeRfl
  <2>2. slot \in FreeRfl
    BY <2>1, Least DEF Min
  <2> QED
    BY <2>1, <2>2 DEF FreeRfl
<1>5. c.op \in {"open", "size"} \cup Rfsndmsg => c.name \in RfName
  <2> SUFFICES ASSUME c.op \in {"open", "size"} \cup Rfsndmsg
               PROVE  c.name \in RfName
    OBVIOUS
  <2>1. c.name \in RfName \cup RfBad
    BY <1>1 DEF RfCallFits
  <2>2. c.name \notin RfBad
    BY DEF RfRefused, Rfsndmsg
  <2> QED
    BY <2>1, <2>2
<1>6. c.op \in {"read", "write"} => /\ c.dev \in Rfl /\ c.dev \in Nat /\ rfltab[c.dev].name \in RfName
                                    /\ rfltab[c.dev].pos \in Nat /\ c.len > 0 /\ c.len \in Nat
  <2> SUFFICES ASSUME c.op \in {"read", "write"}
               PROVE  /\ c.dev \in Rfl /\ c.dev \in Nat /\ rfltab[c.dev].name \in RfName
                      /\ rfltab[c.dev].pos \in Nat /\ c.len > 0 /\ c.len \in Nat
    OBVIOUS
  <2>1. c.dev \in Rfl /\ c.dev \in Nat /\ c.len \in Int
    BY <1>1 DEF RfCallFits, RfCallT
  <2>2. ~(c.len <= 0) /\ rfltab[c.dev].state # "free"
    BY DEF RfRefused
  <2>3. rfltab[c.dev].state = "used" /\ rfltab[c.dev].pos \in Nat
    BY <2>1, <2>2 DEF RfTypes
  <2> QED
    BY <2>1, <2>2, <2>3 DEF RfTypes
<1>7. m.name \in RfName /\ m.pos \in Nat /\ m.len \in Nat
  <2>1. CASE c.op \in {"read", "write"}
    BY <1>2, <1>6, <2>1
  <2>2. CASE c.op \notin {"read", "write"}
    <3>1. c.op \in {"open", "size"} \cup Rfsndmsg
      BY <1>3, <2>2 DEF RfOps
    <3>2. c.len \in Nat
      BY <1>1, <2>2 DEF RfCallFits
    <3> QED
      BY <1>2, <1>5, <2>2, <3>1, <3>2
  <2> QED
    BY <2>1, <2>2
<1>8. m.mode \in RfBits
  BY <1>2, ModeBits DEF RfBits
<1>9. m.slot \in Nat /\ m.seq \in Nat \ {0}
  BY <1>1, <1>2, <1>4 DEF RfCallT, RfTypes
<1>10. m.op = "write" => m.len > 0 /\ m.pos + m.len <= RfMaxPos
  BY <1>2, <1>6
<1>11. m \in Requests
  <2>1. m \in [kind : {"request"}, op : RfOps, seq : Nat \ {0}, slot : Nat, name : RfName, mode : RfBits,
               pos : Nat, len : Nat]
    <3> HIDE DEF c, f
    <3> QED
      BY <1>2, <1>3, <1>7, <1>8, <1>9
  <2> QED
    BY <1>10, <2>1 DEF Requests
<1> QED
  BY <1>2, <1>4, <1>5, <1>8, <1>11

LEMMA AskingKeeps ==
  ASSUME RfInv, NEW p \in RfProc, RfAsks(p)
  PROVE  RfInv'
<1> DEFINE c == rfcall[p]
           slot == IF c.op = "open" THEN Min(FreeRfl) ELSE c.dev
           m == RfRequest(c, slot)
<1>1. RfTypes /\ RfMutexed /\ RfNumbers /\ RfKept
  BY DEF RfInv
<1>2. /\ Has(p) /\ c.op \notin {"seek", "close"} /\ ~RfRefused(c)
      /\ c.op = "write" => m.pos + m.len <= RfMaxPos
      /\ rfseq' = rfseq + 1
      /\ rfexch' = [seq |-> rfseq, tries |-> 1, by |-> p, ask |-> m]
      /\ rfnet' = rfnet \cup {m}
      /\ rfcall' = [rfcall EXCEPT ![p].at = "reply"]
      /\ rfltab' = IF c.op = "open"
                   THEN [rfltab EXCEPT ![slot].name = c.name, ![slot].mode = m.mode] ELSE rfltab
      /\ UNCHANGED <<rfmutex, files, sure, rfread>>
  BY DEF RfAsks
<1>3. /\ m \in Requests /\ m.op = c.op /\ m.slot = slot /\ m.seq = rfseq
      /\ c.op = "open" => /\ slot \in Rfl /\ rfltab[slot].state = "free"
                          /\ c.name \in RfName /\ m.mode \in RfBits
  BY <1>1, <1>2, AskedIs
<1>4. rfexch = RfNone /\ p \in InRf /\ ~Queued(rfmutex, p) /\ c.at = "mutex"
  BY <1>1, <1>2, RfHasAlone DEF Has
<1> HIDE DEF m, slot
<1>5. /\ rfexch' \in RfExchT /\ rfnet' \subseteq Requests \cup Replies /\ rfseq' \in Nat \ {0}
      /\ RfNumbers' /\ RfKept'
  BY <1>1, <1>2, <1>3, <1>4, AsksKeeps
<1>6. rfexch' # RfNone /\ rfexch'.by = p /\ rfexch'.ask = m
  BY <1>2, <1>5, ExchIsOne
<1>7. /\ rfltab' \in [Rfl -> [state : {"free", "used"}, name : RfKnown, mode : RfBits, pos : Nat]]
      /\ \A i \in Rfl : rfltab'[i].state = "used" => rfltab'[i].name \in RfName
      /\ c.op = "open" => rfltab'[slot].name \in RfName
  <2>1. CASE c.op = "open"
    <3>1. rfltab' = [rfltab EXCEPT ![slot].name = c.name, ![slot].mode = m.mode]
      BY <1>2, <2>1
    <3>2. c.name \in RfKnown
      BY <1>3, <2>1 DEF RfKnown
    <3> DEFINE X == [state : {"free", "used"}, name : RfKnown, mode : RfBits, pos : Nat]
               e == [rfltab[slot] EXCEPT !.name = c.name, !.mode = m.mode]
    <3>3. slot \in Rfl /\ rfltab \in [Rfl -> X] /\ rfltab[slot] \in X /\ m.mode \in RfBits
      BY <1>1, <1>3, <2>1 DEF RfTypes
    <3>4. e \in X /\ e.name = c.name
      BY <3>2, <3>3
    <3>5. rfltab' = [rfltab EXCEPT ![slot] = e]
      BY <3>1, <3>3
    <3> HIDE DEF e, X
    <3>6. rfltab' \in [Rfl -> X] /\ \A i \in Rfl : rfltab'[i] = IF i = slot THEN e ELSE rfltab[i]
      BY <3>3, <3>4, <3>5
    <3> QED
      BY <1>1, <1>3, <2>1, <3>3, <3>4, <3>6 DEF RfTypes, X
  <2>2. CASE c.op # "open"
    BY <1>1, <1>2, <2>2 DEF RfTypes
  <2> QED
    BY <2>1, <2>2
<1>8. rfcall'[p] \in RfCallT /\ RfCallFits(rfcall'[p]) /\ rfcall'[p].at = "reply"
  <2>1. rfcall[p] \in RfCallT /\ RfCallFits(rfcall[p])
    BY <1>1 DEF RfTypes
  <2> DEFINE d == [rfcall[p] EXCEPT !.at = "reply"]
  <2>2. rfcall'[p] = d
    BY <1>1, <1>2 DEF RfTypes
  <2>3. /\ d \in RfCallT /\ d.at = "reply" /\ d.op = rfcall[p].op /\ d.dev = rfcall[p].dev
        /\ d.name = rfcall[p].name /\ d.len = rfcall[p].len
    BY <2>1 DEF RfCallT
  <2>4. d # RfIdle /\ rfcall[p] # RfIdle
    BY <1>4, <2>3, IdleIs
  <2> HIDE DEF d
  <2>5. RfCallFits(d)
    BY <2>1, <2>3, <2>4 DEF RfCallFits
  <2> QED
    BY <2>2, <2>3, <2>5
<1>9. \A q \in RfProc : q # p => rfcall'[q] = rfcall[q]
  BY <1>1, <1>2 DEF RfTypes
<1>10. rfcall' \in [RfProc -> RfCallT] /\ \A q \in RfProc : RfCallFits(rfcall'[q])
  BY <1>1, <1>2, <1>8, <1>9 DEF RfTypes
<1>11. RfTypes'
  <2>1. rfexch'.ask.op = "open" => rfexch'.ask.slot \in Rfl /\ rfltab'[rfexch'.ask.slot].name \in RfName
    BY <1>3, <1>6, <1>7
  <2> QED
    BY <1>1, <1>2, <1>5, <1>7, <1>10, <2>1 DEF RfTypes
<1>12. RfMutexed'
  <2>1. InRf' = InRf
    BY <1>4, <1>8, <1>9 DEF InRf
  <2>2. ToSet(rfmutex'.queue) \subseteq {q \in RfProc : rfcall'[q].at = "mutex"}
    BY <1>1, <1>2, <1>4, <1>9 DEF RfMutexed, Queued
  <2>3. \A q \in RfProc : rfcall[q].at # "reply"
    BY <1>1, <1>4 DEF RfMutexed
  <2>4. \A q \in RfProc : rfcall'[q].at = "reply" <=> rfexch' # RfNone /\ rfexch'.by = q
    BY <1>6, <1>8, <1>9, <2>3
  <2> QED
    BY <1>1, <1>2, <2>1, <2>2, <2>4 DEF RfMutexed
<1> QED
  BY <1>5, <1>11, <1>12 DEF RfInv

LEMMA TriesKeepInv ==
  ASSUME RfInv, RfTimeout \/ \E m \in rfnet : RfIgnore(m)
  PROVE  RfInv'
<1>1. RfTypes /\ RfMutexed /\ RfNumbers /\ RfKept
  BY DEF RfInv
<1>2. /\ RfTries /\ rfexch.ask \in rfnet' /\ rfnet' \subseteq rfnet \cup {rfexch.ask}
      /\ UNCHANGED <<rfltab, rfmutex, rfseq, rfcall, files, sure, rfread>>
  BY DEF RfTimeout, RfIgnore
<1>3. /\ rfexch' \in RfExchT /\ rfexch'.by = rfexch.by /\ rfexch'.ask = rfexch.ask
      /\ rfnet' \subseteq Requests \cup Replies /\ RfNumbers' /\ RfKept'
  BY <1>1, <1>2, TriesKeep
<1>4. rfexch # RfNone /\ rfexch' # RfNone
  BY <1>2, <1>3, ExchIsOne DEF RfTries
<1>5. RfTypes'
  BY <1>1, <1>2, <1>3, <1>4 DEF RfTypes
<1>6. RfMutexed'
  BY <1>1, <1>2, <1>3, <1>4 DEF RfMutexed, InRf
<1> QED
  BY <1>3, <1>5, <1>6 DEF RfInv

LEMMA GivesUpKeeps ==
  ASSUME RfInv, RfGivesUp
  PROVE  RfInv'
<1>1. RfTypes /\ RfMutexed /\ RfNumbers /\ RfKept
  BY DEF RfInv
<1>2. /\ rfexch # RfNone /\ rfexch' = RfNone /\ Leaves(rfexch.by) /\ sure' = Unsure(rfexch.ask)
      /\ UNCHANGED <<rfltab, rfseq, rfnet, files, rfread>>
  BY DEF RfGivesUp
<1>3. /\ sure' \in [RfName -> Seq(Int)] /\ \A n \in RfName : Len(sure'[n]) <= RfMaxPos
      /\ rfnet' \subseteq Requests \cup Replies /\ RfNumbers' /\ RfKept'
  BY <1>1, <1>2, BlurKeeps
<1>4. RfMutexed'
  BY <1>1, <1>2, RfByLeaves
<1>5. rfcall' \in [RfProc -> RfCallT] /\ \A q \in RfProc : RfCallFits(rfcall'[q])
  BY <1>1, <1>2, RfCallLeaves
<1>6. RfTypes'
  BY <1>1, <1>2, <1>3, <1>5 DEF RfTypes
<1> QED
  BY <1>3, <1>4, <1>6 DEF RfInv

-------------------------------------------------------------------------------
(* The remote files: the replies *)

LEMMA RfAnsweredIs ==
  ASSUME RfTypes, NEW m \in rfnet, RfAnswered(m)
  PROVE  /\ rfexch # RfNone /\ rfexch' = RfNone /\ Leaves(rfexch.by)
         /\ rfnet' = rfnet \ {m} /\ rfnet' \subseteq rfnet /\ UNCHANGED <<rfseq, files>>
         /\ m.kind = "reply" /\ m.seq = rfexch.seq /\ m.op = rfexch.ask.op /\ m \in Replies
         /\ rfexch.by \in RfProc /\ rfexch.ask \in Requests /\ rfexch.ask.name \in RfName
         /\ rfexch.ask.op \in RfOps /\ rfexch.ask.pos \in Nat /\ rfexch.ask.len \in Nat
<1>1. /\ rfexch # RfNone /\ rfexch' = RfNone /\ Leaves(rfexch.by)
      /\ rfnet' = rfnet \ {m} /\ UNCHANGED <<rfseq, files>>
      /\ m.kind = "reply" /\ m.seq = rfexch.seq /\ m.op = rfexch.ask.op
  BY DEF RfAnswered, RfAccepts
<1>2. m \in Replies
  BY <1>1, RfNetIs
<1> QED
  BY <1>1, <1>2, RfExchIs, RequestIs

\* The rest of an answer that keeps the files and their histories together.
LEMMA AnswerKeeps ==
  ASSUME RfInv, NEW m \in rfnet, RfAnswered(m),
         sure' \in [RfName -> Seq(Int)], \A n \in RfName : Len(sure'[n]) <= RfMaxPos,
         rfnet' \subseteq Requests \cup Replies, RfNumbers', RfKept',
         rfltab' \in [Rfl -> [state : {"free", "used"}, name : RfKnown, mode : RfBits, pos : Nat]],
         \A i \in Rfl : rfltab'[i].state = "used" => rfltab'[i].name \in RfName,
         rfread' \in [RfProc -> [data : Seq(Nat), want : Seq(Int)]]
  PROVE  RfInv'
<1>1. RfTypes /\ RfMutexed
  BY DEF RfInv
<1>2. rfexch # RfNone /\ rfexch' = RfNone /\ Leaves(rfexch.by) /\ UNCHANGED <<rfseq, files>>
  BY <1>1, RfAnsweredIs
<1>3. RfMutexed'
  BY <1>1, <1>2, RfByLeaves
<1>4. rfcall' \in [RfProc -> RfCallT] /\ \A q \in RfProc : RfCallFits(rfcall'[q])
  BY <1>1, <1>2, RfCallLeaves
<1>5. RfTypes'
  BY <1>1, <1>2, <1>4 DEF RfTypes
<1> QED
  BY <1>3, <1>5 DEF RfInv

LEMMA FailingKeeps ==
  ASSUME RfInv, NEW m \in rfnet, RfFails(m)
  PROVE  RfInv'
<1>1. RfTypes /\ RfNumbers /\ RfKept /\ RfAnswered(m) /\ UNCHANGED <<rfltab, rfread>>
  BY DEF RfInv, RfFails
<1>2. /\ sure' \in [RfName -> Seq(Int)] /\ \A n \in RfName : Len(sure'[n]) <= RfMaxPos
      /\ rfnet' \subseteq Requests \cup Replies /\ RfNumbers' /\ RfKept'
  BY <1>1, FailsKeeps
<1>3. /\ rfltab' \in [Rfl -> [state : {"free", "used"}, name : RfKnown, mode : RfBits, pos : Nat]]
      /\ \A i \in Rfl : rfltab'[i].state = "used" => rfltab'[i].name \in RfName
      /\ rfread' \in [RfProc -> [data : Seq(Nat), want : Seq(Int)]]
  BY <1>1 DEF RfTypes
<1> QED
  BY <1>1, <1>2, <1>3, AnswerKeeps

\* An answer that says that the request was executed.
LEMMA AnsweredKeeps ==
  ASSUME RfInv, NEW m \in rfnet, RfAnswered(m), m.ok, ReadsWhatWasWritten',
         sure' = [sure EXCEPT ![rfexch.ask.name] = RfAfter(rfexch.ask, @)],
         rfltab' \in [Rfl -> [state : {"free", "used"}, name : RfKnown, mode : RfBits, pos : Nat]],
         \A i \in Rfl : rfltab'[i].state = "used" => rfltab'[i].name \in RfName,
         rfread' \in [RfProc -> [data : Seq(Nat), want : Seq(Int)]]
  PROVE  RfInv'
<1>1. RfTypes /\ RfNumbers /\ RfKept
  BY DEF RfInv
<1>2. /\ rfexch # RfNone /\ rfexch' = RfNone /\ rfnet' \subseteq rfnet
      /\ m.kind = "reply" /\ m.seq = rfexch.seq /\ UNCHANGED <<rfseq, files>>
  BY <1>1, RfAnsweredIs
<1>3. /\ sure' \in [RfName -> Seq(Int)] /\ \A n \in RfName : Len(sure'[n]) <= RfMaxPos
      /\ rfnet' \subseteq Requests \cup Replies /\ RfNumbers' /\ RfKept'
  BY <1>1, <1>2, DoneKeeps
<1> QED
  BY <1>3, AnswerKeeps

\* The history does not change with a request that only reads.
LEMMA NothingSure ==
  ASSUME RfTypes, NEW a, a.name \in RfName, a.op \notin {"write", "trunc", "delete"}
  PROVE  [sure EXCEPT ![a.name] = RfAfter(a, @)] = sure
<1>1. RfAfter(a, sure[a.name]) = sure[a.name]
  BY DEF RfAfter
<1>2. sure = [n \in RfName |-> sure[n]]
  BY DEF RfTypes
<1> QED
  BY <1>1, <1>2

\* The place in an open file moves on by what was read or written.
LEMMA PosMoves ==
  ASSUME RfTypes, NEW i, NEW n \in Nat, rfltab' = [rfltab EXCEPT ![i].pos = @ + n]
  PROVE  /\ rfltab' \in [Rfl -> [state : {"free", "used"}, name : RfKnown, mode : RfBits, pos : Nat]]
         /\ \A j \in Rfl : rfltab'[j].state = "used" => rfltab'[j].name \in RfName
<1> DEFINE X == [state : {"free", "used"}, name : RfKnown, mode : RfBits, pos : Nat]
           e == [rfltab[i] EXCEPT !.pos = @ + n]
<1>1. rfltab \in [Rfl -> X] /\ \A j \in Rfl : rfltab[j].state = "used" => rfltab[j].name \in RfName
  BY DEF RfTypes
<1>2. CASE i \in Rfl
  <2>1. rfltab[i] \in X
    BY <1>1, <1>2
  <2>2. e \in X /\ e.state = rfltab[i].state /\ e.name = rfltab[i].name
    BY <2>1
  <2>3. rfltab' = [rfltab EXCEPT ![i] = e]
    OBVIOUS
  <2> HIDE DEF X, e
  <2>4. rfltab' \in [Rfl -> X] /\ \A j \in Rfl : rfltab'[j] = IF j = i THEN e ELSE rfltab[j]
    BY <1>1, <1>2, <2>2, <2>3
  <2> QED
    BY <1>1, <2>2, <2>4 DEF X
<1>3. CASE i \notin Rfl
  <2>1. rfltab' = rfltab
    BY <1>1, <1>3
  <2> QED
    BY <1>1, <2>1
<1> QED
  BY <1>2, <1>3

LEMMA OpenKeeps ==
  ASSUME RfInv, NEW m \in rfnet, Rfsopen(m)
  PROVE  RfInv'
<1> DEFINE i == rfexch.ask.slot
           X == [state : {"free", "used"}, name : RfKnown, mode : RfBits, pos : Nat]
           e == [rfltab[i] EXCEPT !.state = "used", !.pos = 0]
<1>1. /\ RfTypes /\ RfAnswered(m) /\ m.ok /\ m.op = "open" /\ UNCHANGED <<sure, rfread>>
      /\ rfltab' = [rfltab EXCEPT ![i].state = "used", ![i].pos = 0]
  BY DEF RfInv, Rfsopen
<1>2. rfexch # RfNone /\ rfexch.ask.op = "open" /\ rfexch.ask.name \in RfName
  BY <1>1, RfAnsweredIs
<1>3. i \in Rfl /\ rfltab[i].name \in RfName /\ rfltab \in [Rfl -> X] /\ rfltab[i] \in X
  BY <1>1, <1>2 DEF RfTypes
<1>4. e \in X /\ e.name = rfltab[i].name
  BY <1>3
<1>5. rfltab' = [rfltab EXCEPT ![i] = e]
  BY <1>1, <1>3
<1>6. sure' = [sure EXCEPT ![rfexch.ask.name] = RfAfter(rfexch.ask, @)]
  BY <1>1, <1>2, NothingSure
<1> HIDE DEF e, i
<1>7. /\ rfltab' \in [Rfl -> X]
      /\ \A j \in Rfl : rfltab'[j].state = "used" => rfltab'[j].name \in RfName
  <2>1. rfltab' \in [Rfl -> X] /\ \A j \in Rfl : rfltab'[j] = IF j = i THEN e ELSE rfltab[j]
    BY <1>3, <1>4, <1>5
  <2> QED
    BY <1>1, <1>3, <1>4, <2>1 DEF RfTypes
<1>8. ReadsWhatWasWritten' /\ rfread' \in [RfProc -> [data : Seq(Nat), want : Seq(Int)]]
  BY <1>1 DEF RfInv, RfKept, ReadsWhatWasWritten, RfTypes
<1> QED
  BY <1>1, <1>6, <1>7, <1>8, AnsweredKeeps

LEMMA ReadKeeps ==
  ASSUME RfInv, NEW m \in rfnet, Rflread(m)
  PROVE  RfInv'
<1> DEFINE a == rfexch.ask
           s == sure[a.name]
           w == Slice(s, a.pos, a.len)
<1>1. /\ RfTypes /\ RfKept /\ RfAnswered(m) /\ m.ok /\ m.op = "read" /\ UNCHANGED sure
      /\ rfltab' = [rfltab EXCEPT ![a.slot].pos = @ + Len(m.data)]
      /\ rfread' = [rfread EXCEPT ![rfexch.by] = [data |-> m.data, want |-> w]]
  BY DEF RfInv, Rflread
<1>2. /\ rfexch # RfNone /\ m.kind = "reply" /\ m.seq = rfexch.seq /\ m \in Replies
      /\ a.op = "read" /\ a.name \in RfName /\ a.pos \in Nat /\ a.len \in Nat /\ rfexch.by \in RfProc
  BY <1>1, RfAnsweredIs
<1>3. m.data \in Seq(Nat) /\ Len(m.data) \in Nat
  BY <1>2 DEF Replies
<1>4. w \in Seq(Int)
  <2>1. s \in Seq(Int)
    BY <1>1, <1>2 DEF RfTypes
  <2> HIDE DEF s
  <2> QED
    BY <1>2, <2>1, SliceIs DEF HasSlice
<1>5. RfReads(m.data, w)
  BY <1>1, <1>2 DEF RfKept, RfAnswer
<1>6. sure' = [sure EXCEPT ![a.name] = RfAfter(a, @)]
  BY <1>1, <1>2, NothingSure
<1>7. /\ rfltab' \in [Rfl -> [state : {"free", "used"}, name : RfKnown, mode : RfBits, pos : Nat]]
      /\ \A j \in Rfl : rfltab'[j].state = "used" => rfltab'[j].name \in RfName
  BY <1>1, <1>3, PosMoves
<1> HIDE DEF w
<1>8. rfread' \in [RfProc -> [data : Seq(Nat), want : Seq(Int)]]
  BY <1>1, <1>2, <1>3, <1>4 DEF RfTypes
<1>9. ReadsWhatWasWritten'
  <2>1. \A p \in RfProc : p # rfexch.by => rfread'[p] = rfread[p]
    BY <1>1 DEF RfTypes
  <2>2. rfread'[rfexch.by].data = m.data /\ rfread'[rfexch.by].want = w
    BY <1>1, <1>2 DEF RfTypes
  <2>3. ASSUME NEW p \in RfProc
        PROVE  RfReads(rfread'[p].data, rfread'[p].want)
    <3>1. CASE p = rfexch.by
      BY <1>5, <2>2, <3>1
    <3>2. CASE p # rfexch.by
      BY <1>1, <2>1, <3>2 DEF RfKept, ReadsWhatWasWritten, RfReads
    <3> QED
      BY <3>1, <3>2
  <2> QED
    BY <2>3 DEF ReadsWhatWasWritten, RfReads
<1> QED
  BY <1>1, <1>6, <1>7, <1>8, <1>9, AnsweredKeeps

LEMMA WriteKeeps ==
  ASSUME RfInv, NEW m \in rfnet, Rflwrite(m)
  PROVE  RfInv'
<1> DEFINE a == rfexch.ask
<1>1. /\ RfTypes /\ RfKept /\ RfAnswered(m) /\ m.ok /\ m.op = "write" /\ UNCHANGED rfread
      /\ rfltab' = [rfltab EXCEPT ![a.slot].pos = @ + m.len]
      /\ sure' = [sure EXCEPT ![a.name] = Written(@, a.pos, a.len, a.seq)]
  BY DEF RfInv, Rflwrite
<1>2. m \in Replies /\ a.op = "write"
  BY <1>1, RfAnsweredIs
<1>3. m.len \in Nat
  BY <1>2 DEF Replies
<1>4. sure' = [sure EXCEPT ![a.name] = RfAfter(a, @)]
  BY <1>1, <1>2 DEF RfAfter
<1>5. /\ rfltab' \in [Rfl -> [state : {"free", "used"}, name : RfKnown, mode : RfBits, pos : Nat]]
      /\ \A j \in Rfl : rfltab'[j].state = "used" => rfltab'[j].name \in RfName
  BY <1>1, <1>3, PosMoves
<1>6. ReadsWhatWasWritten' /\ rfread' \in [RfProc -> [data : Seq(Nat), want : Seq(Int)]]
  BY <1>1 DEF RfKept, ReadsWhatWasWritten, RfTypes
<1> QED
  BY <1>1, <1>4, <1>5, <1>6, AnsweredKeeps

LEMMA ControlKeeps ==
  ASSUME RfInv, NEW m \in rfnet, Rfscontrol(m)
  PROVE  RfInv'
<1> DEFINE a == rfexch.ask
<1>1. /\ RfTypes /\ RfKept /\ RfAnswered(m) /\ m.ok /\ UNCHANGED <<rfltab, rfread>>
      /\ m.op \in Rfsndmsg \cup {"size"}
      /\ sure' = IF m.op \in {"delete", "trunc"} THEN [sure EXCEPT ![a.name] = <<>>] ELSE sure
  BY DEF RfInv, Rfscontrol
<1>2. a.op = m.op /\ a.name \in RfName
  BY <1>1, RfAnsweredIs
<1>3. sure' = [sure EXCEPT ![a.name] = RfAfter(a, @)]
  <2>1. CASE m.op \in {"delete", "trunc"}
    BY <1>1, <1>2, <2>1 DEF RfAfter
  <2>2. CASE m.op \notin {"delete", "trunc"}
    <3>1. a.op \notin {"write", "trunc", "delete"}
      BY <1>1, <1>2, <2>2 DEF Rfsndmsg
    <3> QED
      BY <1>1, <1>2, <2>2, <3>1, NothingSure
  <2> QED
    BY <2>1, <2>2
<1>4. /\ rfltab' \in [Rfl -> [state : {"free", "used"}, name : RfKnown, mode : RfBits, pos : Nat]]
      /\ \A j \in Rfl : rfltab'[j].state = "used" => rfltab'[j].name \in RfName
      /\ rfread' \in [RfProc -> [data : Seq(Nat), want : Seq(Int)]]
  BY <1>1 DEF RfTypes
<1>5. ReadsWhatWasWritten'
  BY <1>1 DEF RfKept, ReadsWhatWasWritten
<1> QED
  BY <1>1, <1>3, <1>4, <1>5, AnsweredKeeps

-------------------------------------------------------------------------------
(* The remote files: the theorems *)

LEMMA RfInitHolds ==
  ASSUME RfInit
  PROVE  RfInv
<1>1. RfTypes
  <2>1. RfIdle \in RfCallT /\ RfCallFits(RfIdle)
    BY DEF RfCallT, RfIdle, RfCallFits, RfKnown, Rfsndmsg
  <2>2. RfMaxPos \in Nat
    BY RemoteFilesAssumption
  <2>3. /\ rfltab \in [Rfl -> [state : {"free", "used"}, name : RfKnown, mode : RfBits, pos : Nat]]
        /\ \A i \in Rfl : rfltab[i].state # "used"
    BY DEF RfInit, RfKnown, RfBits
  <2>4. rfcall \in [RfProc -> RfCallT] /\ \A p \in RfProc : RfCallFits(rfcall[p])
    BY <2>1 DEF RfInit
  <2>5. files \in [RfName -> Bytes] /\ sure \in [RfName -> Seq(Int)] /\ \A n \in RfName : Len(sure[n]) <= RfMaxPos
    <3>1. <<>> \in Seq(Int) /\ Len(<<>>) <= RfMaxPos
      BY <2>2
    <3> QED
      BY <3>1, BytesAre DEF RfInit
  <2>6. rfread \in [RfProc -> [data : Seq(Nat), want : Seq(Int)]]
    <3>1. rfread = [p \in RfProc |-> [data |-> <<>>, want |-> <<>>]]
      BY DEF RfInit
    <3>2. <<>> \in Seq(Nat) /\ <<>> \in Seq(Int)
      OBVIOUS
    <3> QED
      BY <3>1, <3>2
  <2>7. rfseq \in Nat \ {0} /\ rfexch = RfNone /\ rfnet = {}
    <3>1. rfseq = 1 /\ rfexch = RfNone /\ rfnet = {}
      BY DEF RfInit
    <3> QED
      BY <3>1
  <2> QED
    BY <2>3, <2>4, <2>5, <2>6, <2>7 DEF RfTypes
<1>2. RfMutexed
  <2>1. InRf = {} /\ \A p \in RfProc : rfcall[p].at = ""
    BY IdleIs DEF RfInit, InRf
  <2>2. IsFiniteSet(RfProc) /\ rfmutex = NewSem(1) /\ rfexch = RfNone
    BY RemoteFilesAssumption DEF RfInit
  <2>3. /\ SoundSem(RfProc, rfmutex) /\ rfmutex.ok /\ ToSet(rfmutex.queue) = {} /\ Units({}, rfmutex) = 1
    BY <2>2, SemFresh
  <2> QED
    BY <2>1, <2>2, <2>3 DEF RfMutexed
<1>3. RfNumbers
  BY DEF RfInit, RfNumbers
<1>4. RfKept
  <2>1. RfLate = {} /\ rfexch = RfNone
    BY DEF RfInit, RfLate
  <2>2. \A n \in RfName : Agrees(files[n], sure[n])
    <3>1. Agrees(Absent, <<>>)
      BY BytesAre DEF Agrees
    <3> QED
      BY <3>1 DEF RfInit
  <2>3. ReadsWhatWasWritten
    BY DEF RfInit, ReadsWhatWasWritten
  <2> QED
    BY <2>1, <2>2, <2>3 DEF RfKept
<1> QED
  BY <1>1, <1>2, <1>3, <1>4 DEF RfInv

LEMMA RfStep ==
  ASSUME "late" \notin RfHazards, RfInv, [RfNext]_rfVars
  PROVE  RfInv'
<1>1. ASSUME NEW p \in RfProc, NEW c \in RfCalls, RfBegin(p, c)
      PROVE  RfInv'
  BY <1>1, BeginsKeep
<1>2. ASSUME NEW p \in RfProc, RfReturnsError(p) \/ Rflseek(p) \/ Rflclose(p)
      PROVE  RfInv'
  BY <1>2, OwnCallsKeep
<1>3. ASSUME NEW p \in RfProc, RfAsks(p)
      PROVE  RfInv'
  BY <1>3, AskingKeeps
<1>4. CASE RfTimeout \/ \E m \in rfnet : RfIgnore(m)
  BY <1>4, TriesKeepInv
<1>5. CASE RfGivesUp
  BY <1>5, GivesUpKeeps
<1>6. ASSUME NEW m \in rfnet, RfServer(m)
      PROVE  RfInv'
  BY <1>6, ServerKeeps DEF RfInv
<1>7. ASSUME NEW m \in rfnet, RfFails(m) \/ Rfsopen(m) \/ Rflread(m) \/ Rflwrite(m) \/ Rfscontrol(m)
      PROVE  RfInv'
  BY <1>7, FailingKeeps, OpenKeeps, ReadKeeps, WriteKeeps, ControlKeeps
<1>8. CASE UNCHANGED rfVars
  <2>1. UNCHANGED <<rfltab, rfmutex, rfseq, rfcall, rfexch, rfnet, files, sure, rfread>>
    BY <1>8 DEF rfVars
  <2>2. RfTypes'
    BY <2>1 DEF RfInv, RfTypes
  <2>3. RfMutexed'
    BY <2>1 DEF RfInv, RfMutexed, InRf
  <2>4. RfNumbers' /\ RfKept'
    BY <2>1, RfStill DEF RfInv
  <2> QED
    BY <2>2, <2>3, <2>4 DEF RfInv
<1>9. RfNext \/ UNCHANGED rfVars
  OBVIOUS
<1> QED
  BY <1>1, <1>2, <1>3, <1>4, <1>5, <1>6, <1>7, <1>8, <1>9 DEF RfNext

\* Where changes do not overtake each other on their way: one call at a time
\* exchanges datagrams with the server of remote files.  A file of the server has
\* the bytes that the acknowledged calls leave, or those that the request under way
\* will leave; and a request that arrives late, after its exchange was given up, no
\* longer changes a byte that anybody is sure of.
THEOREM RemoteFilesInvariant ==
  ASSUME "late" \notin RfHazards
  PROVE  RfSpec => []RfInv
<1>1. RfInit => RfInv
  BY RfInitHolds
<1>2. RfInv /\ [RfNext]_rfVars => RfInv'
  BY RfStep
<1> QED
  BY <1>1, <1>2, PTL DEF RfSpec

\* Then, whatever datagrams are lost or sent twice, and however late replies and
\* reads come, a read returns the bytes that acknowledged writes have left in the
\* file; only where a write or a truncation was given up may it return others.
THEOREM ReadsStayRight ==
  ASSUME "late" \notin RfHazards
  PROVE  RfSpec => []ReadsWhatWasWritten
<1>1. RfInv => ReadsWhatWasWritten
  BY DEF RfInv, RfKept
<1> QED
  BY <1>1, RemoteFilesInvariant, PTL

===============================================================================
