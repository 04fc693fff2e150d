------------------------------ MODULE PortsProofs ------------------------------
(***************************************************************************)
(* Buffers and ports: the proofs of CountsAccount and of BufferOwnership.  *)
(*                                                                         *)
(* Neither is inductive by itself.  AccountsInv says of each semaphore     *)
(* what its count and its queue mean, who waits on it and in which life of *)
(* its port, how far a process has cleared a port, and where the message   *)
(* nodes are.  It is kept by every step, CountsAccount follows from it,    *)
(* and with it BufferOwnership is kept: each step takes buffers from one   *)
(* place to another.                                                       *)
(***************************************************************************)
EXTENDS Ports, CommonProofs

-------------------------------------------------------------------------------
(* The invariant *)

Sem == SemOf(Client)
Sound(s) == SoundSem(Client, s)

Clearing == {"reset", "reset2", "reset3", "delete", "delete2", "delete3"}
Calls == {"idle", "getbuf", "send", "recv"} \cup Clearing

Made == {b \in Buf : b[1] < nbpools}

PortTypes ==
  /\ nbpools \in Nat /\ nbpools <= Cardinality(Pool)
  /\ bpnext \in [Pool -> Seq(Made)] /\ bpsem \in [Pool -> Sem]
  /\ ptstate \in [Port -> {"free", "alloc", "limbo"}]
  /\ ptseq \in [Port -> Nat] /\ ptmaxcnt \in [Port -> Nat]
  /\ ptlist \in [Port -> Seq(Made)] /\ ptssem \in [Port -> Sem] /\ ptrsem \in [Port -> Sem]
  /\ ptfree \in Nat
  /\ doing \in [Client -> Calls] /\ on \in [Client -> Nat] /\ seq \in [Client -> Nat]
  /\ holds \in [Client -> Made \cup {NoBuf}] /\ walk \in [Client -> Seq(Made)]

\* Who is in a call that waits: on a pool; on a port, in its present life or in an
\* earlier one.
Blocking == {"getbuf", "send", "recv"}
Waiting(what, x) == {p \in Client : doing[p] = what /\ on[p] = x}
Present(what, i) == {p \in Waiting(what, i) : seq[p] = ptseq[i]}

\* A pool's semaphore counts its free buffers.
PoolInv(k) ==
  /\ Sound(bpsem[k]) /\ ToSet(bpsem[k].queue) \subseteq Waiting("getbuf", k)
  /\ k < nbpools => bpsem[k].ok /\ Len(bpnext[k]) = Units(Waiting("getbuf", k), bpsem[k])
  /\ k >= nbpools => bpnext[k] = <<>>

\* A port's semaphores count the places left and the messages, once there is one.
\* Who waits on a port that is in use means it in its present life.
PortInv(i) ==
  /\ Sound(ptssem[i]) /\ ToSet(ptssem[i].queue) \subseteq Waiting("send", i)
  /\ Sound(ptrsem[i]) /\ ToSet(ptrsem[i].queue) \subseteq Waiting("recv", i)
  /\ ptstate[i] = "alloc" =>
       /\ ToSet(ptssem[i].queue) \subseteq Present("send", i)
       /\ ToSet(ptrsem[i].queue) \subseteq Present("recv", i)
       /\ ptrsem[i].ok => ptssem[i].ok
       /\ ptssem[i].ok => ptmaxcnt[i] - Len(ptlist[i]) = Units(Present("send", i), ptssem[i])
       /\ ptrsem[i].ok => Len(ptlist[i]) = Units(Present("recv", i), ptrsem[i])
  /\ ptstate[i] = "free" => ptlist[i] = <<>>
  /\ ptstate[i] # "free" => Len(ptlist[i]) <= ptmaxcnt[i]

\* What holds of a process by the call it is in: what it waits on is there, and if
\* the port was not reset it is as it was.
InCall(p) ==
  /\ doing[p] = "getbuf" => on[p] \in Pool /\ on[p] < nbpools /\ holds[p] = NoBuf
  /\ doing[p] \in {"send", "recv"} =>
       /\ on[p] \in Port /\ seq[p] <= ptseq[on[p]]
       /\ seq[p] = ptseq[on[p]] => ptstate[on[p]] = "alloc"
  /\ doing[p] = "send" => holds[p] # NoBuf /\ (seq[p] = ptseq[on[p]] => ptssem[on[p]].ok)
  /\ doing[p] = "recv" => holds[p] = NoBuf /\ (seq[p] = ptseq[on[p]] => ptrsem[on[p]].ok)
  /\ doing[p] \notin {"reset", "delete"} => walk[p] = <<>>

\* How far a process has cleared its port, and that no other does.
Clears(p) ==
  doing[p] \in Clearing =>
    /\ on[p] \in Port /\ ptstate[on[p]] = "limbo"
    /\ \A q \in Client : doing[q] \in Clearing /\ on[q] = on[p] => q = p
    /\ doing[p] \notin {"reset", "delete"} => ptlist[on[p]] = <<>>
    /\ doing[p] \in {"reset", "reset2", "reset3"} => (ptrsem[on[p]].ok => ptssem[on[p]].ok)
    /\ doing[p] \in {"reset2", "reset3"} => ptssem[on[p]] \in {NewSem(ptmaxcnt[on[p]]), BadSem}
    /\ doing[p] = "reset3" => ptrsem[on[p]] \in {NewSem(0), BadSem}

\* The nodes are on the free list or hold a message of a port.
Used == {i \in Port : ptstate[i] # "free"}
Lens == [i \in Port |-> Len(ptlist[i])]
NodesAccount == Promised <= MaxMsgs /\ ptfree + SumFunctionOnSet(Lens, Used) = MaxMsgs

AccountsInv ==
  /\ PortTypes
  /\ \A k \in Pool : PoolInv(k)
  /\ \A i \in Port : PortInv(i)
  /\ \A p \in Client : InCall(p) /\ Clears(p)
  /\ NodesAccount



-------------------------------------------------------------------------------
(* Semaphores, on which clients wait *)

\* What a sound semaphore is made of.
LEMMA SoundFacts ==
  ASSUME NEW s, Sound(s)
  PROVE  /\ s \in Sem /\ s.ok \in BOOLEAN /\ s.count \in Int /\ s.queue \in Seq(Client)
         /\ Len(s.queue) \in Nat /\ ToSet(s.queue) \subseteq Client
         /\ s.count >= 0 => s.queue = <<>> /\ ToSet(s.queue) = {}
         /\ s.count < 0 => s.queue # <<>> /\ Len(s.queue) = -s.count
         /\ Avail(s) \in Nat
BY PortsAssumption, SemFacts DEF Sound, Sem

\* What the number of units is.
LEMMA UnitsAre ==
  ASSUME NEW s, Sound(s), NEW E \in SUBSET Client
  PROVE  /\ IsFiniteSet(E) /\ IsFiniteSet(Through(E, s)) /\ Cardinality(Through(E, s)) \in Nat
         /\ Units(E, s) = Avail(s) + Cardinality(Through(E, s))
         /\ Units(E, s) \in Nat
         /\ s.count >= 0 => Through(E, s) = E
BY PortsAssumption, SemUnits DEF Sound, Sem

\* A unit is taken by one who does not wait.
LEMMA WaitTakes ==
  ASSUME NEW s, Sound(s), s.ok, NEW p \in Client, s.count > 0
  PROVE  /\ Sound(Waits(s, p)) /\ Waits(s, p).ok /\ Waits(s, p).queue = <<>>
         /\ ToSet(Waits(s, p).queue) = {}
         /\ \A E \in SUBSET Client : Units(E, Waits(s, p)) = Units(E, s) - 1 /\ Units(E, s) >= 1
BY PortsAssumption, SemTakes DEF Sound, Sem

\* One who finds no unit is queued.
LEMMA WaitQueues ==
  ASSUME NEW s, Sound(s), s.ok, NEW p \in Client, ~(s.count > 0), ~Queued(s, p)
  PROVE  /\ Sound(Waits(s, p)) /\ Waits(s, p).ok
         /\ ToSet(Waits(s, p).queue) = ToSet(s.queue) \cup {p}
         /\ \A E \in SUBSET Client : p \notin E => Units(E \cup {p}, Waits(s, p)) = Units(E, s)
<1>1. SoundSem(Client, s) /\ IsFiniteSet(Client)
  BY PortsAssumption DEF Sound
<1> QED
  BY <1>1, SemQueues, SMTT(30) DEF Sound

\* A signal adds a unit: one more to take, or the first of the queue is let through.
LEMMA SignalAdds ==
  ASSUME NEW s, Sound(s)
  PROVE  /\ Sound(Signaled(s)) /\ Signaled(s).ok = s.ok
         /\ ToSet(Signaled(s).queue) \subseteq ToSet(s.queue)
         /\ \A E \in SUBSET Client : s.ok /\ ToSet(s.queue) \subseteq E =>
              Units(E, Signaled(s)) = Units(E, s) + 1
BY PortsAssumption, SemAdds DEF Sound, Sem

\* One who was let through goes on.
LEMMA GoesOn ==
  ASSUME NEW s, Sound(s), NEW E \in SUBSET Client, NEW p \in E, ~Queued(s, p)
  PROVE  Units(E \ {p}, s) = Units(E, s) - 1 /\ Units(E, s) >= 1
BY PortsAssumption, SemGoesOn DEF Sound, Sem

\* A new semaphore, and one that there is not.
LEMMA FreshSem ==
  ASSUME NEW n \in Nat
  PROVE  /\ Sound(NewSem(n)) /\ NewSem(n).ok /\ ToSet(NewSem(n).queue) = {}
         /\ Sound(BadSem) /\ ~BadSem.ok /\ ToSet(BadSem.queue) = {}
         /\ Units({}, NewSem(n)) = n
BY PortsAssumption, SemFresh DEF Sound, Sem

\* What semreset and semdelete leave.
LEMMA EmptiedFacts ==
  ASSUME NEW s, Sound(s), NEW n \in Nat
  PROVE  /\ Emptied(s, n) \in {NewSem(n), BadSem} /\ (Emptied(s, n).ok <=> s.ok)
         /\ Sound(Emptied(s, n)) /\ ToSet(Emptied(s, n).queue) = {}
BY PortsAssumption, SemEmptied DEF Sound, Sem

-------------------------------------------------------------------------------
(* Who waits *)

\* A process begins a call in which it waits.
LEMMA Joins ==
  ASSUME PortTypes, NEW p \in Client, NEW what \in Blocking, NEW x \in Nat, NEW n \in Nat,
         doing[p] \notin Blocking, Begin(p, what, x, n), ptseq' = ptseq
  PROVE  /\ \A w \in Blocking, y \in Nat : p \notin Waiting(w, y) /\ p \notin Present(w, y)
         /\ Waiting(what, x)' = Waiting(what, x) \cup {p}
         /\ n = ptseq[x] => Present(what, x)' = Present(what, x) \cup {p}
         /\ \A w \in Blocking, y \in Nat : w # what \/ y # x =>
              Waiting(w, y)' = Waiting(w, y) /\ Present(w, y)' = Present(w, y)
<1>1. /\ \A q \in Client : doing'[q] = (IF q = p THEN what ELSE doing[q])
                           /\ on'[q] = (IF q = p THEN x ELSE on[q])
                           /\ seq'[q] = (IF q = p THEN n ELSE seq[q])
  BY DEF Begin, PortTypes
<1>2. \A w \in Blocking, y \in Nat : p \notin Waiting(w, y) /\ p \notin Present(w, y)
  BY DEF Waiting, Present
<1>3. Waiting(what, x)' = Waiting(what, x) \cup {p}
  BY <1>1 DEF Waiting
<1>4. n = ptseq[x] => Present(what, x)' = Present(what, x) \cup {p}
  BY <1>1, <1>3 DEF Present, Waiting
<1>5. \A w \in Blocking, y \in Nat : w # what \/ y # x => Waiting(w, y)' = Waiting(w, y)
  BY <1>1 DEF Waiting
<1>6. \A w \in Blocking, y \in Nat : w # what \/ y # x => Present(w, y)' = Present(w, y)
  BY <1>1 DEF Waiting, Present
<1> QED
  BY <1>2, <1>3, <1>4, <1>5, <1>6

\* A process comes back from it.
LEMMA Leaves ==
  ASSUME PortTypes, NEW p \in Client, NEW what \in Blocking, NEW x \in Nat,
         doing[p] = what, on[p] = x, Done(p), ptseq' = ptseq
  PROVE  /\ p \in Waiting(what, x) /\ (seq[p] = ptseq[x] => p \in Present(what, x))
         /\ (seq[p] # ptseq[x] => p \notin Present(what, x))
         /\ Waiting(what, x)' = Waiting(what, x) \ {p}
         /\ Present(what, x)' = Present(what, x) \ {p}
         /\ \A w \in Blocking, y \in Nat : w # what \/ y # x =>
              Waiting(w, y)' = Waiting(w, y) /\ Present(w, y)' = Present(w, y)
<1>1. /\ \A q \in Client : doing'[q] = (IF q = p THEN "idle" ELSE doing[q])
                           /\ (q # p => on'[q] = on[q] /\ seq'[q] = seq[q])
  BY DEF Done, Begin, PortTypes
<1>2. p \in Waiting(what, x) /\ (seq[p] = ptseq[x] <=> p \in Present(what, x))
  BY DEF Waiting, Present
<1>3. \A w \in Blocking, y \in Nat : Waiting(w, y)' = Waiting(w, y) \ {p}
  BY <1>1 DEF Waiting, Blocking
<1>4. \A w \in Blocking, y \in Nat : Present(w, y)' = Present(w, y) \ {p}
  BY <1>1 DEF Waiting, Present, Blocking
<1>5. \A w \in Blocking, y \in Nat : w # what \/ y # x =>
        p \notin Waiting(w, y) /\ p \notin Present(w, y)
  BY DEF Waiting, Present
<1>6. \A w \in Blocking, y \in Nat : w # what \/ y # x =>
        Waiting(w, y)' = Waiting(w, y) /\ Present(w, y)' = Present(w, y)
  <2> SUFFICES ASSUME NEW w \in Blocking, NEW y \in Nat, w # what \/ y # x
               PROVE  Waiting(w, y)' = Waiting(w, y) /\ Present(w, y)' = Present(w, y)
    OBVIOUS
  <2>1. Waiting(w, y)' = Waiting(w, y) \ {p} /\ p \notin Waiting(w, y)
    BY <1>3, <1>5
  <2>2. Present(w, y)' = Present(w, y) \ {p} /\ p \notin Present(w, y)
    BY <1>4, <1>5
  <2> QED
    BY <2>1, <2>2
<1> QED
  BY <1>2, <1>3, <1>4, <1>6

\* A process that does not wait, before or after, is not among those that do.
LEMMA Passes ==
  ASSUME PortTypes, NEW p \in Client, doing[p] \notin Blocking, doing'[p] \notin Blocking,
         \A q \in Client : q # p => doing'[q] = doing[q] /\ on'[q] = on[q] /\ seq'[q] = seq[q]
  PROVE  \A w \in Blocking, y \in Nat :
           /\ Waiting(w, y)' = Waiting(w, y)
           /\ ptseq'[y] = ptseq[y] => Present(w, y)' = Present(w, y)
<1>1. \A w \in Blocking, y \in Nat : Waiting(w, y)' = Waiting(w, y)
  BY DEF Waiting
<1>2. \A w \in Blocking, y \in Nat : ptseq'[y] = ptseq[y] => Present(w, y)' = Present(w, y)
  BY DEF Waiting, Present
<1> QED
  BY <1>1, <1>2

\* Nobody begins or ends a call.
LEMMA Stays ==
  ASSUME UNCHANGED <<doing, on, seq>>
  PROVE  \A w \in Blocking, y \in Nat :
           /\ Waiting(w, y)' = Waiting(w, y)
           /\ ptseq'[y] = ptseq[y] => Present(w, y)' = Present(w, y)
<1>1. \A w \in Blocking, y \in Nat : Waiting(w, y)' = Waiting(w, y)
  BY DEF Waiting
<1>2. \A w \in Blocking, y \in Nat : ptseq'[y] = ptseq[y] => Present(w, y)' = Present(w, y)
  BY DEF Waiting, Present
<1> QED
  BY <1>1, <1>2

\* Those that wait are clients.
LEMMA Waiters ==
  \A w, y : Waiting(w, y) \in SUBSET Client /\ Present(w, y) \in SUBSET Waiting(w, y)
BY DEF Waiting, Present

-------------------------------------------------------------------------------
(* What a step leaves alone *)

\* A pool that a step leaves alone, with those that wait on it.
LEMMA PoolKept ==
  ASSUME NEW k \in Pool, PoolInv(k), bpsem'[k] = bpsem[k], bpnext'[k] = bpnext[k],
         k < nbpools' <=> k < nbpools, k >= nbpools' <=> k >= nbpools,
         Waiting("getbuf", k)' = Waiting("getbuf", k)
  PROVE  PoolInv(k)'
BY DEF PoolInv

\* A port that a step leaves alone, with those that wait on it.
LEMMA PortKept ==
  ASSUME NEW i \in Port, PortInv(i), ptstate'[i] = ptstate[i], ptmaxcnt'[i] = ptmaxcnt[i],
         ptlist'[i] = ptlist[i], ptssem'[i] = ptssem[i], ptrsem'[i] = ptrsem[i],
         Waiting("send", i)' = Waiting("send", i), Present("send", i)' = Present("send", i),
         Waiting("recv", i)' = Waiting("recv", i), Present("recv", i)' = Present("recv", i)
  PROVE  PortInv(i)'
BY DEF PortInv

\* A process that a step leaves alone, on a port in the same life.
LEMMA CallKept ==
  ASSUME NEW p \in Client, InCall(p), nbpools \in Nat, nbpools' \in Nat, nbpools <= nbpools',
         Pool \subseteq Nat,
         doing'[p] = doing[p], on'[p] = on[p], seq'[p] = seq[p], holds'[p] = holds[p],
         walk'[p] = walk[p],
         on[p] \in Port /\ doing[p] \in Blocking =>
           /\ ptseq'[on[p]] = ptseq[on[p]] /\ ptstate'[on[p]] = ptstate[on[p]]
           /\ (ptssem'[on[p]].ok <=> ptssem[on[p]].ok) /\ (ptrsem'[on[p]].ok <=> ptrsem[on[p]].ok)
  PROVE  InCall(p)'
<1>1. doing'[p] = "getbuf" => on'[p] \in Pool /\ on'[p] < nbpools' /\ holds'[p] = NoBuf
  <2> SUFFICES ASSUME doing[p] = "getbuf"
               PROVE  on[p] \in Pool /\ on[p] < nbpools' /\ holds'[p] = NoBuf
    OBVIOUS
  <2>1. on[p] \in Pool /\ on[p] < nbpools /\ holds[p] = NoBuf
    BY DEF InCall
  <2>2. on[p] \in Nat
    BY <2>1
  <2> QED
    BY <2>1, <2>2
<1>2. doing'[p] \in {"send", "recv"} =>
        /\ on'[p] \in Port /\ seq'[p] <= ptseq'[on'[p]]
        /\ seq'[p] = ptseq'[on'[p]] => ptstate'[on'[p]] = "alloc"
  BY DEF InCall, Blocking
<1>3. doing'[p] = "send" => holds'[p] # NoBuf /\ (seq'[p] = ptseq'[on'[p]] => ptssem'[on'[p]].ok)
  BY DEF InCall, Blocking
<1>4. doing'[p] = "recv" => holds'[p] = NoBuf /\ (seq'[p] = ptseq'[on'[p]] => ptrsem'[on'[p]].ok)
  BY DEF InCall, Blocking
<1>5. doing'[p] \notin {"reset", "delete"} => walk'[p] = <<>>
  BY DEF InCall
<1> QED
  BY <1>1, <1>2, <1>3, <1>4, <1>5 DEF InCall

\* Nobody else begins to clear a port; the ports that are cleared stay as they are.
LEMMA ClearsKept ==
  ASSUME NEW p \in Client, Clears(p), doing'[p] = doing[p], on'[p] = on[p],
         \A q \in Client : doing'[q] \in Clearing /\ on'[q] = on[p] =>
                             doing[q] \in Clearing /\ on[q] = on[p],
         on[p] \in Port /\ ptstate[on[p]] = "limbo" =>
           /\ ptstate'[on[p]] = ptstate[on[p]] /\ ptlist'[on[p]] = ptlist[on[p]]
           /\ ptmaxcnt'[on[p]] = ptmaxcnt[on[p]]
           /\ ptssem'[on[p]] = ptssem[on[p]] /\ ptrsem'[on[p]] = ptrsem[on[p]]
  PROVE  Clears(p)'
BY DEF Clears

\* The nodes stay where they are.
LEMMA NodesKept ==
  ASSUME NodesAccount, UNCHANGED <<ptstate, ptmaxcnt, ptlist, ptfree>>
  PROVE  NodesAccount'
<1>1. Used' = Used /\ Lens' = Lens /\ Promised' = Promised
  BY DEF Used, Lens, Promised
<1> QED
  BY <1>1 DEF NodesAccount

\* What the proofs use of the constants and of the types.
LEMMA Basics ==
  ASSUME AccountsInv
  PROVE  /\ Port \subseteq Nat /\ Pool \subseteq Nat /\ IsFiniteSet(Port) /\ IsFiniteSet(Client)
         /\ NumBufs \in Nat \ {0} /\ MaxMsgs \in Nat
         /\ Cardinality(Pool) \in Nat /\ Cardinality(Port) \in Nat
         /\ Made \subseteq Buf /\ NoBuf \notin Made
         /\ PortTypes
<1>1. Cardinality(Pool) \in Nat /\ Cardinality(Port) \in Nat
  BY PortsAssumption, FS_CardinalityType
<1>2. Port \subseteq Nat /\ Pool \subseteq Nat
  <2>1. Port = 0 .. Cardinality(Port) - 1 /\ Pool = 0 .. Cardinality(Pool) - 1
    BY PortsAssumption
  <2> QED
    BY <1>1, <2>1
<1>3. Made \subseteq Buf /\ NoBuf \notin Made
  BY PortsAssumption DEF Made, Buf
<1> QED
  BY <1>1, <1>2, <1>3, PortsAssumption DEF AccountsInv

\* A step that has to do with pools only.
LEMMA PortsAside ==
  ASSUME AccountsInv, UNCHANGED <<ptstate, ptseq, ptmaxcnt, ptlist, ptssem, ptrsem, ptfree>>,
         \A w \in {"send", "recv"}, y \in Nat :
           Waiting(w, y)' = Waiting(w, y) /\ Present(w, y)' = Present(w, y),
         \A q \in Client : doing[q] \in Clearing \/ doing'[q] \in Clearing =>
           doing'[q] = doing[q] /\ on'[q] = on[q]
  PROVE  /\ \A i \in Port : PortInv(i)'
         /\ \A q \in Client : Clears(q)'
         /\ NodesAccount'
<1>1. ASSUME NEW i \in Port
      PROVE  PortInv(i)'
  <2>1. i \in Nat /\ PortInv(i)
    BY Basics DEF AccountsInv
  <2>2. /\ Waiting("send", i)' = Waiting("send", i) /\ Present("send", i)' = Present("send", i)
        /\ Waiting("recv", i)' = Waiting("recv", i) /\ Present("recv", i)' = Present("recv", i)
    BY <2>1
  <2> QED
    BY <2>1, <2>2, PortKept
<1>2. ASSUME NEW q \in Client
      PROVE  Clears(q)'
  <2>1. Clears(q)
    BY DEF AccountsInv
  <2>2. CASE doing'[q] \in Clearing
    <3>1. doing'[q] = doing[q] /\ on'[q] = on[q]
      BY <2>2
    <3>2. \A r \in Client : doing'[r] \in Clearing /\ on'[r] = on[q] =>
            doing[r] \in Clearing /\ on[r] = on[q]
      OBVIOUS
    <3> QED
      BY <2>1, <3>1, <3>2, ClearsKept
  <2>3. CASE doing'[q] \notin Clearing
    BY <2>3 DEF Clears
  <2> QED
    BY <2>2, <2>3
<1>3. NodesAccount'
  BY NodesKept DEF AccountsInv
<1> QED
  BY <1>1, <1>2, <1>3

\* Mkbufpool: a pool on which nobody waits, with its buffers on its list.
LEMMA MkbufpoolAccounts ==
  ASSUME AccountsInv, Mkbufpool
  PROVE  AccountsInv'
<1> DEFINE n == nbpools
           new == [i \in 1 .. NumBufs |-> <<n, i>>]
<1>1. /\ n \in Nat /\ n + 1 <= Cardinality(Pool) /\ n \in Pool /\ nbpools' = n + 1
      /\ bpnext' = [bpnext EXCEPT ![n] = new] /\ bpsem' = [bpsem EXCEPT ![n] = NewSem(NumBufs)]
  <2>1. n \in Nat /\ n < Cardinality(Pool) /\ Cardinality(Pool) \in Nat
    BY Basics DEF Mkbufpool, PortTypes
  <2>2. n \in Pool
    BY <2>1, PortsAssumption
  <2> QED
    BY <2>1, <2>2 DEF Mkbufpool
<1>2. Made \subseteq Made' /\ new \in Seq(Made') /\ Len(new) = NumBufs
  <2>1. Made \subseteq Made'
    <3>1. \A b \in Buf : b[1] \in Nat
      BY Basics DEF Buf
    <3> QED
      BY <1>1, <3>1 DEF Made
  <2>2. \A i \in 1 .. NumBufs : <<n, i>> \in Made'
    BY <1>1 DEF Made, Buf
  <2>3. NumBufs \in Nat
    BY Basics
  <2> QED
    BY <2>1, <2>2, <2>3
<1>3. UNCHANGED <<portVars, clientVars>>
  BY DEF Mkbufpool
<1>4. PortTypes'
  <2>1. Seq(Made) \subseteq Seq(Made')
    BY <1>2, SeqMonotonic
  <2>2. bpnext' \in [Pool -> Seq(Made')]
    BY <1>1, <1>2, <2>1, Basics DEF PortTypes
  <2>3. NewSem(NumBufs) \in Sem
    BY Basics, FreshSem DEF Sound, SoundSem, Sem
  <2>4. bpsem' \in [Pool -> Sem]
    BY <1>1, <2>3, Basics DEF PortTypes
  <2> HIDE DEF new
  <2>5. ptlist' \in [Port -> Seq(Made')] /\ walk' \in [Client -> Seq(Made')]
        /\ holds' \in [Client -> Made' \cup {NoBuf}]
    <3>1. ptlist \in [Port -> Seq(Made)] /\ walk \in [Client -> Seq(Made)]
          /\ holds \in [Client -> Made \cup {NoBuf}]
      BY Basics DEF PortTypes
    <3> QED
      BY <1>2, <1>3, <2>1, <3>1 DEF portVars, clientVars
  <2>6. /\ ptstate' \in [Port -> {"free", "alloc", "limbo"}]
        /\ ptseq' \in [Port -> Nat] /\ ptmaxcnt' \in [Port -> Nat]
        /\ ptssem' \in [Port -> Sem] /\ ptrsem' \in [Port -> Sem] /\ ptfree' \in Nat
        /\ doing' \in [Client -> Calls] /\ on' \in [Client -> Nat] /\ seq' \in [Client -> Nat]
    BY <1>3, Basics DEF PortTypes, portVars, clientVars
  <2>7. nbpools' \in Nat /\ nbpools' <= Cardinality(Pool)
    BY <1>1
  <2> QED
    BY <2>2, <2>4, <2>5, <2>6, <2>7 DEF PortTypes
<1> HIDE DEF new
<1>5. \A w \in Blocking, y \in Nat : Waiting(w, y)' = Waiting(w, y) /\ Present(w, y)' = Present(w, y)
  BY <1>3, Stays DEF portVars, clientVars
<1>6. ASSUME NEW k \in Pool
      PROVE  PoolInv(k)'
  <2>1. PoolInv(k) /\ k \in Nat
    BY Basics DEF AccountsInv
  <2>2. Waiting("getbuf", k)' = Waiting("getbuf", k)
    BY <1>5, <2>1 DEF Blocking
  <2>3. CASE k # n
    <3>1. (k < nbpools' <=> k < nbpools) /\ (k >= nbpools' <=> k >= nbpools)
      BY <1>1, <2>1, <2>3
    <3>2. bpsem'[k] = bpsem[k] /\ bpnext'[k] = bpnext[k]
      BY <1>1, <2>3, Basics DEF PortTypes
    <3> QED
      BY <2>1, <2>2, <3>1, <3>2, PoolKept
  <2>4. CASE k = n
    <3>1. Waiting("getbuf", k) = {}
      <4>1. ASSUME NEW p \in Waiting("getbuf", k)
            PROVE  FALSE
        <5>1. p \in Client /\ doing[p] = "getbuf" /\ on[p] = n
          BY <2>4, <4>1 DEF Waiting
        <5>2. on[p] < n
          BY <5>1 DEF AccountsInv, InCall
        <5> QED
          BY <1>1, <5>1, <5>2
      <4> QED
        BY <4>1
    <3>2. bpsem'[k] = NewSem(NumBufs) /\ bpnext'[k] = new
      BY <1>1, <2>4, Basics DEF PortTypes
    <3>3. /\ Sound(bpsem'[k]) /\ ToSet(bpsem'[k].queue) = {} /\ bpsem'[k].ok
          /\ Units(Waiting("getbuf", k)', bpsem'[k]) = NumBufs
      BY <2>2, <3>1, <3>2, FreshSem, Basics
    <3>4. ~(k >= nbpools')
      BY <1>1, <2>4
    <3> QED
      BY <1>2, <3>2, <3>3, <3>4 DEF PoolInv
  <2> QED
    BY <2>3, <2>4
<1>7. ASSUME NEW p \in Client
      PROVE  InCall(p)'
  <2>1. nbpools \in Nat /\ nbpools' \in Nat /\ nbpools <= nbpools' /\ Pool \subseteq Nat
    BY <1>1, Basics
  <2>2. InCall(p)
    BY DEF AccountsInv
  <2>3. UNCHANGED <<doing, on, seq, holds, walk, ptseq, ptstate, ptssem, ptrsem>>
    BY <1>3 DEF portVars, clientVars
  <2> QED
    BY <2>1, <2>2, <2>3, CallKept
<1>8. (\A i \in Port : PortInv(i)') /\ (\A q \in Client : Clears(q)') /\ NodesAccount'
  <2>1. UNCHANGED <<ptstate, ptseq, ptmaxcnt, ptlist, ptssem, ptrsem, ptfree, doing, on>>
    BY <1>3 DEF portVars, clientVars
  <2>2. \A w \in {"send", "recv"}, y \in Nat :
          Waiting(w, y)' = Waiting(w, y) /\ Present(w, y)' = Present(w, y)
    BY <1>5 DEF Blocking
  <2> QED
    BY <2>1, <2>2, PortsAside
<1> QED
  BY <1>4, <1>6, <1>7, <1>8 DEF AccountsInv

\* A step of process p that has to do with pool k.
LEMMA PoolStep ==
  ASSUME AccountsInv, PortTypes', NEW k \in Pool, NEW p \in Client,
         nbpools' = nbpools, UNCHANGED portVars,
         \A j \in Pool : j # k => bpnext'[j] = bpnext[j] /\ bpsem'[j] = bpsem[j],
         PoolInv(k)',
         \A q \in Client : q # p =>
           /\ doing'[q] = doing[q] /\ on'[q] = on[q] /\ seq'[q] = seq[q]
           /\ holds'[q] = holds[q] /\ walk'[q] = walk[q],
         \A w \in Blocking, y \in Nat : w # "getbuf" \/ y # k =>
           Waiting(w, y)' = Waiting(w, y) /\ Present(w, y)' = Present(w, y),
         doing[p] \in Clearing \/ doing'[p] \in Clearing => doing'[p] = doing[p] /\ on'[p] = on[p],
         InCall(p)'
  PROVE  AccountsInv'
<1>1. Port \subseteq Nat /\ Pool \subseteq Nat /\ PortTypes /\ nbpools \in Nat
  BY Basics DEF PortTypes
<1>2. UNCHANGED <<ptstate, ptseq, ptmaxcnt, ptlist, ptssem, ptrsem, ptfree>>
  BY DEF portVars
<1>3. ASSUME NEW j \in Pool
      PROVE  PoolInv(j)'
  <2>1. CASE j # k
    <3>1. j \in Nat /\ PoolInv(j)
      BY <1>1 DEF AccountsInv
    <3>2. Waiting("getbuf", j)' = Waiting("getbuf", j)
      BY <2>1, <3>1 DEF Blocking
    <3>3. bpnext'[j] = bpnext[j] /\ bpsem'[j] = bpsem[j]
      BY <2>1
    <3> QED
      BY <3>1, <3>2, <3>3, PoolKept
  <2>2. CASE j = k
    BY <2>2
  <2> QED
    BY <2>1, <2>2
<1>4. ASSUME NEW q \in Client
      PROVE  InCall(q)'
  <2>1. CASE q # p
    <3>1. InCall(q)
      BY DEF AccountsInv
    <3>2. doing'[q] = doing[q] /\ on'[q] = on[q] /\ seq'[q] = seq[q] /\ holds'[q] = holds[q]
          /\ walk'[q] = walk[q]
      BY <2>1
    <3>3. nbpools' \in Nat /\ nbpools <= nbpools'
      BY <1>1
    <3> QED
      BY <1>1, <1>2, <3>1, <3>2, <3>3, CallKept
  <2>2. CASE q = p
    BY <2>2
  <2> QED
    BY <2>1, <2>2
<1>5. (\A i \in Port : PortInv(i)') /\ (\A q \in Client : Clears(q)') /\ NodesAccount'
  <2>1. \A w \in {"send", "recv"}, y \in Nat :
          Waiting(w, y)' = Waiting(w, y) /\ Present(w, y)' = Present(w, y)
    BY DEF Blocking
  <2>2. \A q \in Client : doing[q] \in Clearing \/ doing'[q] \in Clearing =>
          doing'[q] = doing[q] /\ on'[q] = on[q]
    OBVIOUS
  <2> QED
    BY <1>2, <2>1, <2>2, PortsAside
<1> QED
  BY <1>3, <1>4, <1>5 DEF AccountsInv

\* The first buffer of a pool is there.
LEMMA TakeBufFacts ==
  ASSUME AccountsInv, NEW p \in Client, NEW k \in Pool, TakeBuf(p, k)
  PROVE  /\ Head(bpnext[k]) \in Made /\ Head(bpnext[k]) # NoBuf
         /\ bpnext' \in [Pool -> Seq(Made)] /\ holds' \in [Client -> Made \cup {NoBuf}]
         /\ Len(bpnext'[k]) = Len(bpnext[k]) - 1 /\ Len(bpnext[k]) \in Nat
         /\ \A j \in Pool : j # k => bpnext'[j] = bpnext[j]
         /\ holds'[p] = Head(bpnext[k])
         /\ \A q \in Client : q # p => holds'[q] = holds[q]
<1>1. bpnext \in [Pool -> Seq(Made)] /\ holds \in [Client -> Made \cup {NoBuf}] /\ NoBuf \notin Made
  BY Basics DEF PortTypes
<1>2. bpnext[k] # <<>> /\ bpnext[k] \in Seq(Made)
  BY <1>1 DEF TakeBuf
<1> DEFINE s == bpnext[k]
           h == Head(s)
           t == Tail(s)
<1>3. h \in Made /\ t \in Seq(Made) /\ Len(t) = Len(s) - 1 /\ Len(s) \in Nat
  BY <1>2, HeadOut
<1>4. bpnext' = [bpnext EXCEPT ![k] = t] /\ holds' = [holds EXCEPT ![p] = h]
  BY DEF TakeBuf
<1> HIDE DEF h, t
<1>5. bpnext' \in [Pool -> Seq(Made)] /\ bpnext'[k] = t /\ \A j \in Pool : j # k => bpnext'[j] = bpnext[j]
  BY <1>1, <1>3, <1>4
<1>6. holds' \in [Client -> Made \cup {NoBuf}] /\ holds'[p] = h /\ h # NoBuf
      /\ \A q \in Client : q # p => holds'[q] = holds[q]
  BY <1>1, <1>3, <1>4
<1> QED
  BY <1>3, <1>5, <1>6 DEF h

\* Getbuf: a buffer and its unit are taken, or the process is queued.
LEMMA GetbufAccounts ==
  ASSUME AccountsInv, NEW p \in Client, NEW k \in Pool, Getbuf(p, k)
  PROVE  AccountsInv'
<1> DEFINE s == bpsem[k]
           t == Waits(s, p)
           E == Waiting("getbuf", k)
<1>1. /\ Port \subseteq Nat /\ Pool \subseteq Nat /\ PortTypes /\ nbpools \in Nat
      /\ k \in Nat /\ k < nbpools /\ ~(k >= nbpools)
  BY Basics, SMTT(30) DEF PortTypes, Getbuf
<1>2. /\ Sound(s) /\ s.ok /\ ToSet(s.queue) \subseteq E /\ Len(bpnext[k]) = Units(E, s)
      /\ E \in SUBSET Client
  <2>1. PoolInv(k)
    BY DEF AccountsInv
  <2> QED
    BY <1>1, <2>1, Waiters DEF PoolInv
<1>3. doing[p] = "idle" /\ holds[p] = NoBuf /\ doing[p] \notin Blocking /\ doing[p] \notin Clearing
      /\ walk[p] = <<>>
  <2>1. InCall(p)
    BY DEF AccountsInv
  <2> QED
    BY <2>1 DEF Getbuf, Blocking, Clearing, InCall
<1>4. /\ nbpools' = nbpools /\ UNCHANGED <<portVars, walk>> /\ bpsem' = [bpsem EXCEPT ![k] = t]
  BY DEF Getbuf
<1> HIDE DEF t
<1>5. bpsem'[k] = t /\ \A j \in Pool : j # k => bpsem'[j] = bpsem[j]
  BY <1>1, <1>4 DEF PortTypes
<1>6. CASE s.count > 0
  <2>1. TakeBuf(p, k) /\ UNCHANGED <<doing, on, seq>>
    BY <1>6 DEF Getbuf
  <2>2. /\ Sound(t) /\ t.ok /\ ToSet(t.queue) = {} /\ Units(E, t) = Units(E, s) - 1
    BY <1>2, <1>6, WaitTakes DEF t
  <2>3. PortTypes'
    <3>1. bpnext' \in [Pool -> Seq(Made)] /\ holds' \in [Client -> Made \cup {NoBuf}]
      BY <2>1, TakeBufFacts
    <3>2. bpsem' \in [Pool -> Sem]
      BY <1>1, <1>4, <2>2 DEF PortTypes, Sound, SoundSem, Sem
    <3>3. Made' = Made
      BY <1>4 DEF Made
    <3> QED
      BY <1>1, <1>4, <2>1, <3>1, <3>2, <3>3 DEF PortTypes, portVars
  <2>4. \A w \in Blocking, y \in Nat : Waiting(w, y)' = Waiting(w, y) /\ Present(w, y)' = Present(w, y)
    BY <1>4, <2>1, Stays DEF portVars
  <2>5. PoolInv(k)'
    <3>1. Waiting("getbuf", k)' = E
      BY <1>1, <2>4 DEF Blocking
    <3>2. Len(bpnext'[k]) = Len(bpnext[k]) - 1
      BY <2>1, TakeBufFacts
    <3> QED
      BY <1>1, <1>2, <1>4, <1>5, <2>2, <3>1, <3>2 DEF PoolInv
  <2>6. InCall(p)'
    <3>1. doing'[p] = "idle" /\ walk'[p] = <<>>
      BY <1>3, <1>4, <2>1
    <3> QED
      BY <3>1 DEF InCall, Clearing
  <2>7. \A q \in Client : q # p => holds'[q] = holds[q]
    BY <2>1, TakeBufFacts
  <2>8. \A j \in Pool : j # k => bpnext'[j] = bpnext[j]
    BY <2>1, TakeBufFacts
  <2> QED
    BY <1>1, <1>3, <1>4, <1>5, <2>1, <2>3, <2>4, <2>5, <2>6, <2>7, <2>8, PoolStep
<1>7. CASE ~(s.count > 0)
  <2>1. Begin(p, "getbuf", k, 0) /\ UNCHANGED <<holds, bpnext>>
    BY <1>7 DEF Getbuf
  <2>2. /\ p \notin E
        /\ Waiting("getbuf", k)' = E \cup {p}
        /\ \A w \in Blocking, y \in Nat : w # "getbuf" \/ y # k =>
             Waiting(w, y)' = Waiting(w, y) /\ Present(w, y)' = Present(w, y)
    <3>1. "getbuf" \in Blocking /\ ptseq' = ptseq /\ 0 \in Nat
      BY <1>4 DEF Blocking, portVars
    <3> HIDE DEF Begin
    <3> QED
      BY <1>1, <1>3, <2>1, <3>1, Joins
  <2>3. ~Queued(s, p)
    BY <1>2, <2>2 DEF Queued
  <2>4. Sound(t) /\ t.ok /\ ToSet(t.queue) = ToSet(s.queue) \cup {p} /\ Units(E \cup {p}, t) = Units(E, s)
    BY <1>2, <1>7, <2>2, <2>3, WaitQueues DEF t
  <2>5. /\ doing' = [doing EXCEPT ![p] = "getbuf"] /\ on' = [on EXCEPT ![p] = k]
        /\ seq' = [seq EXCEPT ![p] = 0]
    BY <2>1 DEF Begin
  <2>6. PortTypes'
    <3>1. bpsem' \in [Pool -> Sem]
      BY <1>1, <1>4, <2>4 DEF PortTypes, Sound, SoundSem, Sem
    <3>2. Made' = Made
      BY <1>4 DEF Made
    <3>3. doing' \in [Client -> Calls] /\ on' \in [Client -> Nat] /\ seq' \in [Client -> Nat]
      BY <1>1, <2>5 DEF PortTypes, Calls
    <3> QED
      BY <1>1, <1>4, <2>1, <3>1, <3>2, <3>3 DEF PortTypes, portVars
  <2>7. PoolInv(k)'
    BY <1>1, <1>2, <1>4, <1>5, <2>1, <2>2, <2>4 DEF PoolInv
  <2>8. doing'[p] = "getbuf" /\ on'[p] = k /\ holds'[p] = NoBuf /\ walk'[p] = <<>>
    BY <1>1, <1>3, <1>4, <2>1, <2>5 DEF PortTypes
  <2>9. InCall(p)'
    BY <1>1, <1>4, <2>8 DEF InCall
  <2>10. \A q \in Client : q # p =>
           /\ doing'[q] = doing[q] /\ on'[q] = on[q] /\ seq'[q] = seq[q]
           /\ holds'[q] = holds[q] /\ walk'[q] = walk[q]
    BY <1>1, <1>4, <2>1, <2>5 DEF PortTypes
  <2>11. doing'[p] \notin Clearing
    BY <2>8 DEF Clearing
  <2> QED
    BY <1>1, <1>3, <1>4, <1>5, <2>1, <2>2, <2>6, <2>7, <2>9, <2>10, <2>11, PoolStep
<1> QED
  BY <1>6, <1>7

\* GetbufReturns: the buffer is there for the one that was granted it.
LEMMA GetbufReturnsAccounts ==
  ASSUME AccountsInv, NEW p \in Client, GetbufReturns(p)
  PROVE  AccountsInv'
<1> DEFINE k == on[p]
           s == bpsem[k]
           E == Waiting("getbuf", k)
<1>1. /\ Port \subseteq Nat /\ Pool \subseteq Nat /\ PortTypes /\ nbpools \in Nat
  BY Basics DEF PortTypes
<1>2. doing[p] = "getbuf" /\ k \in Pool /\ k < nbpools /\ walk[p] = <<>> /\ doing[p] \notin Clearing
  <2>1. InCall(p)
    BY DEF AccountsInv
  <2> QED
    BY <2>1 DEF GetbufReturns, InCall, Clearing
<1>3. /\ ~Queued(s, p) /\ TakeBuf(p, k) /\ Done(p) /\ UNCHANGED <<nbpools, bpsem, portVars, walk>>
  BY DEF GetbufReturns
<1> SUFFICES ASSUME NEW x \in Pool, x = k
             PROVE  AccountsInv'
  BY <1>2
<1> HIDE DEF k
<1>4. /\ p \in Waiting("getbuf", x)
      /\ Waiting("getbuf", x)' = Waiting("getbuf", x) \ {p}
      /\ \A w \in Blocking, y \in Nat : w # "getbuf" \/ y # x =>
           Waiting(w, y)' = Waiting(w, y) /\ Present(w, y)' = Present(w, y)
  <2>1. "getbuf" \in Blocking /\ ptseq' = ptseq /\ x \in Nat /\ on[p] = x
    BY <1>1, <1>3 DEF Blocking, portVars, k
  <2> HIDE DEF Done
  <2> QED
    BY <1>1, <1>2, <1>3, <2>1, Leaves
<1>5. /\ PoolInv(x) /\ x < nbpools /\ ~(x >= nbpools) /\ bpsem'[x] = bpsem[x] /\ ~Queued(bpsem[x], p)
  BY <1>1, <1>2, <1>3 DEF AccountsInv
<1>6. /\ Sound(bpsem[x]) /\ ToSet(bpsem[x].queue) \subseteq Waiting("getbuf", x) \ {p}
      /\ Units(Waiting("getbuf", x) \ {p}, bpsem[x]) = Units(Waiting("getbuf", x), bpsem[x]) - 1
  <2>1. Sound(bpsem[x]) /\ ToSet(bpsem[x].queue) \subseteq Waiting("getbuf", x)
    BY <1>5 DEF PoolInv
  <2>2. Units(Waiting("getbuf", x) \ {p}, bpsem[x]) = Units(Waiting("getbuf", x), bpsem[x]) - 1
    BY <1>4, <1>5, <2>1, GoesOn, Waiters
  <2> QED
    BY <1>5, <2>1, <2>2 DEF Queued
<1>7. PoolInv(x)'
  <2>1. Len(bpnext'[x]) = Len(bpnext[x]) - 1
    BY <1>3, TakeBufFacts
  <2> QED
    BY <1>3, <1>4, <1>5, <1>6, <2>1 DEF PoolInv
<1>8. /\ doing' = [doing EXCEPT ![p] = "idle"] /\ on' = [on EXCEPT ![p] = 0]
      /\ seq' = [seq EXCEPT ![p] = 0]
  BY <1>3 DEF Done, Begin
<1>9. PortTypes'
  <2>1. bpnext' \in [Pool -> Seq(Made)] /\ holds' \in [Client -> Made \cup {NoBuf}]
    BY <1>3, TakeBufFacts
  <2>2. Made' = Made
    BY <1>3 DEF Made
  <2>3. doing' \in [Client -> Calls] /\ on' \in [Client -> Nat] /\ seq' \in [Client -> Nat]
    BY <1>1, <1>8 DEF PortTypes, Calls
  <2> QED
    BY <1>1, <1>3, <2>1, <2>2, <2>3 DEF PortTypes, portVars
<1>10. doing'[p] = "idle" /\ walk'[p] = <<>>
  BY <1>1, <1>2, <1>3, <1>8 DEF PortTypes
<1>11. InCall(p)' /\ doing'[p] \notin Clearing
  BY <1>10 DEF InCall, Clearing
<1>12. \A q \in Client : q # p =>
         /\ doing'[q] = doing[q] /\ on'[q] = on[q] /\ seq'[q] = seq[q]
         /\ holds'[q] = holds[q] /\ walk'[q] = walk[q]
  <2>1. \A q \in Client : q # p => holds'[q] = holds[q]
    BY <1>3, TakeBufFacts
  <2> QED
    BY <1>1, <1>3, <1>8, <2>1 DEF PortTypes
<1>13. \A j \in Pool : j # x => bpnext'[j] = bpnext[j] /\ bpsem'[j] = bpsem[j]
  BY <1>3, TakeBufFacts
<1> QED
  BY <1>2, <1>3, <1>4, <1>7, <1>9, <1>11, <1>12, <1>13, PoolStep

\* A buffer goes back to its pool.
LEMMA FreeToFacts ==
  ASSUME AccountsInv, NEW b \in Made, NEW k, k = b[1], FreeTo(b), UNCHANGED <<doing, on, seq>>
  PROVE  /\ k \in Pool /\ nbpools' = nbpools /\ PoolInv(k)'
         /\ bpnext' \in [Pool -> Seq(Made)] /\ bpsem' \in [Pool -> Sem]
         /\ bpnext'[k] = <<b>> \o bpnext[k]
         /\ \A j \in Pool : j # k => bpnext'[j] = bpnext[j] /\ bpsem'[j] = bpsem[j]
<1>1. /\ Pool \subseteq Nat /\ nbpools \in Nat /\ bpnext \in [Pool -> Seq(Made)]
      /\ bpsem \in [Pool -> Sem]
  BY Basics DEF PortTypes
<1>2. k \in Pool /\ k < nbpools /\ ~(k >= nbpools)
  <2>1. k \in Pool /\ k < nbpools
    BY DEF Made, Buf
  <2> QED
    BY <1>1, <2>1
<1> DEFINE s == bpsem[k]
           t == Signaled(s)
           old == bpnext[k]
           new == <<b>> \o old
           E == Waiting("getbuf", k)
<1>3. bpnext' = [bpnext EXCEPT ![k] = new] /\ bpsem' = [bpsem EXCEPT ![k] = t] /\ nbpools' = nbpools
  BY DEF FreeTo
<1>4. new \in Seq(Made) /\ Len(new) = Len(old) + 1 /\ Len(old) \in Nat
  <2>1. old \in Seq(Made)
    BY <1>1, <1>2
  <2> HIDE DEF old
  <2> QED
    BY <2>1, PrependIn
<1>5. PoolInv(k)
  BY <1>2 DEF AccountsInv
<1>6. /\ Sound(s) /\ s.ok /\ ToSet(s.queue) \subseteq E /\ E \in SUBSET Client
      /\ Len(old) = Units(E, s)
  BY <1>2, <1>5, Waiters DEF PoolInv
<1>7. Sound(t) /\ t.ok = s.ok /\ ToSet(t.queue) \subseteq ToSet(s.queue) /\ Units(E, t) = Units(E, s) + 1
  BY <1>6, SignalAdds
<1> HIDE DEF t, new
<1>8. bpsem'[k] = t /\ bpnext'[k] = new
  BY <1>1, <1>2, <1>3
<1>9. bpnext' \in [Pool -> Seq(Made)] /\ bpsem' \in [Pool -> Sem]
  BY <1>1, <1>2, <1>3, <1>4, <1>7 DEF Sound, SoundSem, Sem
<1>10. \A j \in Pool : j # k => bpnext'[j] = bpnext[j] /\ bpsem'[j] = bpsem[j]
  BY <1>1, <1>3
<1>11. PoolInv(k)'
  <2>1. Waiting("getbuf", k)' = E
    BY <1>1, <1>2, Stays DEF Blocking
  <2>2. Len(bpnext'[k]) = Units(E, bpsem'[k])
    BY <1>4, <1>6, <1>7, <1>8
  <2> QED
    BY <1>2, <1>3, <1>6, <1>7, <1>8, <2>1, <2>2 DEF PoolInv
<1> QED
  BY <1>2, <1>3, <1>8, <1>9, <1>10, <1>11 DEF new

\* Freebuf: the buffer is listed, and its pool's semaphore signalled.
LEMMA FreebufAccounts ==
  ASSUME AccountsInv, NEW p \in Client, Freebuf(p)
  PROVE  AccountsInv'
<1>1. /\ Port \subseteq Nat /\ Pool \subseteq Nat /\ PortTypes /\ nbpools \in Nat
  BY Basics DEF PortTypes
<1>2. doing[p] = "idle" /\ holds[p] \in Made /\ walk[p] = <<>>
  <2>1. InCall(p)
    BY DEF AccountsInv
  <2> QED
    BY <1>1, <2>1 DEF Freebuf, InCall, PortTypes
<1> DEFINE h == holds[p]
           l == h[1]
<1> SUFFICES ASSUME NEW b \in Made, b = h, NEW k, k = l
             PROVE  AccountsInv'
  BY <1>2
<1>3. FreeTo(b) /\ holds' = [holds EXCEPT ![p] = NoBuf] /\ UNCHANGED <<portVars, doing, on, seq, walk>>
  BY DEF Freebuf
<1>4. k = b[1]
  OBVIOUS
<1> HIDE DEF h, l
<1>5. /\ k \in Pool /\ nbpools' = nbpools /\ PoolInv(k)'
      /\ bpnext' \in [Pool -> Seq(Made)] /\ bpsem' \in [Pool -> Sem]
      /\ \A j \in Pool : j # k => bpnext'[j] = bpnext[j] /\ bpsem'[j] = bpsem[j]
  BY <1>3, <1>4, FreeToFacts
<1>6. PortTypes'
  <2>1. Made' = Made
    BY <1>5 DEF Made
  <2>2. holds' \in [Client -> Made \cup {NoBuf}]
    BY <1>1, <1>3 DEF PortTypes
  <2> QED
    BY <1>1, <1>3, <1>5, <2>1, <2>2 DEF PortTypes, portVars
<1>7. \A w \in Blocking, y \in Nat : Waiting(w, y)' = Waiting(w, y) /\ Present(w, y)' = Present(w, y)
  BY <1>3, Stays DEF portVars
<1>8. InCall(p)'
  <2>1. doing'[p] = "idle" /\ walk'[p] = <<>>
    BY <1>2, <1>3
  <2> QED
    BY <2>1 DEF InCall, Clearing
<1>9. \A q \in Client : q # p =>
        /\ doing'[q] = doing[q] /\ on'[q] = on[q] /\ seq'[q] = seq[q]
        /\ holds'[q] = holds[q] /\ walk'[q] = walk[q]
  BY <1>1, <1>3 DEF PortTypes
<1> QED
  BY <1>3, <1>5, <1>6, <1>7, <1>8, <1>9, PoolStep

\* Dispose: the same for a message of a port that is cleared.
LEMMA DisposeAccounts ==
  ASSUME AccountsInv, NEW p \in Client, Dispose(p)
  PROVE  AccountsInv'
<1>1. /\ Port \subseteq Nat /\ Pool \subseteq Nat /\ PortTypes /\ nbpools \in Nat
  BY Basics DEF PortTypes
<1> DEFINE w == walk[p]
           h == Head(w)
           t == Tail(w)
           l == h[1]
<1>2. doing[p] \in {"reset", "delete"} /\ w # <<>> /\ w \in Seq(Made)
  BY <1>1 DEF Dispose, PortTypes
<1>3. h \in Made /\ t \in Seq(Made)
  <2> HIDE DEF w
  <2> QED
    BY <1>2, HeadOut
<1> SUFFICES ASSUME NEW b \in Made, b = h, NEW k, k = l
             PROVE  AccountsInv'
  BY <1>3
<1>4. FreeTo(b) /\ walk' = [walk EXCEPT ![p] = t] /\ UNCHANGED <<portVars, doing, on, seq, holds>>
  BY DEF Dispose
<1>5. k = b[1]
  OBVIOUS
<1> HIDE DEF w, h, t, l
<1>6. /\ k \in Pool /\ nbpools' = nbpools /\ PoolInv(k)'
      /\ bpnext' \in [Pool -> Seq(Made)] /\ bpsem' \in [Pool -> Sem]
      /\ \A j \in Pool : j # k => bpnext'[j] = bpnext[j] /\ bpsem'[j] = bpsem[j]
  BY <1>4, <1>5, FreeToFacts
<1>7. PortTypes'
  <2>1. Made' = Made
    BY <1>6 DEF Made
  <2>2. walk' \in [Client -> Seq(Made)]
    BY <1>1, <1>3, <1>4 DEF PortTypes
  <2> QED
    BY <1>1, <1>4, <1>6, <2>1, <2>2 DEF PortTypes, portVars
<1>8. \A v \in Blocking, y \in Nat : Waiting(v, y)' = Waiting(v, y) /\ Present(v, y)' = Present(v, y)
  BY <1>4, Stays DEF portVars
<1>9. InCall(p)'
  <2>1. doing'[p] \in {"reset", "delete"}
    BY <1>2, <1>4
  <2> QED
    BY <2>1 DEF InCall
<1>10. \A q \in Client : q # p =>
         /\ doing'[q] = doing[q] /\ on'[q] = on[q] /\ seq'[q] = seq[q]
         /\ holds'[q] = holds[q] /\ walk'[q] = walk[q]
  BY <1>1, <1>4 DEF PortTypes
<1> QED
  BY <1>4, <1>6, <1>7, <1>8, <1>9, <1>10, PoolStep

-------------------------------------------------------------------------------
(* Ports *)

\* A call of process p on port i which does not clear it.
LEMMA PortCall ==
  ASSUME AccountsInv, PortTypes', NEW i \in Port, NEW p \in Client,
         UNCHANGED <<poolVars, ptstate, ptseq, ptmaxcnt>>,
         \A j \in Port : j # i =>
           ptlist'[j] = ptlist[j] /\ ptssem'[j] = ptssem[j] /\ ptrsem'[j] = ptrsem[j],
         ptssem'[i].ok <=> ptssem[i].ok, ptrsem'[i].ok <=> ptrsem[i].ok,
         ptstate[i] # "alloc" =>
           ptlist'[i] = ptlist[i] /\ ptssem'[i] = ptssem[i] /\ ptrsem'[i] = ptrsem[i],
         \A q \in Client : q # p =>
           /\ doing'[q] = doing[q] /\ on'[q] = on[q] /\ seq'[q] = seq[q]
           /\ holds'[q] = holds[q] /\ walk'[q] = walk[q],
         \A w \in Blocking, y \in Nat : w = "getbuf" \/ y # i =>
           Waiting(w, y)' = Waiting(w, y) /\ Present(w, y)' = Present(w, y),
         doing[p] \notin Clearing, doing'[p] \notin Clearing, InCall(p)', PortInv(i)', NodesAccount'
  PROVE  AccountsInv'
<1>1. Port \subseteq Nat /\ Pool \subseteq Nat /\ PortTypes /\ nbpools \in Nat
  BY Basics DEF PortTypes
<1>2. UNCHANGED <<nbpools, bpnext, bpsem>>
  BY DEF poolVars
<1>3. ASSUME NEW k \in Pool
      PROVE  PoolInv(k)'
  <2>1. k \in Nat /\ PoolInv(k)
    BY <1>1 DEF AccountsInv
  <2>2. Waiting("getbuf", k)' = Waiting("getbuf", k)
    BY <2>1 DEF Blocking
  <2> QED
    BY <1>2, <2>1, <2>2, PoolKept
<1>4. ASSUME NEW j \in Port, j # i
      PROVE  PortInv(j)'
  <2>1. j \in Nat /\ PortInv(j)
    BY <1>1 DEF AccountsInv
  <2>2. /\ Waiting("send", j)' = Waiting("send", j) /\ Present("send", j)' = Present("send", j)
        /\ Waiting("recv", j)' = Waiting("recv", j) /\ Present("recv", j)' = Present("recv", j)
    BY <1>4, <2>1 DEF Blocking
  <2>3. ptlist'[j] = ptlist[j] /\ ptssem'[j] = ptssem[j] /\ ptrsem'[j] = ptrsem[j]
    BY <1>4
  <2> QED
    BY <2>1, <2>2, <2>3, PortKept
<1>5. ASSUME NEW q \in Client, q # p
      PROVE  InCall(q)'
  <2>1. InCall(q) /\ nbpools' \in Nat /\ nbpools <= nbpools'
    BY <1>1, <1>2 DEF AccountsInv
  <2>2. \A j \in Port : (ptssem'[j].ok <=> ptssem[j].ok) /\ (ptrsem'[j].ok <=> ptrsem[j].ok)
    OBVIOUS
  <2>3. /\ doing'[q] = doing[q] /\ on'[q] = on[q] /\ seq'[q] = seq[q]
        /\ holds'[q] = holds[q] /\ walk'[q] = walk[q]
    BY <1>5
  <2> QED
    BY <1>1, <2>1, <2>2, <2>3, CallKept
<1>6. ASSUME NEW q \in Client
      PROVE  Clears(q)'
  <2>1. CASE q = p
    BY <2>1 DEF Clears
  <2>2. CASE q # p
    <3>1. Clears(q) /\ doing'[q] = doing[q] /\ on'[q] = on[q]
      BY <2>2 DEF AccountsInv
    <3>2. \A r \in Client : doing'[r] \in Clearing /\ on'[r] = on[q] =>
            doing[r] \in Clearing /\ on[r] = on[q]
      OBVIOUS
    <3>3. on[q] \in Port /\ ptstate[on[q]] = "limbo" =>
            /\ ptstate'[on[q]] = ptstate[on[q]] /\ ptlist'[on[q]] = ptlist[on[q]]
            /\ ptmaxcnt'[on[q]] = ptmaxcnt[on[q]]
            /\ ptssem'[on[q]] = ptssem[on[q]] /\ ptrsem'[on[q]] = ptrsem[on[q]]
      OBVIOUS
    <3> QED
      BY <3>1, <3>2, <3>3, ClearsKept
  <2> QED
    BY <2>1, <2>2
<1> QED
  BY <1>3, <1>4, <1>5, <1>6 DEF AccountsInv

\* A node goes from the free list to a message of the port, or back.
LEMMA NodesMoved ==
  ASSUME AccountsInv, PortTypes', NEW i \in Port, ptstate[i] # "free", UNCHANGED <<ptstate, ptmaxcnt>>,
         \A j \in Port : j # i => ptlist'[j] = ptlist[j],
         ptfree' + Len(ptlist'[i]) = ptfree + Len(ptlist[i])
  PROVE  NodesAccount'
<1>1. Used' = Used /\ Promised' = Promised /\ i \in Used /\ IsFiniteSet(Used)
  <2>1. IsFiniteSet(Port)
    BY Basics
  <2> QED
    BY <2>1, FS_Subset DEF Used, Promised
<1>2. \A j \in Port : Lens[j] \in Int /\ Lens'[j] \in Int
  BY Basics DEF Lens, PortTypes
<1>3. \A j \in Used : Lens[j] \in Int /\ Lens'[j] \in Int
  BY <1>2 DEF Used
<1>4. \A j \in Used \ {i} : Lens'[j] = Lens[j]
  BY DEF Used, Lens
<1>5. SumFunctionOnSet(Lens', Used) = SumFunctionOnSet(Lens, Used) - Lens[i] + Lens'[i]
  BY <1>1, <1>3, <1>4, SumChange
<1>6. SumFunctionOnSet(Lens, Used) \in Int
  BY <1>1, <1>3, SumSplit
<1>7. ptfree + SumFunctionOnSet(Lens, Used) = MaxMsgs /\ Promised <= MaxMsgs
  BY DEF AccountsInv, NodesAccount
<1>8. ptfree' + Lens'[i] = ptfree + Lens[i]
  BY DEF Lens
<1>9. ptfree' + SumFunctionOnSet(Lens', Used) = MaxMsgs
  <2>1. ptfree \in Int /\ ptfree' \in Int /\ MaxMsgs \in Int
    BY Basics DEF PortTypes
  <2>2. PICK f \in Int, g \in Int, m \in Int : f = ptfree /\ g = ptfree' /\ m = MaxMsgs
    BY <2>1
  <2>3. PICK x \in Int, y \in Int, t \in Int : x = Lens[i] /\ y = Lens'[i] /\ t = SumFunctionOnSet(Lens, Used)
    BY <1>2, <1>6
  <2>4. SumFunctionOnSet(Lens', Used) = t - x + y
    BY <1>5, <2>3
  <2>5. g + y = f + x /\ f + t = m
    BY <1>7, <1>8, <2>2, <2>3
  <2>6. g + (t - x + y) = m
    BY <2>5, Balance
  <2> QED
    BY <2>2, <2>4, <2>6
<1> QED
  BY <1>1, <1>7, <1>9 DEF NodesAccount

\* A message more, for whose place its sender has a unit, and for which a receiver
\* is signalled.
LEMMA Appended ==
  ASSUME AccountsInv, NEW i \in Port, ptstate[i] = "alloc", ptstate'[i] = "alloc",
         ptmaxcnt'[i] = ptmaxcnt[i], Len(ptlist'[i]) = Len(ptlist[i]) + 1,
         ptrsem'[i] = Signaled(ptrsem[i]),
         Waiting("recv", i)' = Waiting("recv", i), Present("recv", i)' = Present("recv", i),
         Sound(ptssem'[i]), ptssem[i].ok, ptssem'[i].ok,
         ToSet(ptssem'[i].queue) \subseteq Present("send", i)',
         Units(Present("send", i)', ptssem'[i]) = Units(Present("send", i), ptssem[i]) - 1,
         Units(Present("send", i), ptssem[i]) >= 1
  PROVE  PortInv(i)' /\ ptrsem'[i].ok = ptrsem[i].ok /\ ptrsem'[i] \in Sem
<1>1. PortInv(i) /\ Len(ptlist[i]) \in Nat /\ ptmaxcnt[i] \in Nat
  BY Basics DEF AccountsInv, PortTypes
<1> DEFINE r == ptrsem[i]
           s == ptssem[i]
           E == Present("recv", i)
           S == Present("send", i)
<1>2. /\ Sound(r) /\ ToSet(r.queue) \subseteq E /\ E \in SUBSET Client /\ S \in SUBSET Client
      /\ E \subseteq Waiting("recv", i) /\ Sound(s)
  BY <1>1, Waiters DEF PortInv
<1>3. /\ Sound(Signaled(r)) /\ Signaled(r).ok = r.ok
      /\ ToSet(Signaled(r).queue) \subseteq ToSet(r.queue)
      /\ r.ok => Units(E, Signaled(r)) = Units(E, r) + 1
  BY <1>2, SignalAdds
<1>4. Units(S, s) \in Nat
  BY <1>2, UnitsAre
<1>5. ptmaxcnt[i] - Len(ptlist[i]) = Units(S, s) /\ (r.ok => Len(ptlist[i]) = Units(E, r))
  BY <1>1 DEF PortInv
<1>6. ptmaxcnt'[i] - Len(ptlist'[i]) = Units(S', ptssem'[i])
  <2>1. Units(S', ptssem'[i]) = Units(S, s) - 1
    OBVIOUS
  <2> HIDE DEF S, s
  <2> QED
    BY <1>1, <1>4, <1>5, <2>1
<1>7. Len(ptlist'[i]) <= ptmaxcnt'[i]
  <2>1. Units(S, s) >= 1
    OBVIOUS
  <2> HIDE DEF S, s
  <2> QED
    BY <1>1, <1>4, <1>5, <2>1
<1>8. r.ok => Len(ptlist'[i]) = Units(E, Signaled(r))
  BY <1>3, <1>5
<1>9. S' \subseteq Waiting("send", i)'
  BY DEF Present
<1>10. Signaled(r) \in Sem
  BY <1>3 DEF Sound, SoundSem, Sem
<1> HIDE DEF r, s, E, S
<1>11. ptrsem'[i] = Signaled(r)
  BY DEF r
<1> QED
  BY <1>2, <1>3, <1>6, <1>7, <1>8, <1>9, <1>10, <1>11 DEF PortInv, r, E, S

\* A message less, for which its receiver has a unit; the place is signalled.
LEMMA Removed ==
  ASSUME AccountsInv, NEW i \in Port, ptstate[i] = "alloc", ptstate'[i] = "alloc",
         ptmaxcnt'[i] = ptmaxcnt[i], Len(ptlist'[i]) = Len(ptlist[i]) - 1,
         ptssem'[i] = Signaled(ptssem[i]),
         Waiting("send", i)' = Waiting("send", i), Present("send", i)' = Present("send", i),
         Sound(ptrsem'[i]), ptrsem[i].ok, ptrsem'[i].ok,
         ToSet(ptrsem'[i].queue) \subseteq Present("recv", i)',
         Units(Present("recv", i)', ptrsem'[i]) = Units(Present("recv", i), ptrsem[i]) - 1
  PROVE  PortInv(i)' /\ ptssem'[i].ok = ptssem[i].ok /\ ptssem'[i] \in Sem
<1>1. PortInv(i) /\ Len(ptlist[i]) \in Nat /\ ptmaxcnt[i] \in Nat
  BY Basics DEF AccountsInv, PortTypes
<1> DEFINE r == ptrsem[i]
           s == ptssem[i]
           E == Present("recv", i)
           S == Present("send", i)
<1>2. /\ Sound(s) /\ s.ok /\ ToSet(s.queue) \subseteq S /\ E \in SUBSET Client /\ S \in SUBSET Client
      /\ S \subseteq Waiting("send", i) /\ Sound(r)
  BY <1>1, Waiters DEF PortInv
<1>3. /\ Sound(Signaled(s)) /\ Signaled(s).ok = s.ok
      /\ ToSet(Signaled(s).queue) \subseteq ToSet(s.queue)
      /\ Units(S, Signaled(s)) = Units(S, s) + 1
  BY <1>2, SignalAdds
<1>4. Units(S, s) \in Nat /\ Units(E, r) \in Nat
  BY <1>2, UnitsAre
<1>5. ptmaxcnt[i] - Len(ptlist[i]) = Units(S, s) /\ Len(ptlist[i]) = Units(E, r)
      /\ Len(ptlist[i]) <= ptmaxcnt[i]
  BY <1>1, <1>2 DEF PortInv
<1>6. Len(ptlist'[i]) = Units(E', ptrsem'[i])
  BY <1>5
<1>7. ptmaxcnt'[i] - Len(ptlist'[i]) = Units(S, Signaled(s)) /\ Len(ptlist'[i]) <= ptmaxcnt'[i]
  <2> HIDE DEF S, s
  <2> QED
    BY <1>1, <1>3, <1>4, <1>5
<1>8. E' \subseteq Waiting("recv", i)'
  BY DEF Present
<1>9. Signaled(s) \in Sem
  BY <1>3 DEF Sound, SoundSem, Sem
<1> HIDE DEF r, s, E, S
<1>10. ptssem'[i] = Signaled(s)
  BY DEF s
<1> QED
  BY <1>2, <1>3, <1>6, <1>7, <1>8, <1>9, <1>10 DEF PortInv, s, E, S

\* A message is appended, in a node of the free list.
LEMMA Append1Facts ==
  ASSUME AccountsInv, NEW p \in Client, NEW i \in Port, holds[p] # NoBuf, Append1(p, i)
  PROVE  /\ holds[p] \in Made /\ ptlist[i] \in Seq(Made)
         /\ ptlist'[i] = Append(ptlist[i], holds[p]) /\ Len(ptlist'[i]) = Len(ptlist[i]) + 1
         /\ ptrsem'[i] = Signaled(ptrsem[i]) /\ holds'[p] = NoBuf
         /\ ptfree' + Len(ptlist'[i]) = ptfree + Len(ptlist[i])
         /\ \A j \in Port : j # i => ptlist'[j] = ptlist[j] /\ ptrsem'[j] = ptrsem[j]
         /\ \A q \in Client : q # p => holds'[q] = holds[q]
         /\ ptfree' \in Nat /\ ptlist' \in [Port -> Seq(Made)]
         /\ holds' \in [Client -> Made \cup {NoBuf}]
         /\ ptrsem' = [ptrsem EXCEPT ![i] = Signaled(ptrsem[i])]
<1>1. /\ ptlist \in [Port -> Seq(Made)] /\ ptrsem \in [Port -> Sem]
      /\ holds \in [Client -> Made \cup {NoBuf}] /\ ptfree \in Nat
  BY Basics DEF PortTypes
<1> DEFINE l == ptlist[i]
           b == holds[p]
           m == Append(l, b)
<1>2. l \in Seq(Made) /\ b \in Made
  BY <1>1
<1>3. m \in Seq(Made) /\ Len(m) = Len(l) + 1 /\ Len(l) \in Nat
  <2> HIDE DEF l, b
  <2> QED
    BY <1>2, AppendIn
<1>4. /\ ptfree > 0 /\ ptfree' = ptfree - 1 /\ ptlist' = [ptlist EXCEPT ![i] = m]
      /\ ptrsem' = [ptrsem EXCEPT ![i] = Signaled(ptrsem[i])]
      /\ holds' = [holds EXCEPT ![p] = NoBuf]
  BY DEF Append1
<1> HIDE DEF m
<1>5. ptlist'[i] = m /\ \A j \in Port : j # i => ptlist'[j] = ptlist[j]
  BY <1>1, <1>4
<1>6. ptlist' \in [Port -> Seq(Made)]
  BY <1>1, <1>3, <1>4
<1>7. ptrsem'[i] = Signaled(ptrsem[i]) /\ \A j \in Port : j # i => ptrsem'[j] = ptrsem[j]
  BY <1>1, <1>4
<1>8. /\ holds'[p] = NoBuf /\ \A q \in Client : q # p => holds'[q] = holds[q]
      /\ holds' \in [Client -> Made \cup {NoBuf}]
  BY <1>1, <1>4
<1>9. ptfree' \in Nat /\ ptfree' + (Len(l) + 1) = ptfree + Len(l)
  BY <1>1, <1>3, <1>4
<1> QED
  BY <1>2, <1>3, <1>4, <1>5, <1>6, <1>7, <1>8, <1>9 DEF m

\* The first message is removed, and its node freed.
LEMMA Remove1Facts ==
  ASSUME AccountsInv, NEW p \in Client, NEW i \in Port, ptlist[i] # <<>>, Remove1(p, i)
  PROVE  /\ Head(ptlist[i]) \in Made /\ ptlist[i] \in Seq(Made)
         /\ ptlist'[i] = Tail(ptlist[i]) /\ Len(ptlist'[i]) = Len(ptlist[i]) - 1
         /\ ptssem'[i] = Signaled(ptssem[i]) /\ holds'[p] = Head(ptlist[i])
         /\ ptfree' + Len(ptlist'[i]) = ptfree + Len(ptlist[i])
         /\ \A j \in Port : j # i => ptlist'[j] = ptlist[j] /\ ptssem'[j] = ptssem[j]
         /\ \A q \in Client : q # p => holds'[q] = holds[q]
         /\ ptfree' \in Nat /\ ptlist' \in [Port -> Seq(Made)]
         /\ holds' \in [Client -> Made \cup {NoBuf}]
         /\ ptssem' = [ptssem EXCEPT ![i] = Signaled(ptssem[i])]
<1>1. /\ ptlist \in [Port -> Seq(Made)] /\ ptssem \in [Port -> Sem]
      /\ holds \in [Client -> Made \cup {NoBuf}] /\ ptfree \in Nat
  BY Basics DEF PortTypes
<1> DEFINE l == ptlist[i]
           h == Head(l)
           m == Tail(l)
<1>2. l \in Seq(Made)
  BY <1>1
<1>3. h \in Made /\ m \in Seq(Made) /\ Len(m) = Len(l) - 1 /\ Len(l) \in Nat
  <2>1. l # <<>>
    OBVIOUS
  <2> HIDE DEF l
  <2> QED
    BY <1>2, <2>1, HeadOut
<1>4. /\ ptfree' = ptfree + 1 /\ ptlist' = [ptlist EXCEPT ![i] = m]
      /\ ptssem' = [ptssem EXCEPT ![i] = Signaled(ptssem[i])]
      /\ holds' = [holds EXCEPT ![p] = h]
  BY DEF Remove1
<1> HIDE DEF m, h
<1>5. ptlist'[i] = m /\ \A j \in Port : j # i => ptlist'[j] = ptlist[j]
  BY <1>1, <1>4
<1>6. ptlist' \in [Port -> Seq(Made)]
  BY <1>1, <1>3, <1>4
<1>7. ptssem'[i] = Signaled(ptssem[i]) /\ \A j \in Port : j # i => ptssem'[j] = ptssem[j]
  BY <1>1, <1>4
<1>8. /\ holds'[p] = h /\ \A q \in Client : q # p => holds'[q] = holds[q]
      /\ holds' \in [Client -> Made \cup {NoBuf}]
  BY <1>1, <1>3, <1>4
<1>9. ptfree' \in Nat /\ ptfree' + (Len(l) - 1) = ptfree + Len(l)
  BY <1>1, <1>3, <1>4
<1> QED
  BY <1>2, <1>3, <1>4, <1>5, <1>6, <1>7, <1>8, <1>9 DEF m, h

\* Ptsend: a place is taken and filled, or the sender is queued.
LEMMA PtsendAccounts ==
  ASSUME AccountsInv, NEW p \in Client, NEW i \in Port, Ptsend(p, i)
  PROVE  AccountsInv'
<1> DEFINE s == ptssem[i]
           t == Waits(s, p)
           S == Present("send", i)
<1>1. Port \subseteq Nat /\ PortTypes /\ i \in Nat /\ ptseq[i] \in Nat
  BY Basics DEF PortTypes
<1>2. PortInv(i) /\ InCall(p)
  BY DEF AccountsInv
<1>3. /\ doing[p] = "idle" /\ holds[p] # NoBuf /\ ptstate[i] = "alloc" /\ s.ok
      /\ UNCHANGED <<poolVars, ptstate, ptseq, ptmaxcnt, ptnextid, walk>>
      /\ ptssem' = [ptssem EXCEPT ![i] = t]
  BY DEF Ptsend
<1>4. doing[p] \notin Blocking /\ doing[p] \notin Clearing /\ walk[p] = <<>>
  BY <1>2, <1>3 DEF Blocking, Clearing, InCall
<1>5. /\ Sound(s) /\ ToSet(s.queue) \subseteq S /\ S \in SUBSET Client
      /\ ToSet(s.queue) \subseteq Waiting("send", i)
  BY <1>2, <1>3, Waiters DEF PortInv
<1> HIDE DEF t
<1>6. ptssem'[i] = t /\ \A j \in Port : j # i => ptssem'[j] = ptssem[j]
  BY <1>1, <1>3 DEF PortTypes
<1>7. Made' = Made
  BY <1>3 DEF Made, poolVars
<1>8. CASE s.count > 0
  <2>1. Append1(p, i) /\ UNCHANGED <<doing, on, seq>>
    BY <1>8 DEF Ptsend
  <2>2. /\ Sound(t) /\ t.ok /\ ToSet(t.queue) = {} /\ Units(S, t) = Units(S, s) - 1
        /\ Units(S, s) >= 1
    BY <1>3, <1>5, <1>8, WaitTakes DEF t
  <2>3. \A w \in Blocking, y \in Nat : Waiting(w, y)' = Waiting(w, y) /\ Present(w, y)' = Present(w, y)
    BY <1>3, <2>1, Stays
  <2>4. /\ Waiting("recv", i)' = Waiting("recv", i) /\ Present("recv", i)' = Present("recv", i)
        /\ Present("send", i)' = S
    BY <1>1, <2>3 DEF Blocking
  <2>5. PortInv(i)' /\ ptrsem'[i].ok = ptrsem[i].ok /\ ptrsem'[i] \in Sem
    <3>1. /\ ptstate'[i] = "alloc" /\ ptmaxcnt'[i] = ptmaxcnt[i] /\ ptrsem'[i] = Signaled(ptrsem[i])
          /\ Len(ptlist'[i]) = Len(ptlist[i]) + 1
      BY <1>3, <2>1, Append1Facts
    <3>2. ToSet(ptssem'[i].queue) \subseteq Present("send", i)'
      BY <1>6, <2>2
    <3> QED
      BY <1>3, <1>6, <2>2, <2>4, <3>1, <3>2, Appended
  <2>6. PortTypes'
    <3>1. ptlist' \in [Port -> Seq(Made)] /\ holds' \in [Client -> Made \cup {NoBuf}] /\ ptfree' \in Nat
      BY <1>3, <2>1, Append1Facts
    <3>2. ptssem' \in [Port -> Sem] /\ ptrsem' \in [Port -> Sem]
      <4>1. \A j \in Port : j # i => ptrsem'[j] = ptrsem[j]
        BY <1>3, <2>1, Append1Facts
      <4>2. ptrsem' = [ptrsem EXCEPT ![i] = Signaled(ptrsem[i])]
        BY <1>3, <2>1, Append1Facts
      <4> QED
        BY <1>1, <1>3, <2>2, <2>5, <4>2 DEF PortTypes, Sound, SoundSem, Sem
    <3> QED
      BY <1>1, <1>3, <1>7, <2>1, <3>1, <3>2 DEF PortTypes, poolVars
  <2>7. NodesAccount'
    BY <1>3, <2>1, <2>6, Append1Facts, NodesMoved
  <2>8. InCall(p)'
    <3>1. doing'[p] = "idle" /\ walk'[p] = <<>>
      BY <1>3, <1>4, <2>1
    <3> QED
      BY <3>1 DEF InCall
  <2>9. \A j \in Port : j # i =>
          ptlist'[j] = ptlist[j] /\ ptssem'[j] = ptssem[j] /\ ptrsem'[j] = ptrsem[j]
    BY <1>3, <1>6, <2>1, Append1Facts
  <2>10. \A q \in Client : q # p =>
           /\ doing'[q] = doing[q] /\ on'[q] = on[q] /\ seq'[q] = seq[q]
           /\ holds'[q] = holds[q] /\ walk'[q] = walk[q]
    BY <1>3, <2>1, Append1Facts
  <2>11. (ptssem'[i].ok <=> ptssem[i].ok) /\ (ptrsem'[i].ok <=> ptrsem[i].ok)
    BY <1>3, <1>6, <2>2, <2>5
  <2>12. doing'[p] \notin Clearing
    BY <1>4, <2>1
  <2> QED
    BY <1>3, <1>4, <2>3, <2>5, <2>6, <2>7, <2>8, <2>9, <2>10, <2>11, <2>12, PortCall
<1>9. CASE ~(s.count > 0)
  <2>1. Begin(p, "send", i, ptseq[i]) /\ UNCHANGED <<ptfree, ptlist, ptrsem, holds>>
    BY <1>9 DEF Ptsend
  <2>2. /\ p \notin S /\ p \notin Waiting("send", i)
        /\ Waiting("send", i)' = Waiting("send", i) \cup {p}
        /\ Present("send", i)' = S \cup {p}
        /\ \A w \in Blocking, y \in Nat : w # "send" \/ y # i =>
             Waiting(w, y)' = Waiting(w, y) /\ Present(w, y)' = Present(w, y)
    <3>1. "send" \in Blocking
      BY DEF Blocking
    <3> HIDE DEF Begin
    <3> QED
      BY <1>1, <1>3, <1>4, <2>1, <3>1, Joins
  <2>3. ~Queued(s, p)
    BY <1>5, <2>2 DEF Queued
  <2>4. Sound(t) /\ t.ok /\ ToSet(t.queue) = ToSet(s.queue) \cup {p} /\ Units(S \cup {p}, t) = Units(S, s)
    BY <1>3, <1>5, <1>9, <2>2, <2>3, WaitQueues DEF t
  <2>5. PortInv(i)'
    <3>1. /\ Waiting("recv", i)' = Waiting("recv", i) /\ Present("recv", i)' = Present("recv", i)
      BY <1>1, <2>2 DEF Blocking
    <3>2. ToSet(t.queue) \subseteq Waiting("send", i)' /\ ToSet(t.queue) \subseteq Present("send", i)'
      BY <1>5, <2>2, <2>4
    <3>3. Units(Present("send", i)', ptssem'[i]) = Units(S, s)
      BY <1>6, <2>2, <2>4
    <3> QED
      BY <1>2, <1>3, <1>6, <2>1, <2>4, <3>1, <3>2, <3>3 DEF PortInv
  <2>6. /\ doing' = [doing EXCEPT ![p] = "send"] /\ on' = [on EXCEPT ![p] = i]
        /\ seq' = [seq EXCEPT ![p] = ptseq[i]]
    BY <2>1 DEF Begin
  <2>7. PortTypes'
    <3>1. ptssem' \in [Port -> Sem]
      BY <1>1, <1>3, <2>4 DEF PortTypes, Sound, SoundSem, Sem
    <3>2. doing' \in [Client -> Calls] /\ on' \in [Client -> Nat] /\ seq' \in [Client -> Nat]
      BY <1>1, <2>6 DEF PortTypes, Calls
    <3> QED
      BY <1>1, <1>3, <1>7, <2>1, <3>1, <3>2 DEF PortTypes, poolVars
  <2>8. /\ doing'[p] = "send" /\ on'[p] = i /\ seq'[p] = ptseq[i] /\ holds'[p] # NoBuf
        /\ walk'[p] = <<>>
    BY <1>1, <1>3, <1>4, <2>1, <2>6 DEF PortTypes
  <2>9. InCall(p)' /\ doing'[p] \notin Clearing
    BY <1>1, <1>3, <1>6, <2>4, <2>8 DEF InCall, Clearing
  <2>10. \A q \in Client : q # p =>
           /\ doing'[q] = doing[q] /\ on'[q] = on[q] /\ seq'[q] = seq[q]
           /\ holds'[q] = holds[q] /\ walk'[q] = walk[q]
    BY <1>1, <1>3, <2>1, <2>6 DEF PortTypes
  <2>11. NodesAccount'
    BY <1>3, <2>1, NodesKept DEF AccountsInv
  <2>12. \A w \in Blocking, y \in Nat : w = "getbuf" \/ y # i =>
           Waiting(w, y)' = Waiting(w, y) /\ Present(w, y)' = Present(w, y)
    BY <2>2
  <2>13. (ptssem'[i].ok <=> ptssem[i].ok) /\ (ptrsem'[i].ok <=> ptrsem[i].ok)
    BY <1>3, <1>6, <2>1, <2>4
  <2>14. \A j \in Port : j # i =>
           ptlist'[j] = ptlist[j] /\ ptssem'[j] = ptssem[j] /\ ptrsem'[j] = ptrsem[j]
    BY <1>6, <2>1
  <2> QED
    BY <1>3, <1>4, <2>5, <2>7, <2>9, <2>10, <2>11, <2>12, <2>13, <2>14, PortCall
<1> QED
  BY <1>8, <1>9

\* The process comes back to a port that is as it left it, or finds that it is not
\* and gives up.
LEMMA PtsendReturnsAccounts ==
  ASSUME AccountsInv, NEW p \in Client, PtsendReturns(p)
  PROVE  AccountsInv'
<1> DEFINE k == on[p]
<1>1. Port \subseteq Nat /\ PortTypes
  BY Basics DEF PortTypes
<1>2. /\ doing[p] = "send" /\ k \in Port /\ holds[p] # NoBuf /\ walk[p] = <<>>
      /\ seq[p] = ptseq[k] => ptstate[k] = "alloc" /\ ptssem[k].ok
  <2>1. InCall(p) /\ doing[p] = "send"
    BY DEF AccountsInv, PtsendReturns
  <2> QED
    BY <2>1 DEF InCall
<1> SUFFICES ASSUME NEW i \in Port, i = k
             PROVE  AccountsInv'
  BY <1>2
<1>3. /\ doing[p] \in Blocking /\ doing[p] \notin Clearing /\ i \in Nat /\ on[p] = i
      /\ seq[p] = ptseq[i] => ptstate[i] = "alloc" /\ ptssem[i].ok
  BY <1>1, <1>2 DEF Blocking, Clearing
<1>4. /\ ~Queued(ptssem[i], p) /\ Done(p)
      /\ IF Same(p, i) THEN Append1(p, i) ELSE UNCHANGED <<ptfree, ptlist, ptrsem, holds>>
      /\ UNCHANGED <<poolVars, ptssem, ptstate, ptseq, ptmaxcnt, ptnextid, walk>>
  BY DEF PtsendReturns
<1> HIDE DEF k
<1> DEFINE s == ptssem[i]
           W == Waiting("send", i)
           S == Present("send", i)
<1>5. /\ p \in W /\ (seq[p] = ptseq[i] => p \in S) /\ (seq[p] # ptseq[i] => p \notin S)
      /\ Waiting("send", i)' = W \ {p} /\ Present("send", i)' = S \ {p}
      /\ \A w \in Blocking, y \in Nat : w # "send" \/ y # i =>
           Waiting(w, y)' = Waiting(w, y) /\ Present(w, y)' = Present(w, y)
  <2>1. "send" \in Blocking
    BY DEF Blocking
  <2> HIDE DEF Done
  <2> QED
    BY <1>1, <1>2, <1>3, <1>4, <2>1, Leaves
<1>6. PortInv(i)
  BY DEF AccountsInv
<1>7. /\ Sound(s) /\ ToSet(s.queue) \subseteq W \ {p} /\ S \in SUBSET Client
      /\ ptstate[i] = "alloc" => ToSet(s.queue) \subseteq S \ {p}
  <2>1. Sound(s) /\ ToSet(s.queue) \subseteq W /\ (ptstate[i] = "alloc" => ToSet(s.queue) \subseteq S)
    BY <1>6 DEF PortInv
  <2>2. S \in SUBSET Client
    BY Waiters
  <2> QED
    BY <1>4, <2>1, <2>2 DEF Queued
<1>8. /\ Waiting("recv", i)' = Waiting("recv", i) /\ Present("recv", i)' = Present("recv", i)
  BY <1>3, <1>5 DEF Blocking
<1>9. /\ doing' = [doing EXCEPT ![p] = "idle"] /\ on' = [on EXCEPT ![p] = 0]
      /\ seq' = [seq EXCEPT ![p] = 0]
  BY <1>4 DEF Done, Begin
<1>10. /\ doing' \in [Client -> Calls] /\ on' \in [Client -> Nat] /\ seq' \in [Client -> Nat]
       /\ doing'[p] = "idle" /\ walk'[p] = <<>>
       /\ \A q \in Client : q # p =>
            doing'[q] = doing[q] /\ on'[q] = on[q] /\ seq'[q] = seq[q] /\ walk'[q] = walk[q]
  BY <1>1, <1>2, <1>4, <1>9 DEF PortTypes, Calls
<1>11. InCall(p)' /\ doing'[p] \notin Clearing
  BY <1>10 DEF InCall, Clearing
<1>12. Made' = Made
  BY <1>4 DEF Made, poolVars
<1>13. \A w \in Blocking, y \in Nat : w = "getbuf" \/ y # i =>
         Waiting(w, y)' = Waiting(w, y) /\ Present(w, y)' = Present(w, y)
  BY <1>5
<1>14. CASE Same(p, i)
  <2>1. Append1(p, i) /\ ptstate[i] = "alloc" /\ seq[p] = ptseq[i] /\ s.ok
    BY <1>3, <1>4, <1>14 DEF Same
  <2>2. Units(S \ {p}, s) = Units(S, s) - 1 /\ Units(S, s) >= 1
    BY <1>4, <1>5, <1>7, <2>1, GoesOn
  <2>3. PortInv(i)' /\ ptrsem'[i].ok = ptrsem[i].ok /\ ptrsem'[i] \in Sem
    <3>1. /\ ptstate'[i] = "alloc" /\ ptmaxcnt'[i] = ptmaxcnt[i] /\ ptrsem'[i] = Signaled(ptrsem[i])
          /\ Len(ptlist'[i]) = Len(ptlist[i]) + 1 /\ ptssem'[i] = s
      BY <1>2, <1>4, <2>1, Append1Facts
    <3>2. ToSet(ptssem'[i].queue) \subseteq Present("send", i)'
      BY <1>5, <1>7, <2>1, <3>1
    <3>3. Units(Present("send", i)', ptssem'[i]) = Units(S, s) - 1
      BY <1>5, <2>2, <3>1
    <3> QED
      BY <1>7, <1>8, <2>1, <2>2, <3>1, <3>2, <3>3, Appended
  <2>4. PortTypes'
    <3>1. ptlist' \in [Port -> Seq(Made)] /\ holds' \in [Client -> Made \cup {NoBuf}] /\ ptfree' \in Nat
      BY <1>2, <2>1, Append1Facts
    <3>2. ptrsem' \in [Port -> Sem]
      <4>1. ptrsem' = [ptrsem EXCEPT ![i] = Signaled(ptrsem[i])]
        BY <1>2, <2>1, Append1Facts
      <4> QED
        BY <1>1, <2>3, <4>1 DEF PortTypes
    <3> QED
      BY <1>1, <1>4, <1>10, <1>12, <3>1, <3>2 DEF PortTypes, poolVars
  <2>5. NodesAccount'
    BY <1>2, <1>4, <2>1, <2>4, Append1Facts, NodesMoved
  <2>6. \A j \in Port : j # i =>
          ptlist'[j] = ptlist[j] /\ ptssem'[j] = ptssem[j] /\ ptrsem'[j] = ptrsem[j]
    BY <1>2, <1>4, <2>1, Append1Facts
  <2>7. \A q \in Client : q # p =>
          /\ doing'[q] = doing[q] /\ on'[q] = on[q] /\ seq'[q] = seq[q]
          /\ holds'[q] = holds[q] /\ walk'[q] = walk[q]
    BY <1>2, <1>10, <2>1, Append1Facts
  <2>8. (ptssem'[i].ok <=> ptssem[i].ok) /\ (ptrsem'[i].ok <=> ptrsem[i].ok)
    BY <1>4, <2>3
  <2> QED
    BY <1>3, <1>4, <1>11, <1>13, <2>1, <2>3, <2>4, <2>5, <2>6, <2>7, <2>8, PortCall
<1>15. CASE ~Same(p, i)
  <2>1. UNCHANGED <<ptfree, ptlist, ptrsem, holds>> /\ p \notin S
    BY <1>3, <1>4, <1>5, <1>15 DEF Same
  <2>2. PortInv(i)'
    <3>1. Present("send", i)' = S
      BY <1>5, <2>1
    <3>2. ptssem'[i] = s /\ ptrsem'[i] = ptrsem[i] /\ ptlist'[i] = ptlist[i]
          /\ ptstate'[i] = ptstate[i] /\ ptmaxcnt'[i] = ptmaxcnt[i]
      BY <1>4, <2>1
    <3>3. ToSet(s.queue) \subseteq Waiting("send", i)'
      BY <1>5, <1>7
    <3> QED
      BY <1>6, <1>8, <3>1, <3>2, <3>3 DEF PortInv
  <2>3. PortTypes'
    BY <1>1, <1>4, <1>10, <1>12, <2>1 DEF PortTypes, poolVars
  <2>4. NodesAccount'
    BY <1>4, <2>1, NodesKept DEF AccountsInv
  <2>5. \A j \in Port :
          ptlist'[j] = ptlist[j] /\ ptssem'[j] = ptssem[j] /\ ptrsem'[j] = ptrsem[j]
    BY <1>4, <2>1
  <2>6. \A q \in Client : q # p =>
          /\ doing'[q] = doing[q] /\ on'[q] = on[q] /\ seq'[q] = seq[q]
          /\ holds'[q] = holds[q] /\ walk'[q] = walk[q]
    BY <1>10, <2>1
  <2> QED
    BY <1>3, <1>4, <1>11, <1>13, <2>2, <2>3, <2>4, <2>5, <2>6, PortCall
<1> QED
  BY <1>14, <1>15

\* Ptrecv: a message and its unit are taken, or the receiver is queued.
LEMMA PtrecvAccounts ==
  ASSUME AccountsInv, NEW p \in Client, NEW i \in Port, Ptrecv(p, i)
  PROVE  AccountsInv'
<1> DEFINE r == ptrsem[i]
           t == Waits(r, p)
           E == Present("recv", i)
<1>1. Port \subseteq Nat /\ PortTypes /\ i \in Nat /\ ptseq[i] \in Nat
  BY Basics DEF PortTypes
<1>2. PortInv(i) /\ InCall(p)
  BY DEF AccountsInv
<1>3. /\ doing[p] = "idle" /\ holds[p] = NoBuf /\ ptstate[i] = "alloc" /\ r.ok
      /\ UNCHANGED <<poolVars, ptstate, ptseq, ptmaxcnt, ptnextid, walk>>
      /\ ptrsem' = [ptrsem EXCEPT ![i] = t]
  BY DEF Ptrecv
<1>4. doing[p] \notin Blocking /\ doing[p] \notin Clearing /\ walk[p] = <<>>
  BY <1>2, <1>3 DEF Blocking, Clearing, InCall
<1>5. /\ Sound(r) /\ ToSet(r.queue) \subseteq E /\ E \in SUBSET Client
      /\ ToSet(r.queue) \subseteq Waiting("recv", i) /\ Len(ptlist[i]) = Units(E, r)
  BY <1>2, <1>3, Waiters DEF PortInv
<1> HIDE DEF t
<1>6. ptrsem'[i] = t /\ \A j \in Port : j # i => ptrsem'[j] = ptrsem[j]
  BY <1>1, <1>3 DEF PortTypes
<1>7. Made' = Made
  BY <1>3 DEF Made, poolVars
<1>8. CASE r.count > 0
  <2>1. Remove1(p, i) /\ UNCHANGED <<doing, on, seq>>
    BY <1>8 DEF Ptrecv
  <2>2. /\ Sound(t) /\ t.ok /\ ToSet(t.queue) = {} /\ Units(E, t) = Units(E, r) - 1
        /\ Units(E, r) >= 1
    BY <1>3, <1>5, <1>8, WaitTakes DEF t
  <2>0. ptlist[i] # <<>>
    <3>1. Len(ptlist[i]) # 0
      BY <1>5, <2>2
    <3> QED
      BY <3>1
  <2>3. \A w \in Blocking, y \in Nat : Waiting(w, y)' = Waiting(w, y) /\ Present(w, y)' = Present(w, y)
    BY <1>3, <2>1, Stays
  <2>4. /\ Waiting("send", i)' = Waiting("send", i) /\ Present("send", i)' = Present("send", i)
        /\ Present("recv", i)' = E
    BY <1>1, <2>3 DEF Blocking
  <2>5. PortInv(i)' /\ ptssem'[i].ok = ptssem[i].ok /\ ptssem'[i] \in Sem
    <3>1. /\ ptstate'[i] = "alloc" /\ ptmaxcnt'[i] = ptmaxcnt[i] /\ ptssem'[i] = Signaled(ptssem[i])
          /\ Len(ptlist'[i]) = Len(ptlist[i]) - 1
      BY <1>3, <2>0, <2>1, Remove1Facts
    <3>2. ToSet(ptrsem'[i].queue) \subseteq Present("recv", i)'
      BY <1>6, <2>2
    <3> QED
      BY <1>3, <1>6, <2>2, <2>4, <3>1, <3>2, Removed
  <2>6. PortTypes'
    <3>1. ptlist' \in [Port -> Seq(Made)] /\ holds' \in [Client -> Made \cup {NoBuf}] /\ ptfree' \in Nat
      BY <2>0, <2>1, Remove1Facts
    <3>2. ptssem' \in [Port -> Sem] /\ ptrsem' \in [Port -> Sem]
      <4>1. ptssem' = [ptssem EXCEPT ![i] = Signaled(ptssem[i])]
        BY <2>0, <2>1, Remove1Facts
      <4>2. ptssem'[i] = Signaled(ptssem[i])
        BY <2>0, <2>1, Remove1Facts
      <4> QED
        BY <1>1, <1>3, <2>2, <2>5, <4>1, <4>2 DEF PortTypes, Sound, SoundSem, Sem
    <3> QED
      BY <1>1, <1>3, <1>7, <2>1, <3>1, <3>2 DEF PortTypes, poolVars
  <2>7. NodesAccount'
    BY <1>3, <2>0, <2>1, <2>6, Remove1Facts, NodesMoved
  <2>8. InCall(p)'
    <3>1. doing'[p] = "idle" /\ walk'[p] = <<>>
      BY <1>3, <1>4, <2>1
    <3> QED
      BY <3>1 DEF InCall
  <2>9. \A j \in Port : j # i =>
          ptlist'[j] = ptlist[j] /\ ptssem'[j] = ptssem[j] /\ ptrsem'[j] = ptrsem[j]
    BY <1>6, <2>0, <2>1, Remove1Facts
  <2>10. \A q \in Client : q # p =>
           /\ doing'[q] = doing[q] /\ on'[q] = on[q] /\ seq'[q] = seq[q]
           /\ holds'[q] = holds[q] /\ walk'[q] = walk[q]
    BY <1>3, <2>0, <2>1, Remove1Facts
  <2>11. (ptssem'[i].ok <=> ptssem[i].ok) /\ (ptrsem'[i].ok <=> ptrsem[i].ok)
    BY <1>3, <1>6, <2>2, <2>5
  <2>12. doing'[p] \notin Clearing
    BY <1>4, <2>1
  <2> QED
    BY <1>3, <1>4, <2>3, <2>5, <2>6, <2>7, <2>8, <2>9, <2>10, <2>11, <2>12, PortCall
<1>9. CASE ~(r.count > 0)
  <2>1. Begin(p, "recv", i, ptseq[i]) /\ UNCHANGED <<ptfree, ptlist, ptssem, holds>>
    BY <1>9 DEF Ptrecv
  <2>2. /\ p \notin E /\ p \notin Waiting("recv", i)
        /\ Waiting("recv", i)' = Waiting("recv", i) \cup {p}
        /\ Present("recv", i)' = E \cup {p}
        /\ \A w \in Blocking, y \in Nat : w # "recv" \/ y # i =>
             Waiting(w, y)' = Waiting(w, y) /\ Present(w, y)' = Present(w, y)
    <3>1. "recv" \in Blocking
      BY DEF Blocking
    <3> HIDE DEF Begin
    <3> QED
      BY <1>1, <1>3, <1>4, <2>1, <3>1, Joins
  <2>3. ~Queued(r, p)
    BY <1>5, <2>2 DEF Queued
  <2>4. Sound(t) /\ t.ok /\ ToSet(t.queue) = ToSet(r.queue) \cup {p} /\ Units(E \cup {p}, t) = Units(E, r)
    BY <1>3, <1>5, <1>9, <2>2, <2>3, WaitQueues DEF t
  <2>5. PortInv(i)'
    <3>1. /\ Waiting("send", i)' = Waiting("send", i) /\ Present("send", i)' = Present("send", i)
      BY <1>1, <2>2 DEF Blocking
    <3>2. ToSet(t.queue) \subseteq Waiting("recv", i)' /\ ToSet(t.queue) \subseteq Present("recv", i)'
      BY <1>5, <2>2, <2>4
    <3>3. Units(Present("recv", i)', ptrsem'[i]) = Units(E, r)
      BY <1>6, <2>2, <2>4
    <3> QED
      BY <1>2, <1>3, <1>6, <2>1, <2>4, <3>1, <3>2, <3>3 DEF PortInv
  <2>6. /\ doing' = [doing EXCEPT ![p] = "recv"] /\ on' = [on EXCEPT ![p] = i]
        /\ seq' = [seq EXCEPT ![p] = ptseq[i]]
    BY <2>1 DEF Begin
  <2>7. PortTypes'
    <3>1. ptrsem' \in [Port -> Sem]
      BY <1>1, <1>3, <2>4 DEF PortTypes, Sound, SoundSem, Sem
    <3>2. doing' \in [Client -> Calls] /\ on' \in [Client -> Nat] /\ seq' \in [Client -> Nat]
      BY <1>1, <2>6 DEF PortTypes, Calls
    <3> QED
      BY <1>1, <1>3, <1>7, <2>1, <3>1, <3>2 DEF PortTypes, poolVars
  <2>8. /\ doing'[p] = "recv" /\ on'[p] = i /\ seq'[p] = ptseq[i] /\ holds'[p] = NoBuf
        /\ walk'[p] = <<>>
    BY <1>1, <1>3, <1>4, <2>1, <2>6 DEF PortTypes
  <2>9. InCall(p)' /\ doing'[p] \notin Clearing
    BY <1>1, <1>3, <1>6, <2>4, <2>8 DEF InCall, Clearing
  <2>10. \A q \in Client : q # p =>
           /\ doing'[q] = doing[q] /\ on'[q] = on[q] /\ seq'[q] = seq[q]
           /\ holds'[q] = holds[q] /\ walk'[q] = walk[q]
    BY <1>1, <1>3, <2>1, <2>6 DEF PortTypes
  <2>11. NodesAccount'
    BY <1>3, <2>1, NodesKept DEF AccountsInv
  <2>12. \A w \in Blocking, y \in Nat : w = "getbuf" \/ y # i =>
           Waiting(w, y)' = Waiting(w, y) /\ Present(w, y)' = Present(w, y)
    BY <2>2
  <2>13. (ptssem'[i].ok <=> ptssem[i].ok) /\ (ptrsem'[i].ok <=> ptrsem[i].ok)
    BY <1>3, <1>6, <2>1, <2>4
  <2>14. \A j \in Port : j # i =>
           ptlist'[j] = ptlist[j] /\ ptssem'[j] = ptssem[j] /\ ptrsem'[j] = ptrsem[j]
    BY <1>6, <2>1
  <2> QED
    BY <1>3, <1>4, <2>5, <2>7, <2>9, <2>10, <2>11, <2>12, <2>13, <2>14, PortCall
<1> QED
  BY <1>8, <1>9

\* PtrecvReturns: the message is there, if the port is the one that was meant.
LEMMA PtrecvReturnsAccounts ==
  ASSUME AccountsInv, NEW p \in Client, PtrecvReturns(p)
  PROVE  AccountsInv'
<1> DEFINE k == on[p]
<1>1. Port \subseteq Nat /\ PortTypes
  BY Basics DEF PortTypes
<1>2. /\ doing[p] = "recv" /\ k \in Port /\ holds[p] = NoBuf /\ walk[p] = <<>>
      /\ seq[p] = ptseq[k] => ptstate[k] = "alloc" /\ ptrsem[k].ok
  <2>1. InCall(p) /\ doing[p] = "recv"
    BY DEF AccountsInv, PtrecvReturns
  <2> QED
    BY <2>1 DEF InCall
<1> SUFFICES ASSUME NEW i \in Port, i = k
             PROVE  AccountsInv'
  BY <1>2
<1>3. /\ doing[p] \in Blocking /\ doing[p] \notin Clearing /\ i \in Nat /\ on[p] = i
      /\ seq[p] = ptseq[i] => ptstate[i] = "alloc" /\ ptrsem[i].ok
  BY <1>1, <1>2 DEF Blocking, Clearing
<1>4. /\ ~Queued(ptrsem[i], p) /\ Done(p)
      /\ IF Same(p, i) THEN Remove1(p, i) ELSE UNCHANGED <<ptfree, ptlist, ptssem, holds>>
      /\ UNCHANGED <<poolVars, ptrsem, ptstate, ptseq, ptmaxcnt, ptnextid, walk>>
  BY DEF PtrecvReturns
<1> HIDE DEF k
<1> DEFINE r == ptrsem[i]
           W == Waiting("recv", i)
           E == Present("recv", i)
<1>5. /\ p \in W /\ (seq[p] = ptseq[i] => p \in E) /\ (seq[p] # ptseq[i] => p \notin E)
      /\ Waiting("recv", i)' = W \ {p} /\ Present("recv", i)' = E \ {p}
      /\ \A w \in Blocking, y \in Nat : w # "recv" \/ y # i =>
           Waiting(w, y)' = Waiting(w, y) /\ Present(w, y)' = Present(w, y)
  <2>1. "recv" \in Blocking
    BY DEF Blocking
  <2> HIDE DEF Done
  <2> QED
    BY <1>1, <1>2, <1>3, <1>4, <2>1, Leaves
<1>6. PortInv(i)
  BY DEF AccountsInv
<1>7. /\ Sound(r) /\ ToSet(r.queue) \subseteq W \ {p} /\ E \in SUBSET Client
      /\ ptstate[i] = "alloc" => ToSet(r.queue) \subseteq E \ {p}
  <2>1. Sound(r) /\ ToSet(r.queue) \subseteq W /\ (ptstate[i] = "alloc" => ToSet(r.queue) \subseteq E)
    BY <1>6 DEF PortInv
  <2>2. E \in SUBSET Client
    BY Waiters
  <2> QED
    BY <1>4, <2>1, <2>2 DEF Queued
<1>8. /\ Waiting("send", i)' = Waiting("send", i) /\ Present("send", i)' = Present("send", i)
  BY <1>3, <1>5 DEF Blocking
<1>9. /\ doing' = [doing EXCEPT ![p] = "idle"] /\ on' = [on EXCEPT ![p] = 0]
      /\ seq' = [seq EXCEPT ![p] = 0]
  BY <1>4 DEF Done, Begin
<1>10. /\ doing' \in [Client -> Calls] /\ on' \in [Client -> Nat] /\ seq' \in [Client -> Nat]
       /\ doing'[p] = "idle" /\ walk'[p] = <<>>
       /\ \A q \in Client : q # p =>
            doing'[q] = doing[q] /\ on'[q] = on[q] /\ seq'[q] = seq[q] /\ walk'[q] = walk[q]
  BY <1>1, <1>2, <1>4, <1>9 DEF PortTypes, Calls
<1>11. InCall(p)' /\ doing'[p] \notin Clearing
  BY <1>10 DEF InCall, Clearing
<1>12. Made' = Made
  BY <1>4 DEF Made, poolVars
<1>13. \A w \in Blocking, y \in Nat : w = "getbuf" \/ y # i =>
         Waiting(w, y)' = Waiting(w, y) /\ Present(w, y)' = Present(w, y)
  BY <1>5
<1>14. CASE Same(p, i)
  <2>1. Remove1(p, i) /\ ptstate[i] = "alloc" /\ seq[p] = ptseq[i] /\ r.ok
    BY <1>3, <1>4, <1>14 DEF Same
  <2>2. Units(E \ {p}, r) = Units(E, r) - 1 /\ Units(E, r) >= 1
    BY <1>4, <1>5, <1>7, <2>1, GoesOn
  <2>0. ptlist[i] # <<>>
    <3>1. Len(ptlist[i]) = Units(E, r)
      BY <1>6, <2>1 DEF PortInv
    <3>2. Len(ptlist[i]) # 0
      BY <2>2, <3>1
    <3> QED
      BY <3>2
  <2>3. PortInv(i)' /\ ptssem'[i].ok = ptssem[i].ok /\ ptssem'[i] \in Sem
    <3>1. /\ ptstate'[i] = "alloc" /\ ptmaxcnt'[i] = ptmaxcnt[i] /\ ptssem'[i] = Signaled(ptssem[i])
          /\ Len(ptlist'[i]) = Len(ptlist[i]) - 1 /\ ptrsem'[i] = r
      BY <1>4, <2>0, <2>1, Remove1Facts
    <3>2. ToSet(ptrsem'[i].queue) \subseteq Present("recv", i)'
      BY <1>5, <1>7, <2>1, <3>1
    <3>3. Units(Present("recv", i)', ptrsem'[i]) = Units(E, r) - 1
      BY <1>5, <2>2, <3>1
    <3> QED
      BY <1>7, <1>8, <2>1, <3>1, <3>2, <3>3, Removed
  <2>4. PortTypes'
    <3>1. ptlist' \in [Port -> Seq(Made)] /\ holds' \in [Client -> Made \cup {NoBuf}] /\ ptfree' \in Nat
      BY <2>0, <2>1, Remove1Facts
    <3>2. ptssem' \in [Port -> Sem]
      <4>1. ptssem' = [ptssem EXCEPT ![i] = Signaled(ptssem[i])] /\ ptssem'[i] = Signaled(ptssem[i])
        BY <2>0, <2>1, Remove1Facts
      <4> QED
        BY <1>1, <2>3, <4>1 DEF PortTypes
    <3> QED
      BY <1>1, <1>4, <1>10, <1>12, <3>1, <3>2 DEF PortTypes, poolVars
  <2>5. NodesAccount'
    BY <1>4, <2>0, <2>1, <2>4, Remove1Facts, NodesMoved
  <2>6. \A j \in Port : j # i =>
          ptlist'[j] = ptlist[j] /\ ptssem'[j] = ptssem[j] /\ ptrsem'[j] = ptrsem[j]
    BY <1>4, <2>0, <2>1, Remove1Facts
  <2>7. \A q \in Client : q # p =>
          /\ doing'[q] = doing[q] /\ on'[q] = on[q] /\ seq'[q] = seq[q]
          /\ holds'[q] = holds[q] /\ walk'[q] = walk[q]
    BY <1>10, <2>0, <2>1, Remove1Facts
  <2>8. (ptssem'[i].ok <=> ptssem[i].ok) /\ (ptrsem'[i].ok <=> ptrsem[i].ok)
    BY <1>4, <2>3
  <2> QED
    BY <1>3, <1>4, <1>11, <1>13, <2>1, <2>3, <2>4, <2>5, <2>6, <2>7, <2>8, PortCall
<1>15. CASE ~Same(p, i)
  <2>1. UNCHANGED <<ptfree, ptlist, ptssem, holds>> /\ p \notin E
    BY <1>3, <1>4, <1>5, <1>15 DEF Same
  <2>2. PortInv(i)'
    <3>1. Present("recv", i)' = E
      BY <1>5, <2>1
    <3>2. ptrsem'[i] = r /\ ptssem'[i] = ptssem[i] /\ ptlist'[i] = ptlist[i]
          /\ ptstate'[i] = ptstate[i] /\ ptmaxcnt'[i] = ptmaxcnt[i]
      BY <1>4, <2>1
    <3>3. ToSet(r.queue) \subseteq Waiting("recv", i)'
      BY <1>5, <1>7
    <3> QED
      BY <1>6, <1>8, <3>1, <3>2, <3>3 DEF PortInv
  <2>3. PortTypes'
    BY <1>1, <1>4, <1>10, <1>12, <2>1 DEF PortTypes, poolVars
  <2>4. NodesAccount'
    BY <1>4, <2>1, NodesKept DEF AccountsInv
  <2>5. \A j \in Port :
          ptlist'[j] = ptlist[j] /\ ptssem'[j] = ptssem[j] /\ ptrsem'[j] = ptrsem[j]
    BY <1>4, <2>1
  <2>6. \A q \in Client : q # p =>
          /\ doing'[q] = doing[q] /\ on'[q] = on[q] /\ seq'[q] = seq[q]
          /\ holds'[q] = holds[q] /\ walk'[q] = walk[q]
    BY <1>10, <2>1
  <2> QED
    BY <1>3, <1>4, <1>11, <1>13, <2>2, <2>3, <2>4, <2>5, <2>6, PortCall
<1> QED
  BY <1>14, <1>15

\* A step in the life of port i, by no one who waits: a process that waited on it
\* finds later that the port is not the one it meant.
LEMMA PortChange ==
  ASSUME AccountsInv, PortTypes', NEW i \in Port, UNCHANGED <<poolVars, holds>>,
         \A j \in Port : j # i =>
           /\ ptstate'[j] = ptstate[j] /\ ptseq'[j] = ptseq[j] /\ ptmaxcnt'[j] = ptmaxcnt[j]
           /\ ptlist'[j] = ptlist[j] /\ ptssem'[j] = ptssem[j] /\ ptrsem'[j] = ptrsem[j],
         ptseq[i] <= ptseq'[i], ptseq'[i] = ptseq[i] => ptstate[i] # "alloc",
         \A w \in Blocking, y \in Nat :
           Waiting(w, y)' = Waiting(w, y) /\ (ptseq'[y] = ptseq[y] => Present(w, y)' = Present(w, y)),
         \A q \in Client :
           \/ /\ doing'[q] = doing[q] /\ on'[q] = on[q] /\ seq'[q] = seq[q] /\ walk'[q] = walk[q]
              /\ doing[q] \in Clearing => on[q] # i
           \/ InCall(q)' /\ Clears(q)' /\ (doing'[q] \in Clearing => on'[q] = i),
         PortInv(i)', NodesAccount'
  PROVE  AccountsInv'
<1>1. /\ Port \subseteq Nat /\ Pool \subseteq Nat /\ PortTypes /\ nbpools \in Nat
      /\ ptseq[i] \in Nat /\ ptseq'[i] \in Nat
  BY Basics DEF PortTypes
<1>2. UNCHANGED <<nbpools, bpnext, bpsem, holds>>
  BY DEF poolVars
<1>3. ASSUME NEW k \in Pool
      PROVE  PoolInv(k)'
  <2>1. k \in Nat /\ PoolInv(k)
    BY <1>1 DEF AccountsInv
  <2>2. Waiting("getbuf", k)' = Waiting("getbuf", k)
    BY <2>1 DEF Blocking
  <2> QED
    BY <1>2, <2>1, <2>2, PoolKept
<1>4. ASSUME NEW j \in Port, j # i
      PROVE  PortInv(j)'
  <2>1. j \in Nat /\ PortInv(j)
    BY <1>1 DEF AccountsInv
  <2>2. /\ ptstate'[j] = ptstate[j] /\ ptseq'[j] = ptseq[j] /\ ptmaxcnt'[j] = ptmaxcnt[j]
        /\ ptlist'[j] = ptlist[j] /\ ptssem'[j] = ptssem[j] /\ ptrsem'[j] = ptrsem[j]
    BY <1>4
  <2>3. /\ Waiting("send", j)' = Waiting("send", j) /\ Present("send", j)' = Present("send", j)
        /\ Waiting("recv", j)' = Waiting("recv", j) /\ Present("recv", j)' = Present("recv", j)
    BY <2>1, <2>2 DEF Blocking
  <2> QED
    BY <2>1, <2>2, <2>3, PortKept
<1>5. ASSUME NEW q \in Client
      PROVE  InCall(q)'
  <2>1. CASE /\ doing'[q] = doing[q] /\ on'[q] = on[q] /\ seq'[q] = seq[q] /\ walk'[q] = walk[q]
    <3>1. InCall(q) /\ seq[q] \in Nat
      BY <1>1 DEF AccountsInv, PortTypes
    <3>2. CASE doing[q] \in {"send", "recv"} /\ on[q] = i
      <4>1. seq[q] <= ptseq[i] /\ (seq[q] = ptseq[i] => ptstate[i] = "alloc")
            /\ walk[q] = <<>> /\ (doing[q] = "send" => holds[q] # NoBuf)
            /\ (doing[q] = "recv" => holds[q] = NoBuf)
        BY <3>1, <3>2 DEF InCall
      <4>2. seq[q] <= ptseq'[i] /\ seq[q] # ptseq'[i]
        BY <1>1, <3>1, <4>1
      <4> QED
        BY <1>2, <2>1, <3>2, <4>1, <4>2 DEF InCall
    <3>3. CASE ~(doing[q] \in {"send", "recv"} /\ on[q] = i)
      <4>1. CASE doing[q] = "getbuf"
        BY <1>2, <2>1, <3>1, <4>1 DEF InCall
      <4>2. CASE doing[q] # "getbuf"
        <5>1. on[q] \in Port /\ doing[q] \in Blocking =>
                /\ ptseq'[on[q]] = ptseq[on[q]] /\ ptstate'[on[q]] = ptstate[on[q]]
                /\ ptssem'[on[q]].ok <=> ptssem[on[q]].ok
                /\ ptrsem'[on[q]].ok <=> ptrsem[on[q]].ok
          BY <3>3, <4>2 DEF Blocking
        <5>2. nbpools' \in Nat /\ nbpools <= nbpools' /\ holds'[q] = holds[q]
          BY <1>1, <1>2
        <5> QED
          BY <1>1, <2>1, <3>1, <5>1, <5>2, CallKept
      <4> QED
        BY <4>1, <4>2
    <3> QED
      BY <3>2, <3>3
  <2> QED
    BY <2>1
<1>6. ASSUME NEW q \in Client
      PROVE  Clears(q)'
  <2>1. CASE /\ doing'[q] = doing[q] /\ on'[q] = on[q] /\ doing[q] \in Clearing /\ on[q] # i
    <3>1. Clears(q)
      BY DEF AccountsInv
    <3>2. ASSUME NEW r \in Client, doing'[r] \in Clearing, on'[r] = on[q]
          PROVE  doing[r] \in Clearing /\ on[r] = on[q]
      BY <2>1, <3>2
    <3>3. on[q] \in Port /\ ptstate[on[q]] = "limbo" =>
            /\ ptstate'[on[q]] = ptstate[on[q]] /\ ptlist'[on[q]] = ptlist[on[q]]
            /\ ptmaxcnt'[on[q]] = ptmaxcnt[on[q]]
            /\ ptssem'[on[q]] = ptssem[on[q]] /\ ptrsem'[on[q]] = ptrsem[on[q]]
      BY <2>1
    <3>4. doing'[q] = doing[q] /\ on'[q] = on[q]
      BY <2>1
    <3> QED
      BY <3>1, <3>2, <3>3, <3>4, ClearsKept
  <2>2. CASE doing'[q] \notin Clearing
    BY <2>2 DEF Clears
  <2> QED
    BY <2>1, <2>2
<1> QED
  BY <1>3, <1>4, <1>5, <1>6 DEF AccountsInv

\* Nobody waits on a port in a life it has not begun, or that is over.
LEMMA NoneIn ==
  ASSUME AccountsInv, NEW i \in Port, NEW w \in {"send", "recv"},
         ptseq'[i] \in Nat, ptseq[i] <= ptseq'[i], ptseq'[i] = ptseq[i] => ptstate[i] # "alloc",
         \A q \in Client : doing'[q] \in Blocking =>
           doing'[q] = doing[q] /\ on'[q] = on[q] /\ seq'[q] = seq[q]
  PROVE  Present(w, i)' = {}
<1>1. ASSUME NEW q \in Present(w, i)'
      PROVE  FALSE
  <2>1. q \in Client /\ doing'[q] = w /\ on'[q] = i /\ seq'[q] = ptseq'[i]
    BY DEF Present, Waiting
  <2>2. doing[q] = w /\ on[q] = i /\ seq[q] = ptseq'[i]
    BY <2>1 DEF Blocking
  <2>3. seq[q] <= ptseq[i] /\ (seq[q] = ptseq[i] => ptstate[i] = "alloc")
    BY <2>1, <2>2 DEF AccountsInv, InCall
  <2>4. seq[q] \in Nat /\ ptseq[i] \in Nat
    BY <2>1, Basics DEF PortTypes
  <2> QED
    BY <2>2, <2>3, <2>4
<1> QED
  BY <1>1

\* Ptclear: the port's life is over, and nobody waits on it in the next.
LEMMA PtclearAccounts ==
  ASSUME AccountsInv, NEW p \in Client, NEW i \in Port, NEW new \in {"reset", "delete"},
         Ptclear(p, i, new)
  PROVE  AccountsInv'
<1>1. Port \subseteq Nat /\ PortTypes /\ i \in Nat /\ ptseq[i] \in Nat
  BY Basics DEF PortTypes
<1>2. /\ doing[p] = "idle" /\ ptstate[i] = "alloc"
      /\ ptstate' = [ptstate EXCEPT ![i] = "limbo"]
      /\ ptseq' = [ptseq EXCEPT ![i] = ptseq[i] + 1]
      /\ doing' = [doing EXCEPT ![p] = new] /\ on' = [on EXCEPT ![p] = i]
      /\ seq' = [seq EXCEPT ![p] = 0] /\ walk' = [walk EXCEPT ![p] = ptlist[i]]
      /\ UNCHANGED <<poolVars, ptmaxcnt, ptlist, ptssem, ptrsem, ptfree, ptnextid, holds>>
  BY DEF Ptclear, Begin
<1>3. /\ ptstate'[i] = "limbo" /\ ptseq'[i] = ptseq[i] + 1 /\ doing'[p] = new /\ on'[p] = i
      /\ \A j \in Port : j # i => ptstate'[j] = ptstate[j] /\ ptseq'[j] = ptseq[j]
      /\ \A q \in Client : q # p =>
           doing'[q] = doing[q] /\ on'[q] = on[q] /\ seq'[q] = seq[q] /\ walk'[q] = walk[q]
  BY <1>1, <1>2 DEF PortTypes
<1>4. PortTypes'
  <2>1. ptlist[i] \in Seq(Made) /\ Made' = Made
    BY <1>1, <1>2 DEF PortTypes, Made, poolVars
  <2>2. ptstate' \in [Port -> {"free", "alloc", "limbo"}] /\ ptseq' \in [Port -> Nat]
    BY <1>1, <1>2 DEF PortTypes
  <2>3. /\ doing' \in [Client -> Calls] /\ on' \in [Client -> Nat] /\ seq' \in [Client -> Nat]
        /\ walk' \in [Client -> Seq(Made)]
    BY <1>1, <1>2, <2>1 DEF PortTypes, Calls, Clearing
  <2> QED
    BY <1>1, <1>2, <2>1, <2>2, <2>3 DEF PortTypes, poolVars
<1>5. \A w \in Blocking, y \in Nat :
        Waiting(w, y)' = Waiting(w, y) /\ (ptseq'[y] = ptseq[y] => Present(w, y)' = Present(w, y))
  <2>1. doing[p] \notin Blocking /\ doing'[p] \notin Blocking
    BY <1>2, <1>3 DEF Blocking
  <2> QED
    BY <1>1, <1>3, <2>1, Passes
<1>6. PortInv(i)'
  <2>1. PortInv(i)
    BY DEF AccountsInv
  <2>2. Waiting("send", i)' = Waiting("send", i) /\ Waiting("recv", i)' = Waiting("recv", i)
    BY <1>1, <1>5 DEF Blocking
  <2> QED
    BY <1>2, <1>3, <2>1, <2>2 DEF PortInv
<1>7. NodesAccount'
  <2>1. Used' = Used
    BY <1>2, <1>3 DEF Used
  <2>2. Lens' = Lens /\ Promised' = Promised
    BY <1>2, <2>1 DEF Lens, Promised, Used
  <2>3. NodesAccount
    BY DEF AccountsInv
  <2> QED
    BY <1>2, <2>1, <2>2, <2>3 DEF NodesAccount
<1>8. \A q \in Client : doing[q] \in Clearing => on[q] # i
  BY <1>2 DEF AccountsInv, Clears
<1>9. InCall(p)' /\ Clears(p)'
  <2>1. InCall(p)'
    BY <1>3 DEF InCall
  <2>2. \A q \in Client : doing'[q] \in Clearing /\ on'[q] = i => q = p
    BY <1>3, <1>8
  <2>3. PortInv(i)
    BY DEF AccountsInv
  <2>4. ptrsem'[i].ok => ptssem'[i].ok
    BY <1>2, <2>3 DEF PortInv
  <2>5. Clears(p)'
    BY <1>3, <2>2, <2>4 DEF Clears
  <2> QED
    BY <2>1, <2>5
<1>10. \A q \in Client :
         \/ /\ doing'[q] = doing[q] /\ on'[q] = on[q] /\ seq'[q] = seq[q] /\ walk'[q] = walk[q]
            /\ doing[q] \in Clearing => on[q] # i
         \/ InCall(q)' /\ Clears(q)' /\ (doing'[q] \in Clearing => on'[q] = i)
  BY <1>3, <1>8, <1>9
<1>11. ptseq[i] <= ptseq'[i] /\ ptseq'[i] # ptseq[i]
  BY <1>1, <1>3
<1> QED
  BY <1>2, <1>3, <1>4, <1>5, <1>6, <1>7, <1>10, <1>11, PortChange

\* The process that clears a port, and what it has done so far.
LEMMA Clearer ==
  ASSUME AccountsInv, NEW p \in Client, doing[p] \in Clearing, NEW i, i = on[p]
  PROVE  /\ i \in Port /\ ptstate[i] = "limbo" /\ PortInv(i)
         /\ \A q \in Client : q # p => (doing[q] \in Clearing => on[q] # i)
         /\ doing[p] \notin {"reset", "delete"} => ptlist[i] = <<>> /\ walk[p] = <<>>
         /\ doing[p] \in {"reset", "reset2", "reset3"} => (ptrsem[i].ok => ptssem[i].ok)
         /\ doing[p] \in {"reset2", "reset3"} => ptssem[i] \in {NewSem(ptmaxcnt[i]), BadSem}
         /\ doing[p] = "reset3" => ptrsem[i] \in {NewSem(0), BadSem}
<1>1. Clears(p) /\ InCall(p)
  BY DEF AccountsInv
<1>2. i \in Port
  BY <1>1 DEF Clears
<1>3. PortInv(i)
  BY <1>2 DEF AccountsInv
<1> QED
  BY <1>1, <1>2, <1>3 DEF Clears, InCall

\* A step of the process that clears a port.
LEMMA ClearingStep ==
  ASSUME AccountsInv, PortTypes', NEW p \in Client, NEW i, i = on[p], doing[p] \in Clearing,
         doing'[p] \notin Blocking, doing'[p] \in Clearing => on'[p] = i,
         UNCHANGED <<poolVars, holds, ptseq, ptmaxcnt, walk>>,
         \A j \in Port : j # i =>
           /\ ptstate'[j] = ptstate[j] /\ ptlist'[j] = ptlist[j]
           /\ ptssem'[j] = ptssem[j] /\ ptrsem'[j] = ptrsem[j],
         \A q \in Client : q # p => doing'[q] = doing[q] /\ on'[q] = on[q] /\ seq'[q] = seq[q],
         walk[p] = <<>>, doing'[p] \in Clearing => Clears(p)',
         PortInv(i)', NodesAccount'
  PROVE  AccountsInv'
<1>1. Port \subseteq Nat /\ PortTypes
  BY Basics
<1>2. /\ i \in Port /\ ptstate[i] = "limbo"
      /\ \A q \in Client : q # p => (doing[q] \in Clearing => on[q] # i)
  BY Clearer
<1>3. doing[p] \notin Blocking
  BY DEF Clearing, Blocking
<1>4. \A w \in Blocking, y \in Nat :
        Waiting(w, y)' = Waiting(w, y) /\ (ptseq'[y] = ptseq[y] => Present(w, y)' = Present(w, y))
  BY <1>1, <1>3, Passes
<1>5. InCall(p)' /\ Clears(p)'
  <2>1. InCall(p)'
    BY DEF InCall, Blocking
  <2>2. Clears(p)'
    BY DEF Clears
  <2> QED
    BY <2>1, <2>2
<1>6. \A q \in Client :
        \/ /\ doing'[q] = doing[q] /\ on'[q] = on[q] /\ seq'[q] = seq[q] /\ walk'[q] = walk[q]
           /\ doing[q] \in Clearing => on[q] # i
        \/ InCall(q)' /\ Clears(q)' /\ (doing'[q] \in Clearing => on'[q] = i)
  BY <1>2, <1>5
<1>7. \A j \in Port : j # i =>
        /\ ptstate'[j] = ptstate[j] /\ ptseq'[j] = ptseq[j] /\ ptmaxcnt'[j] = ptmaxcnt[j]
        /\ ptlist'[j] = ptlist[j] /\ ptssem'[j] = ptssem[j] /\ ptrsem'[j] = ptrsem[j]
  OBVIOUS
<1>8. ptseq[i] <= ptseq'[i] /\ ptstate[i] # "alloc"
  BY <1>1, <1>2 DEF PortTypes
<1> QED
  BY <1>2, <1>4, <1>6, <1>7, <1>8, PortChange

\* LetSendersGo: the nodes go back, and no sender is queued any more.
LEMMA LetSendersGoAccounts ==
  ASSUME AccountsInv, NEW p \in Client, LetSendersGo(p)
  PROVE  AccountsInv'
<1> SUFFICES ASSUME NEW i, i = on[p]
             PROVE  AccountsInv'
  OBVIOUS
<1> DEFINE n == ptmaxcnt[i]
           s == IF doing[p] = "reset" THEN Emptied(ptssem[i], n) ELSE BadSem
           next == IF doing[p] = "reset" THEN "reset2" ELSE "delete2"
<1>1. /\ doing[p] \in {"reset", "delete"} /\ walk[p] = <<>>
      /\ ptfree' = ptfree + Len(ptlist[i]) /\ ptlist' = [ptlist EXCEPT ![i] = <<>>]
      /\ ptssem' = [ptssem EXCEPT ![i] = s] /\ doing' = [doing EXCEPT ![p] = next]
      /\ UNCHANGED <<poolVars, ptstate, ptseq, ptmaxcnt, ptrsem, ptnextid, on, seq, holds, walk>>
  BY DEF LetSendersGo
<1>2. doing[p] \in Clearing
  BY <1>1 DEF Clearing
<1>3. /\ i \in Port /\ ptstate[i] = "limbo" /\ PortInv(i)
      /\ \A q \in Client : q # p => (doing[q] \in Clearing => on[q] # i)
      /\ doing[p] = "reset" => (ptrsem[i].ok => ptssem[i].ok)
  BY <1>1, <1>2, Clearer
<1>4. PortTypes /\ n \in Nat /\ Len(ptlist[i]) \in Nat /\ Sound(ptssem[i])
  BY <1>3, Basics, SMTT(30) DEF PortTypes, PortInv
<1>5. /\ Sound(s) /\ ToSet(s.queue) = {} /\ s \in {NewSem(n), BadSem}
      /\ doing[p] = "reset" => (s.ok <=> ptssem[i].ok)
  BY <1>4, EmptiedFacts, FreshSem
<1>6. next \in {"reset2", "delete2"} /\ (next = "reset2" => doing[p] = "reset")
  OBVIOUS
<1> HIDE DEF s, next
<1>7. /\ ptlist'[i] = <<>> /\ ptssem'[i] = s /\ doing'[p] = next
      /\ \A j \in Port : j # i => ptlist'[j] = ptlist[j] /\ ptssem'[j] = ptssem[j]
      /\ \A q \in Client : q # p => doing'[q] = doing[q]
  BY <1>1, <1>3, <1>4 DEF PortTypes
<1>8. PortTypes'
  <2>1. ptlist' \in [Port -> Seq(Made)] /\ ptssem' \in [Port -> Sem] /\ ptfree' \in Nat
    <3>1. s \in Sem /\ <<>> \in Seq(Made)
      BY <1>5 DEF Sound, SoundSem, Sem
    <3>2. ptlist' \in [Port -> Seq(Made)]
      BY <1>1, <1>4, <3>1 DEF PortTypes
    <3>3. ptssem' \in [Port -> Sem]
      BY <1>1, <1>4, <3>1 DEF PortTypes
    <3>4. ptfree' \in Nat
      BY <1>1, <1>4 DEF PortTypes
    <3> QED
      BY <3>2, <3>3, <3>4
  <2>2. doing' \in [Client -> Calls]
    BY <1>1, <1>4, <1>6 DEF PortTypes, Calls, Clearing
  <2>3. Made' = Made
    BY <1>1 DEF Made, poolVars
  <2> QED
    BY <1>1, <1>4, <2>1, <2>2, <2>3 DEF PortTypes, poolVars
<1>9. PortInv(i)'
  <2>1. ptstate'[i] = "limbo" /\ ptrsem'[i] = ptrsem[i] /\ ptmaxcnt'[i] = n
    BY <1>1, <1>3
  <2>2. Waiting("recv", i)' = Waiting("recv", i)
    BY <1>1, <1>6, <1>7 DEF Waiting
  <2> QED
    BY <1>3, <1>4, <1>5, <1>7, <2>1, <2>2 DEF PortInv
<1>10. NodesAccount'
  <2>1. ptfree' + Len(ptlist'[i]) = ptfree + Len(ptlist[i])
    BY <1>1, <1>4, <1>7 DEF PortTypes
  <2> QED
    BY <1>1, <1>3, <1>7, <1>8, <2>1, NodesMoved
<1>11. Clears(p)'
  <2>1. \A q \in Client : doing'[q] \in Clearing /\ on'[q] = i => q = p
    BY <1>1, <1>3, <1>7
  <2>2. next = "reset2" => (ptrsem[i].ok => s.ok)
    BY <1>3, <1>5, <1>6
  <2> QED
    BY <1>1, <1>3, <1>5, <1>6, <1>7, <2>1, <2>2 DEF Clears
<1>12. doing'[p] \notin Blocking
  BY <1>6, <1>7 DEF Blocking
<1>13. UNCHANGED <<poolVars, holds, ptseq, ptmaxcnt, walk>> /\ on'[p] = i
  BY <1>1
<1>14. \A j \in Port : j # i =>
         /\ ptstate'[j] = ptstate[j] /\ ptlist'[j] = ptlist[j]
         /\ ptssem'[j] = ptssem[j] /\ ptrsem'[j] = ptrsem[j]
  BY <1>1, <1>7
<1>15. \A q \in Client : q # p => doing'[q] = doing[q] /\ on'[q] = on[q] /\ seq'[q] = seq[q]
  BY <1>1, <1>7
<1> QED
  BY <1>1, <1>2, <1>8, <1>9, <1>10, <1>11, <1>12, <1>13, <1>14, <1>15, ClearingStep

\* LetReceiversGo: no receiver is queued any more.
LEMMA LetReceiversGoAccounts ==
  ASSUME AccountsInv, NEW p \in Client, LetReceiversGo(p)
  PROVE  AccountsInv'
<1> SUFFICES ASSUME NEW i, i = on[p]
             PROVE  AccountsInv'
  OBVIOUS
<1> DEFINE s == IF doing[p] = "reset2" THEN Emptied(ptrsem[i], 0) ELSE BadSem
           next == IF doing[p] = "reset2" THEN "reset3" ELSE "delete3"
<1>1. /\ doing[p] \in {"reset2", "delete2"}
      /\ ptrsem' = [ptrsem EXCEPT ![i] = s] /\ doing' = [doing EXCEPT ![p] = next]
      /\ UNCHANGED <<poolVars, ptstate, ptseq, ptmaxcnt, ptlist, ptssem, ptfree, ptnextid,
                     on, seq, holds, walk>>
  BY DEF LetReceiversGo
<1>2. doing[p] \in Clearing
  BY <1>1 DEF Clearing
<1>3. /\ i \in Port /\ ptstate[i] = "limbo" /\ PortInv(i) /\ ptlist[i] = <<>> /\ walk[p] = <<>>
      /\ \A q \in Client : q # p => (doing[q] \in Clearing => on[q] # i)
      /\ doing[p] = "reset2" => (ptrsem[i].ok => ptssem[i].ok)
      /\ doing[p] = "reset2" => ptssem[i] \in {NewSem(ptmaxcnt[i]), BadSem}
  BY <1>1, <1>2, Clearer
<1>4. PortTypes /\ Sound(ptrsem[i])
  BY <1>3, Basics DEF PortInv
<1>5. /\ Sound(s) /\ ToSet(s.queue) = {} /\ s \in {NewSem(0), BadSem}
      /\ doing[p] = "reset2" => (s.ok <=> ptrsem[i].ok)
  BY <1>4, EmptiedFacts, FreshSem
<1>6. next \in {"reset3", "delete3"} /\ (next = "reset3" => doing[p] = "reset2")
  BY <1>1
<1> HIDE DEF s, next
<1>7. /\ ptrsem'[i] = s /\ doing'[p] = next
      /\ \A j \in Port : j # i => ptrsem'[j] = ptrsem[j]
      /\ \A q \in Client : q # p => doing'[q] = doing[q]
  BY <1>1, <1>3, <1>4 DEF PortTypes
<1>8. PortTypes'
  <2>1. ptrsem' \in [Port -> Sem] /\ doing' \in [Client -> Calls]
    BY <1>1, <1>4, <1>5, <1>6 DEF PortTypes, Sound, SoundSem, Sem, Calls, Clearing
  <2>2. Made' = Made
    BY <1>1 DEF Made, poolVars
  <2> QED
    BY <1>1, <1>4, <2>1, <2>2 DEF PortTypes, poolVars
<1>9. PortInv(i)'
  <2>1. ptstate'[i] = "limbo" /\ ptssem'[i] = ptssem[i] /\ ptlist'[i] = ptlist[i]
        /\ ptmaxcnt'[i] = ptmaxcnt[i]
    BY <1>1, <1>3
  <2>2. Waiting("send", i)' = Waiting("send", i)
    BY <1>1, <1>6, <1>7 DEF Waiting
  <2> QED
    BY <1>3, <1>5, <1>7, <2>1, <2>2 DEF PortInv
<1>10. NodesAccount'
  BY <1>1, NodesKept DEF AccountsInv
<1>11. Clears(p)'
  <2>1. \A q \in Client : doing'[q] \in Clearing /\ on'[q] = i => q = p
    BY <1>1, <1>3, <1>7
  <2>2. next = "reset3" => (s.ok => ptssem[i].ok) /\ ptssem[i] \in {NewSem(ptmaxcnt[i]), BadSem}
    BY <1>3, <1>5, <1>6
  <2> QED
    BY <1>1, <1>3, <1>5, <1>6, <1>7, <2>1, <2>2 DEF Clears
<1>12. doing'[p] \notin Blocking
  BY <1>6, <1>7 DEF Blocking
<1>13. UNCHANGED <<poolVars, holds, ptseq, ptmaxcnt, walk>> /\ on'[p] = i
  BY <1>1
<1>14. \A j \in Port : j # i =>
         /\ ptstate'[j] = ptstate[j] /\ ptlist'[j] = ptlist[j]
         /\ ptssem'[j] = ptssem[j] /\ ptrsem'[j] = ptrsem[j]
  BY <1>1, <1>7
<1>15. \A q \in Client : q # p => doing'[q] = doing[q] /\ on'[q] = on[q] /\ seq'[q] = seq[q]
  BY <1>1, <1>7
<1> QED
  BY <1>2, <1>3, <1>8, <1>9, <1>10, <1>11, <1>12, <1>13, <1>14, <1>15, ClearingStep

\* PtclearReturns: the semaphores count an empty port, or the port is free.
LEMMA PtclearReturnsAccounts ==
  ASSUME AccountsInv, NEW p \in Client, PtclearReturns(p)
  PROVE  AccountsInv'
<1> SUFFICES ASSUME NEW i, i = on[p]
             PROVE  AccountsInv'
  OBVIOUS
<1> DEFINE new == IF doing[p] = "reset3" THEN "alloc" ELSE "free"
<1>1. /\ doing[p] \in {"reset3", "delete3"}
      /\ ptstate' = [ptstate EXCEPT ![i] = new]
      /\ doing' = [doing EXCEPT ![p] = "idle"] /\ on' = [on EXCEPT ![p] = 0]
      /\ seq' = [seq EXCEPT ![p] = 0]
      /\ UNCHANGED <<poolVars, ptseq, ptmaxcnt, ptlist, ptssem, ptrsem, ptfree, holds, walk>>
  BY DEF PtclearReturns, Done, Begin
<1>2. doing[p] \in Clearing
  BY <1>1 DEF Clearing
<1>3. /\ i \in Port /\ ptstate[i] = "limbo" /\ PortInv(i) /\ ptlist[i] = <<>> /\ walk[p] = <<>>
      /\ doing[p] = "reset3" => (ptrsem[i].ok => ptssem[i].ok)
      /\ doing[p] = "reset3" => ptssem[i] \in {NewSem(ptmaxcnt[i]), BadSem}
      /\ doing[p] = "reset3" => ptrsem[i] \in {NewSem(0), BadSem}
  BY <1>1, <1>2, Clearer
<1>4. PortTypes /\ i \in Nat /\ ptmaxcnt[i] \in Nat /\ ptseq[i] \in Nat
  BY <1>3, Basics DEF PortTypes
<1>5. new \in {"alloc", "free"} /\ (new = "alloc" <=> doing[p] = "reset3")
  OBVIOUS
<1> HIDE DEF new
<1>6. /\ ptstate'[i] = new /\ doing'[p] = "idle"
      /\ \A j \in Port : j # i => ptstate'[j] = ptstate[j]
      /\ \A q \in Client : q # p => doing'[q] = doing[q] /\ on'[q] = on[q] /\ seq'[q] = seq[q]
  BY <1>1, <1>3, <1>4 DEF PortTypes
<1>7. PortTypes'
  <2>1. ptstate' \in [Port -> {"free", "alloc", "limbo"}]
    BY <1>1, <1>4, <1>5 DEF PortTypes
  <2>2. doing' \in [Client -> Calls] /\ on' \in [Client -> Nat] /\ seq' \in [Client -> Nat]
    BY <1>1, <1>4 DEF PortTypes, Calls
  <2>3. Made' = Made
    BY <1>1 DEF Made, poolVars
  <2> QED
    BY <1>1, <1>4, <2>1, <2>2, <2>3 DEF PortTypes, poolVars
<1>8. \A w \in Blocking : Waiting(w, i)' = Waiting(w, i)
  <2>1. doing[p] \notin Blocking /\ doing'[p] \notin Blocking
    BY <1>1, <1>6 DEF Blocking
  <2> QED
    BY <1>4, <1>6, <2>1, Passes
<1>9. \A w \in {"send", "recv"} : Present(w, i)' = {}
  <2>1. ptseq'[i] \in Nat /\ ptseq[i] <= ptseq'[i] /\ ptstate[i] # "alloc"
    BY <1>1, <1>3, <1>4
  <2>2. \A q \in Client : doing'[q] \in Blocking =>
          doing'[q] = doing[q] /\ on'[q] = on[q] /\ seq'[q] = seq[q]
    BY <1>6 DEF Blocking
  <2> QED
    BY <1>3, <2>1, <2>2, NoneIn
<1>10. PortInv(i)'
  <2>1. Waiting("send", i)' = Waiting("send", i) /\ Waiting("recv", i)' = Waiting("recv", i)
    BY <1>8 DEF Blocking
  <2>2. Present("send", i)' = {} /\ Present("recv", i)' = {}
    BY <1>9
  <2>3. ptssem' = ptssem /\ ptrsem' = ptrsem /\ ptlist'[i] = <<>> /\ ptmaxcnt'[i] = ptmaxcnt[i]
    BY <1>1, <1>3
  <2>4. CASE new = "alloc"
    <3>1. /\ ToSet(ptssem[i].queue) = {} /\ ToSet(ptrsem[i].queue) = {}
          /\ ptssem[i].ok => Units({}, ptssem[i]) = ptmaxcnt[i]
          /\ ptrsem[i].ok => Units({}, ptrsem[i]) = 0
      <4>1. ToSet(ptssem[i].queue) = {} /\ (ptssem[i].ok => Units({}, ptssem[i]) = ptmaxcnt[i])
        BY <1>3, <1>4, <1>5, <2>4, FreshSem
      <4>2. 0 \in Nat
        OBVIOUS
      <4>3. ToSet(ptrsem[i].queue) = {} /\ (ptrsem[i].ok => Units({}, ptrsem[i]) = 0)
        BY <1>3, <1>5, <2>4, <4>2, FreshSem
      <4> QED
        BY <4>1, <4>3
    <3>2. Len(ptlist'[i]) = 0 /\ ptmaxcnt[i] - Len(ptlist'[i]) = ptmaxcnt[i]
          /\ Len(ptlist'[i]) <= ptmaxcnt[i]
      BY <1>4, <2>3
    <3>3. ptrsem[i].ok => ptssem[i].ok
      BY <1>3, <1>5, <2>4
    <3>4. ptssem[i].ok => ptmaxcnt[i] - Len(ptlist'[i]) = Units({}, ptssem[i])
      BY <3>1, <3>2
    <3>5. ptrsem[i].ok => Len(ptlist'[i]) = Units({}, ptrsem[i])
      BY <3>1, <3>2
    <3>6. ptstate'[i] = "alloc"
      BY <1>6, <2>4
    <3> QED
      BY <1>3, <2>1, <2>2, <2>3, <3>1, <3>2, <3>3, <3>4, <3>5, <3>6 DEF PortInv
  <2>5. CASE new = "free"
    BY <1>3, <1>6, <2>1, <2>3, <2>5 DEF PortInv
  <2> QED
    BY <1>5, <2>4, <2>5
<1>11. NodesAccount'
  <2>1. CASE new = "alloc"
    <3>1. Used' = Used /\ Lens' = Lens
      BY <1>1, <1>3, <1>6, <2>1 DEF Used, Lens
    <3>2. Promised' = Promised
      BY <1>1, <3>1 DEF Promised, Used
    <3> QED
      BY <1>1, <3>1, <3>2 DEF AccountsInv, NodesAccount
  <2>2. CASE new = "free"
    <3>1. /\ Used' = Used \ {i} /\ i \in Used /\ IsFiniteSet(Used)
          /\ Lens' = Lens /\ Lens[i] = 0 /\ \A j \in Used : Lens[j] \in Int /\ ptmaxcnt[j] \in Int
      <4>1. IsFiniteSet(Port) /\ Used \subseteq Port
        BY Basics DEF Used
      <4>2. IsFiniteSet(Used)
        BY <4>1, FS_Subset
      <4>3. Used' = Used \ {i} /\ i \in Used
        BY <1>3, <1>6, <2>2 DEF Used
      <4>4. Lens' = Lens /\ Lens[i] = 0
        BY <1>1, <1>3 DEF Lens
      <4>5. \A j \in Port : Lens[j] \in Int /\ ptmaxcnt[j] \in Int
        BY <1>4 DEF Lens, PortTypes
      <4> QED
        BY <4>1, <4>2, <4>3, <4>4, <4>5
    <3>2. /\ SumFunctionOnSet(Lens, Used) = Lens[i] + SumFunctionOnSet(Lens, Used \ {i})
          /\ SumFunctionOnSet(Lens, Used \ {i}) \in Int
      <4>1. IsFiniteSet(Used) /\ \A j \in Used : Lens[j] \in Int
        BY <3>1
      <4>2. Used \ {i} \in SUBSET Used /\ Used \in SUBSET Used /\ i \in Used
        BY <3>1
      <4>3. SumFunctionOnSet(Lens, Used \ {i}) \in Int
        BY <4>1, <4>2, SumSplit
      <4>4. SumFunctionOnSet(Lens, Used) = Lens[i] + SumFunctionOnSet(Lens, Used \ {i})
        BY <4>1, <4>2, SumSplit
      <4> QED
        BY <4>3, <4>4
    <3>3. /\ SumFunctionOnSet(ptmaxcnt, Used) = ptmaxcnt[i] + SumFunctionOnSet(ptmaxcnt, Used \ {i})
          /\ SumFunctionOnSet(ptmaxcnt, Used \ {i}) \in Int
      BY <3>1, SumSplit
    <3>4. Promised = SumFunctionOnSet(ptmaxcnt, Used)
      BY DEF Promised, Used
    <3>5. Promised' = SumFunctionOnSet(ptmaxcnt, Used \ {i})
      <4>1. Promised' = SumFunctionOnSet(ptmaxcnt', Used')
        BY DEF Promised, Used
      <4> QED
        BY <1>1, <3>1, <4>1
    <3>6. Promised <= MaxMsgs /\ ptfree + SumFunctionOnSet(Lens, Used) = MaxMsgs /\ MaxMsgs \in Nat
      BY Basics DEF AccountsInv, NodesAccount
    <3>7. Promised' <= MaxMsgs
      BY <1>4, <3>3, <3>4, <3>5, <3>6
    <3>8. SumFunctionOnSet(Lens', Used') = SumFunctionOnSet(Lens, Used)
      BY <3>1, <3>2
    <3> QED
      BY <1>1, <3>6, <3>7, <3>8 DEF NodesAccount
  <2> QED
    BY <1>5, <2>1, <2>2
<1>12. doing'[p] \notin Blocking /\ doing'[p] \notin Clearing
  BY <1>6 DEF Blocking, Clearing
<1>13. UNCHANGED <<poolVars, holds, ptseq, ptmaxcnt, walk>>
  BY <1>1
<1>14. \A j \in Port : j # i =>
         /\ ptstate'[j] = ptstate[j] /\ ptlist'[j] = ptlist[j]
         /\ ptssem'[j] = ptssem[j] /\ ptrsem'[j] = ptrsem[j]
  BY <1>1, <1>6
<1> QED
  BY <1>2, <1>3, <1>6, <1>7, <1>10, <1>11, <1>12, <1>13, <1>14, ClearingStep

\* Ptcreate: an empty port, to which nodes are promised that nobody else was.
LEMMA PtcreateAccounts ==
  ASSUME AccountsInv, NEW i \in Port, NEW n \in MaxCnt, Ptcreate(i, n)
  PROVE  AccountsInv'
<1>1. /\ ptstate[i] = "free" /\ Promised + n <= MaxMsgs
      /\ ptstate' = [ptstate EXCEPT ![i] = "alloc"] /\ ptlist' = [ptlist EXCEPT ![i] = <<>>]
      /\ ptseq' = [ptseq EXCEPT ![i] = ptseq[i] + 1] /\ ptmaxcnt' = [ptmaxcnt EXCEPT ![i] = n]
      /\ UNCHANGED <<poolVars, ptfree, clientVars>>
  BY DEF Ptcreate, FreePort
<1>2. PICK s \in {NewSem(n), BadSem}, r \in {NewSem(0), BadSem} :
        /\ s = BadSem => r = BadSem
        /\ ptssem' = [ptssem EXCEPT ![i] = s] /\ ptrsem' = [ptrsem EXCEPT ![i] = r]
  BY DEF Ptcreate
<1>3. PortTypes /\ i \in Nat /\ n \in Nat /\ ptseq[i] \in Nat /\ PortInv(i) /\ 0 \in Nat
  BY Basics, PortsAssumption DEF PortTypes, AccountsInv
<1>4. UNCHANGED <<nbpools, bpnext, bpsem, doing, on, seq, holds, walk>>
  BY <1>1 DEF poolVars, clientVars
<1>5. /\ Sound(s) /\ ToSet(s.queue) = {} /\ (s.ok => Units({}, s) = n)
      /\ Sound(r) /\ ToSet(r.queue) = {} /\ (r.ok => Units({}, r) = 0)
      /\ r.ok => s.ok
  <2>1. Sound(s) /\ ToSet(s.queue) = {} /\ (s.ok => Units({}, s) = n)
    BY <1>2, <1>3, FreshSem
  <2>2. Sound(r) /\ ToSet(r.queue) = {} /\ (r.ok => Units({}, r) = 0)
    BY <1>2, <1>3, FreshSem
  <2>3. r.ok => s.ok
    BY <1>2, <1>3, FreshSem
  <2> QED
    BY <2>1, <2>2, <2>3
<1>6. /\ ptstate'[i] = "alloc" /\ ptlist'[i] = <<>> /\ ptseq'[i] = ptseq[i] + 1 /\ ptmaxcnt'[i] = n
      /\ ptssem'[i] = s /\ ptrsem'[i] = r
      /\ \A j \in Port : j # i =>
           /\ ptstate'[j] = ptstate[j] /\ ptseq'[j] = ptseq[j] /\ ptmaxcnt'[j] = ptmaxcnt[j]
           /\ ptlist'[j] = ptlist[j] /\ ptssem'[j] = ptssem[j] /\ ptrsem'[j] = ptrsem[j]
  BY <1>1, <1>2, <1>3 DEF PortTypes
<1>7. PortTypes'
  <2>1. s \in Sem /\ r \in Sem /\ <<>> \in Seq(Made)
    BY <1>5 DEF Sound, SoundSem, Sem
  <2>2. ptssem' \in [Port -> Sem] /\ ptrsem' \in [Port -> Sem]
    BY <1>2, <1>3, <2>1 DEF PortTypes
  <2>3. ptlist' \in [Port -> Seq(Made)]
    BY <1>1, <1>3, <2>1 DEF PortTypes
  <2>4. ptstate' \in [Port -> {"free", "alloc", "limbo"}] /\ ptseq' \in [Port -> Nat]
        /\ ptmaxcnt' \in [Port -> Nat]
    BY <1>1, <1>3 DEF PortTypes
  <2>5. Made' = Made
    BY <1>4 DEF Made
  <2> QED
    BY <1>1, <1>3, <1>4, <2>2, <2>3, <2>4, <2>5 DEF PortTypes
<1>8. \A w \in Blocking, y \in Nat :
        Waiting(w, y)' = Waiting(w, y) /\ (ptseq'[y] = ptseq[y] => Present(w, y)' = Present(w, y))
  BY <1>4, Stays
<1>9. \A w \in {"send", "recv"} : Present(w, i)' = {}
  <2>1. ptseq'[i] \in Nat /\ ptseq[i] <= ptseq'[i] /\ ptstate[i] # "alloc"
    BY <1>1, <1>3, <1>6
  <2> QED
    BY <1>4, <2>1, NoneIn
<1>10. PortInv(i)'
  <2>1. Present("send", i)' = {} /\ Present("recv", i)' = {}
    BY <1>9
  <2>2. Len(ptlist'[i]) = 0 /\ n - Len(ptlist'[i]) = n /\ Len(ptlist'[i]) <= n
    BY <1>3, <1>6
  <2>3. s.ok => n - Len(ptlist'[i]) = Units({}, s)
    BY <1>5, <2>2
  <2>4. r.ok => Len(ptlist'[i]) = Units({}, r)
    BY <1>5, <2>2
  <2> QED
    BY <1>5, <1>6, <2>1, <2>2, <2>3, <2>4 DEF PortInv
<1>11. NodesAccount'
  <2> DEFINE U == Used \cup {i}
  <2>1. /\ Used' = U /\ i \in U /\ U \ {i} = Used /\ IsFiniteSet(U) /\ IsFiniteSet(Used)
        /\ U \subseteq Port /\ Used \subseteq Port
    <3>1. U \subseteq Port /\ Used \subseteq Port /\ IsFiniteSet(Port)
      BY Basics DEF Used
    <3>2. IsFiniteSet(U) /\ IsFiniteSet(Used)
      BY <3>1, FS_Subset
    <3>3. Used' = U /\ U \ {i} = Used
      BY <1>1, <1>6 DEF Used
    <3> QED
      BY <3>1, <3>2, <3>3
  <2>2. \A j \in Port : Lens[j] \in Int /\ Lens'[j] \in Int /\ ptmaxcnt[j] \in Int /\ ptmaxcnt'[j] \in Int
    BY <1>3, <1>7 DEF Lens, PortTypes
  <2>3. \A j \in Used : Lens'[j] = Lens[j] /\ ptmaxcnt'[j] = ptmaxcnt[j]
    BY <1>1, <1>6 DEF Lens, Used
  <2>4. Lens'[i] = 0 /\ ptmaxcnt'[i] = n
    BY <1>6 DEF Lens
  <2> HIDE DEF U
  <2>5. /\ SumFunctionOnSet(Lens', U) = Lens'[i] + SumFunctionOnSet(Lens', U \ {i})
        /\ SumFunctionOnSet(ptmaxcnt', U) = ptmaxcnt'[i] + SumFunctionOnSet(ptmaxcnt', U \ {i})
    <3>1. \A j \in U : Lens'[j] \in Int /\ ptmaxcnt'[j] \in Int
      BY <2>1, <2>2
    <3>2. SumFunctionOnSet(Lens', U) = Lens'[i] + SumFunctionOnSet(Lens', U \ {i})
      BY <2>1, <3>1, SumSplit
    <3>3. SumFunctionOnSet(ptmaxcnt', U) = ptmaxcnt'[i] + SumFunctionOnSet(ptmaxcnt', U \ {i})
      BY <2>1, <3>1, SumSplit
    <3> QED
      BY <3>2, <3>3
  <2>6. /\ SumFunctionOnSet(Lens', Used) = SumFunctionOnSet(Lens, Used)
        /\ SumFunctionOnSet(ptmaxcnt', Used) = SumFunctionOnSet(ptmaxcnt, Used)
    <3>1. \A j \in Used : Lens[j] \in Int /\ ptmaxcnt[j] \in Int
      BY <2>1, <2>2
    <3>2. SumFunctionOnSet(Lens', Used) = SumFunctionOnSet(Lens, Used)
      BY <2>1, <2>3, <3>1, SumAgree
    <3>3. SumFunctionOnSet(ptmaxcnt', Used) = SumFunctionOnSet(ptmaxcnt, Used)
      BY <2>1, <2>3, <3>1, SumAgree
    <3> QED
      BY <3>2, <3>3
  <2>7. SumFunctionOnSet(Lens, Used) \in Int /\ SumFunctionOnSet(ptmaxcnt, Used) \in Int
    <3>1. \A j \in Used : Lens[j] \in Int /\ ptmaxcnt[j] \in Int
      BY <2>1, <2>2
    <3>2. SumFunctionOnSet(Lens, Used) \in Int
      BY <2>1, <3>1, SumSplit
    <3>3. SumFunctionOnSet(ptmaxcnt, Used) \in Int
      BY <2>1, <3>1, SumSplit
    <3> QED
      BY <3>2, <3>3
  <2>8. Promised = SumFunctionOnSet(ptmaxcnt, Used) /\ Promised' = SumFunctionOnSet(ptmaxcnt', U)
    <3>1. Promised' = SumFunctionOnSet(ptmaxcnt', Used')
      BY DEF Promised, Used
    <3> QED
      BY <2>1, <3>1 DEF Promised, Used
  <2>9. SumFunctionOnSet(Lens', Used') = SumFunctionOnSet(Lens, Used)
    <3>1. SumFunctionOnSet(Lens', Used') = SumFunctionOnSet(Lens', U)
      BY <2>1
    <3>2. SumFunctionOnSet(Lens', U) = 0 + SumFunctionOnSet(Lens', Used)
      BY <2>1, <2>4, <2>5
    <3> QED
      BY <2>6, <2>7, <3>1, <3>2
  <2>10. Promised' = n + Promised
    BY <2>1, <2>4, <2>5, <2>6, <2>8
  <2>11. Promised' <= MaxMsgs
    BY <1>1, <1>3, <2>7, <2>8, <2>10
  <2> QED
    BY <1>1, <2>9, <2>11 DEF AccountsInv, NodesAccount
<1>12. \A q \in Client : doing[q] \in Clearing => on[q] # i
  BY <1>1 DEF AccountsInv, Clears
<1>13. \A q \in Client :
         \/ /\ doing'[q] = doing[q] /\ on'[q] = on[q] /\ seq'[q] = seq[q] /\ walk'[q] = walk[q]
            /\ doing[q] \in Clearing => on[q] # i
         \/ InCall(q)' /\ Clears(q)' /\ (doing'[q] \in Clearing => on'[q] = i)
  BY <1>4, <1>12
<1>14. ptseq[i] <= ptseq'[i] /\ ptseq'[i] # ptseq[i] /\ UNCHANGED <<poolVars, holds>>
  BY <1>1, <1>3, <1>4, <1>6
<1> QED
  BY <1>6, <1>7, <1>8, <1>10, <1>11, <1>13, <1>14, PortChange

-------------------------------------------------------------------------------
(* The accounts are kept *)

\* At first there are no pools and no ports.
LEMMA AccountsInit ==
  ASSUME PortsInit
  PROVE  AccountsInv
<1>1. /\ nbpools = 0 /\ bpnext = [k \in Pool |-> <<>>] /\ bpsem = [k \in Pool |-> BadSem]
      /\ ptstate = [i \in Port |-> "free"] /\ ptseq = [i \in Port |-> 0]
      /\ ptmaxcnt = [i \in Port |-> 0] /\ ptlist = [i \in Port |-> <<>>]
      /\ ptssem = [i \in Port |-> BadSem] /\ ptrsem = [i \in Port |-> BadSem]
      /\ ptfree = MaxMsgs
      /\ doing = [p \in Client |-> "idle"] /\ on = [p \in Client |-> 0]
      /\ seq = [p \in Client |-> 0] /\ holds = [p \in Client |-> NoBuf]
      /\ walk = [p \in Client |-> <<>>]
  BY DEF PortsInit
<1>2. /\ Sound(BadSem) /\ ~BadSem.ok /\ ToSet(BadSem.queue) = {} /\ BadSem \in Sem /\ 0 \in Nat
  <2>1. 0 \in Nat
    OBVIOUS
  <2> QED
    BY <2>1, FreshSem DEF Sound, SoundSem, Sem
<1>3. Cardinality(Pool) \in Nat /\ MaxMsgs \in Nat /\ Pool \subseteq Nat
  <2>1. Cardinality(Pool) \in Nat /\ Pool = 0 .. Cardinality(Pool) - 1
    BY PortsAssumption, FS_CardinalityType
  <2> QED
    BY <2>1, PortsAssumption
<1>4. PortTypes
  <2>1. <<>> \in Seq(Made)
    OBVIOUS
  <2>2. nbpools \in Nat /\ nbpools <= Cardinality(Pool) /\ ptfree \in Nat
    BY <1>1, <1>3
  <2> QED
    BY <1>1, <1>2, <2>1, <2>2 DEF PortTypes, Calls
<1>5. ASSUME NEW k \in Pool
      PROVE  PoolInv(k)
  <2>1. ~(k < nbpools)
    BY <1>1, <1>3
  <2> QED
    BY <1>1, <1>2, <2>1 DEF PoolInv
<1>6. ASSUME NEW i \in Port
      PROVE  PortInv(i)
  BY <1>1, <1>2 DEF PortInv
<1>7. ASSUME NEW p \in Client
      PROVE  InCall(p) /\ Clears(p)
  BY <1>1 DEF InCall, Clears, Clearing
<1>8. NodesAccount
  <2>1. Used = {} /\ Promised = SumFunctionOnSet(ptmaxcnt, Used)
    BY <1>1 DEF Used, Promised
  <2>2. IsFiniteSet({})
    BY FS_EmptySet
  <2>3. SumFunctionOnSet(ptmaxcnt, {}) = 0
    <3>1. \A x \in {} : ptmaxcnt[x] \in Int
      OBVIOUS
    <3> QED
      BY <2>2, <3>1, SumSplit
  <2>4. SumFunctionOnSet(Lens, {}) = 0
    <3>1. \A x \in {} : Lens[x] \in Int
      OBVIOUS
    <3> QED
      BY <2>2, <3>1, SumSplit
  <2> QED
    BY <1>1, <1>3, <2>1, <2>3, <2>4 DEF NodesAccount
<1> QED
  BY <1>4, <1>5, <1>6, <1>7, <1>8 DEF AccountsInv

\* Every step keeps the accounts.
LEMMA AccountsStep ==
  ASSUME AccountsInv, [PortsNext]_portsVars
  PROVE  AccountsInv'
<1>1. CASE UNCHANGED portsVars
  <2>1. UNCHANGED <<nbpools, bpnext, bpsem, ptstate, ptseq, ptmaxcnt, ptlist, ptssem, ptrsem, ptfree,
                    doing, on, seq, holds, walk>>
    BY <1>1 DEF portsVars, poolVars, portVars, clientVars
  <2>2. PortTypes'
    BY <2>1 DEF AccountsInv, PortTypes, Made
  <2>3. \A w \in Blocking, y \in Nat : Waiting(w, y)' = Waiting(w, y) /\ Present(w, y)' = Present(w, y)
    BY <2>1, Stays
  <2>4. ASSUME NEW k \in Pool
        PROVE  PoolInv(k)'
    <3>1. PoolInv(k) /\ k \in Nat
      BY Basics DEF AccountsInv
    <3>2. Waiting("getbuf", k)' = Waiting("getbuf", k)
      BY <2>3, <3>1 DEF Blocking
    <3> QED
      BY <2>1, <3>1, <3>2, PoolKept
  <2>5. \A p \in Client : InCall(p)'
    <3>1. nbpools \in Nat /\ nbpools' \in Nat /\ nbpools <= nbpools' /\ Pool \subseteq Nat
      BY <2>1, Basics DEF PortTypes
    <3> QED
      BY <2>1, <3>1, CallKept DEF AccountsInv
  <2>6. \A w \in {"send", "recv"}, y \in Nat :
          Waiting(w, y)' = Waiting(w, y) /\ Present(w, y)' = Present(w, y)
    BY <2>3 DEF Blocking
  <2>7. (\A i \in Port : PortInv(i)') /\ (\A q \in Client : Clears(q)') /\ NodesAccount'
    BY <2>1, <2>6, PortsAside
  <2> QED
    BY <2>2, <2>4, <2>5, <2>7 DEF AccountsInv
<1>2. CASE Mkbufpool
  BY <1>2, MkbufpoolAccounts
<1>3. ASSUME NEW i \in Port, NEW n \in MaxCnt, Ptcreate(i, n)
      PROVE  AccountsInv'
  BY <1>3, PtcreateAccounts
<1>4. ASSUME NEW p \in Client, NEW k \in Pool, Getbuf(p, k)
      PROVE  AccountsInv'
  BY <1>4, GetbufAccounts
<1>5. ASSUME NEW p \in Client, GetbufReturns(p)
      PROVE  AccountsInv'
  BY <1>5, GetbufReturnsAccounts
<1>6. ASSUME NEW p \in Client, Freebuf(p)
      PROVE  AccountsInv'
  BY <1>6, FreebufAccounts
<1>7. ASSUME NEW p \in Client, NEW i \in Port, Ptsend(p, i)
      PROVE  AccountsInv'
  BY <1>7, PtsendAccounts
<1>8. ASSUME NEW p \in Client, NEW i \in Port, Ptrecv(p, i)
      PROVE  AccountsInv'
  BY <1>8, PtrecvAccounts
<1>9. ASSUME NEW p \in Client, NEW i \in Port, NEW new \in {"reset", "delete"}, Ptclear(p, i, new)
      PROVE  AccountsInv'
  BY <1>9, PtclearAccounts
<1>10. ASSUME NEW p \in Client, PtsendReturns(p)
       PROVE  AccountsInv'
  BY <1>10, PtsendReturnsAccounts
<1>11. ASSUME NEW p \in Client, PtrecvReturns(p)
       PROVE  AccountsInv'
  BY <1>11, PtrecvReturnsAccounts
<1>12. ASSUME NEW p \in Client, Dispose(p)
       PROVE  AccountsInv'
  BY <1>12, DisposeAccounts
<1>13. ASSUME NEW p \in Client, LetSendersGo(p)
       PROVE  AccountsInv'
  BY <1>13, LetSendersGoAccounts
<1>14. ASSUME NEW p \in Client, LetReceiversGo(p)
       PROVE  AccountsInv'
  BY <1>14, LetReceiversGoAccounts
<1>15. ASSUME NEW p \in Client, PtclearReturns(p)
       PROVE  AccountsInv'
  BY <1>15, PtclearReturnsAccounts
<1> QED
  BY <1>1, <1>2, <1>3, <1>4, <1>5, <1>6, <1>7, <1>8, <1>9, <1>10, <1>11, <1>12, <1>13, <1>14, <1>15
     DEF PortsNext

\* Those that were granted a unit are those that the semaphore has let through.
LEMMA GrantedIs ==
  ASSUME AccountsInv, NEW w \in Blocking, NEW x \in Nat, NEW s, Sound(s)
  PROVE  /\ w = "getbuf" => Granted(w, x, s) = Cardinality(Through(Waiting(w, x), s))
         /\ w # "getbuf" => Granted(w, x, s) = Cardinality(Through(Present(w, x), s))
         /\ w = "getbuf" => Units(Waiting(w, x), s) = Avail(s) + Granted(w, x, s)
         /\ w # "getbuf" => Units(Present(w, x), s) = Avail(s) + Granted(w, x, s)
         /\ Granted(w, x, s) \in Nat
<1>1. Waiting(w, x) \in SUBSET Client /\ Present(w, x) \in SUBSET Client
  BY DEF Waiting, Present
<1>2. w = "getbuf" => Granted(w, x, s) = Cardinality(Through(Waiting(w, x), s))
  <2>1. w = "getbuf" =>
          Through(Waiting(w, x), s) = {p \in Client :
            /\ doing[p] = w /\ on[p] = x /\ ~Queued(s, p)
            /\ w # "getbuf" => ptseq[x] = seq[p]}
    BY DEF Through, Waiting
  <2> QED
    BY <2>1 DEF Granted
<1>3. w # "getbuf" => Granted(w, x, s) = Cardinality(Through(Present(w, x), s))
  <2>1. w # "getbuf" =>
          Through(Present(w, x), s) = {p \in Client :
            /\ doing[p] = w /\ on[p] = x /\ ~Queued(s, p)
            /\ w # "getbuf" => ptseq[x] = seq[p]}
    BY DEF Through, Waiting, Present
  <2> QED
    BY <2>1 DEF Granted
<1>4. /\ Units(Waiting(w, x), s) = Avail(s) + Cardinality(Through(Waiting(w, x), s))
      /\ Cardinality(Through(Waiting(w, x), s)) \in Nat
  BY <1>1, UnitsAre
<1>5. /\ Units(Present(w, x), s) = Avail(s) + Cardinality(Through(Present(w, x), s))
      /\ Cardinality(Through(Present(w, x), s)) \in Nat
  BY <1>1, UnitsAre
<1> QED
  BY <1>2, <1>3, <1>4, <1>5

\* Of a port in use: what its semaphores say of its messages.
LEMMA PortAccount ==
  ASSUME AccountsInv, NEW i \in Port, ptstate[i] = "alloc"
  PROVE  /\ Granted("send", i, ptssem[i]) \in Nat /\ Granted("recv", i, ptrsem[i]) \in Nat
         /\ Granted("send", i, ptssem[i]) + Len(ptlist[i]) <= ptmaxcnt[i]
         /\ ptrsem[i].ok =>
              /\ Len(ptlist[i]) = Avail(ptrsem[i]) + Granted("recv", i, ptrsem[i])
              /\ ptmaxcnt[i] - Len(ptlist[i]) = Avail(ptssem[i]) + Granted("send", i, ptssem[i])
<1> DEFINE s == ptssem[i]
           r == ptrsem[i]
           gs == Granted("send", i, s)
           gr == Granted("recv", i, r)
           L == Len(ptlist[i])
           m == ptmaxcnt[i]
<1>1. /\ PortInv(i) /\ i \in Nat /\ L \in Nat /\ m \in Nat /\ Sound(s) /\ Sound(r)
      /\ "send" \in Blocking /\ "recv" \in Blocking
  BY Basics DEF AccountsInv, PortTypes, PortInv, Blocking
<1>2. /\ gs \in Nat /\ gr \in Nat
      /\ Units(Present("send", i), s) = Avail(s) + gs
      /\ Units(Present("recv", i), r) = Avail(r) + gr
      /\ gs = Cardinality(Through(Present("send", i), s))
  BY <1>1, GrantedIs
<1>3. /\ s.ok => m - L = Units(Present("send", i), s)
      /\ r.ok => s.ok /\ L = Units(Present("recv", i), r)
      /\ L <= m
  BY <1>1 DEF PortInv
<1>4. Avail(s) \in Nat
  BY <1>1, SoundFacts
<1>5. ~s.ok => gs = 0
  <2>1. ~s.ok => Present("send", i) = {}
    BY DEF AccountsInv, InCall, Present, Waiting
  <2>2. Through({}, s) = {} /\ Cardinality({}) = 0
    BY FS_EmptySet DEF Through
  <2> QED
    BY <1>2, <2>1, <2>2
<1>6. gs + L <= m
  <2> HIDE DEF s, r, gs, gr, L, m
  <2>1. CASE s.ok
    BY <1>1, <1>2, <1>3, <1>4, <2>1
  <2>2. CASE ~s.ok
    BY <1>1, <1>3, <1>5, <2>2
  <2> QED
    BY <2>1, <2>2
<1> QED
  BY <1>2, <1>3, <1>6

\* What ptcount tells when nobody was granted a unit who has not run.
LEMMA CountTells ==
  ASSUME AccountsInv, NEW i \in Port, ptstate[i] = "alloc", ptrsem[i].ok,
         Granted("send", i, ptssem[i]) + Granted("recv", i, ptrsem[i]) = 0
  PROVE  Ptcount(i) = IF Ptcount(i) >= 0 THEN Len(ptlist[i]) + Len(ptssem[i].queue)
                      ELSE Len(ptlist[i]) - Len(ptrsem[i].queue)
<1> DEFINE s == ptssem[i]
           r == ptrsem[i]
           L == Len(ptlist[i])
           c == Ptcount(i)
<1>1. Sound(s) /\ Sound(r) /\ L \in Nat
  BY Basics DEF AccountsInv, PortTypes, PortInv
<1>2. L = Avail(r)
  <2>1. Avail(r) \in Nat
    BY <1>1, SoundFacts
  <2>2. /\ Granted("send", i, s) \in Nat /\ Granted("recv", i, r) \in Nat
        /\ L = Avail(r) + Granted("recv", i, r)
    BY PortAccount
  <2>3. Granted("recv", i, r) = 0
    BY <2>2
  <2> QED
    BY <2>1, <2>2, <2>3
<1>3. /\ s.count \in Int /\ r.count \in Int /\ Len(s.queue) \in Nat /\ Len(r.queue) \in Nat
      /\ Len(s.queue) = (IF s.count < 0 THEN -s.count ELSE 0)
      /\ Len(r.queue) = (IF r.count < 0 THEN -r.count ELSE 0)
  BY <1>1, SoundFacts DEF Sound, SoundSem, Sem
<1>4. c = r.count + (IF r.count >= 0 /\ s.count < 0 THEN -s.count ELSE 0)
  BY DEF Ptcount
<1>5. L = IF r.count < 0 THEN 0 ELSE r.count
  BY <1>2 DEF Avail
<1>6. c = IF c >= 0 THEN L + Len(s.queue) ELSE L - Len(r.queue)
  <2> HIDE DEF s, r, L, c
  <2>1. CASE r.count >= 0
    BY <1>3, <1>4, <1>5, <2>1
  <2>2. CASE r.count < 0
    BY <1>3, <1>4, <1>5, <2>2
  <2> QED
    BY <1>3, <2>1, <2>2
<1> QED
  BY <1>6

\* The senders that were let through find nodes: the ports together promise no more
\* than there are, and a message takes one that its port has promised.
LEMMA NodesSuffice ==
  ASSUME AccountsInv
  PROVE  SumFunctionOnSet([i \in Port |-> Granted("send", i, ptssem[i])],
                          {j \in Port : ptstate[j] = "alloc"}) <= ptfree
<1> DEFINE f == [i \in Port |-> Granted("send", i, ptssem[i])]
           R == {j \in Port : ptstate[j] = "alloc"}
<1>1. /\ IsFiniteSet(Used) /\ R \in SUBSET Used /\ Used \subseteq Port /\ R \subseteq Port
      /\ IsFiniteSet(R)
  <2>1. IsFiniteSet(Port) /\ Used \subseteq Port /\ R \subseteq Used
    BY Basics DEF Used
  <2>2. IsFiniteSet(Used) /\ IsFiniteSet(R)
    BY <2>1, FS_Subset
  <2> QED
    BY <2>1, <2>2
<1>2. \A x \in Used : Lens[x] \in Int /\ ptmaxcnt[x] \in Int /\ Lens[x] <= ptmaxcnt[x]
  <2> SUFFICES ASSUME NEW x \in Used
               PROVE  Lens[x] \in Int /\ ptmaxcnt[x] \in Int /\ Lens[x] <= ptmaxcnt[x]
    OBVIOUS
  <2>1. x \in Port /\ ptstate[x] # "free"
    BY DEF Used
  <2>2. Lens[x] = Len(ptlist[x]) /\ Len(ptlist[x]) \in Nat /\ ptmaxcnt[x] \in Nat
    BY <2>1, Basics DEF Lens, PortTypes
  <2>3. Len(ptlist[x]) <= ptmaxcnt[x]
    BY <2>1 DEF AccountsInv, PortInv
  <2> QED
    BY <2>2, <2>3
<1>3. \A x \in R : f[x] \in Int /\ f[x] + Lens[x] <= ptmaxcnt[x]
  <2> SUFFICES ASSUME NEW x \in R
               PROVE  f[x] \in Int /\ f[x] + Lens[x] <= ptmaxcnt[x]
    OBVIOUS
  <2>1. x \in Port /\ ptstate[x] = "alloc" /\ f[x] = Granted("send", x, ptssem[x])
        /\ Lens[x] = Len(ptlist[x])
    BY DEF Lens
  <2> HIDE DEF f, R
  <2>2. Granted("send", x, ptssem[x]) \in Nat
        /\ Granted("send", x, ptssem[x]) + Len(ptlist[x]) <= ptmaxcnt[x]
    BY <2>1, PortAccount
  <2> QED
    BY <2>1, <2>2
<1> HIDE DEF f, R
<1>4. SumFunctionOnSet(f, R) + SumFunctionOnSet(Lens, Used) <= SumFunctionOnSet(ptmaxcnt, Used)
  BY <1>1, <1>2, <1>3, SumBound
<1>5. SumFunctionOnSet(ptmaxcnt, Used) <= MaxMsgs
      /\ ptfree + SumFunctionOnSet(Lens, Used) = MaxMsgs
  BY DEF AccountsInv, NodesAccount, Promised, Used
<1>6. SumFunctionOnSet(f, R) \in Int
  <2>1. \A x \in R : f[x] \in Int
    BY <1>3
  <2> QED
    BY <1>1, <2>1, SumSplit
<1>7. SumFunctionOnSet(Lens, Used) \in Int
  <2>1. \A x \in Used : Lens[x] \in Int
    BY <1>2
  <2> QED
    BY <1>1, <2>1, SumSplit
<1>8. SumFunctionOnSet(ptmaxcnt, Used) \in Int
  <2>1. \A x \in Used : ptmaxcnt[x] \in Int
    BY <1>2
  <2> QED
    BY <1>1, <2>1, SumSplit
<1>9. ptfree \in Int /\ MaxMsgs \in Int
  BY Basics DEF PortTypes
<1>10. SumFunctionOnSet(f, R) <= ptfree
  BY <1>4, <1>5, <1>6, <1>7, <1>8, <1>9
<1> QED
  BY <1>10 DEF f, R

\* The accounts say what CountsAccount says.
LEMMA AccountsHold ==
  ASSUME AccountsInv
  PROVE  CountsAccount
<1>1. ASSUME NEW k \in Pool, k < nbpools
      PROVE  Len(bpnext[k]) = Avail(bpsem[k]) + Granted("getbuf", k, bpsem[k])
  <2>1. k \in Nat /\ Sound(bpsem[k]) /\ Len(bpnext[k]) = Units(Waiting("getbuf", k), bpsem[k])
    BY <1>1, Basics DEF AccountsInv, PoolInv
  <2>2. "getbuf" \in Blocking
    BY DEF Blocking
  <2>3. Units(Waiting("getbuf", k), bpsem[k]) = Avail(bpsem[k]) + Granted("getbuf", k, bpsem[k])
    BY <2>1, <2>2, GrantedIs
  <2> QED
    BY <2>1, <2>3
<1>2. ASSUME NEW i \in Port, ptstate[i] = "alloc", ptrsem[i].ok
      PROVE  /\ Len(ptlist[i]) = Avail(ptrsem[i]) + Granted("recv", i, ptrsem[i])
             /\ ptmaxcnt[i] - Len(ptlist[i]) = Avail(ptssem[i]) + Granted("send", i, ptssem[i])
             /\ Granted("send", i, ptssem[i]) + Granted("recv", i, ptrsem[i]) = 0 =>
                  Ptcount(i) = IF Ptcount(i) >= 0 THEN Len(ptlist[i]) + Len(ptssem[i].queue)
                               ELSE Len(ptlist[i]) - Len(ptrsem[i].queue)
  <2>1. /\ Len(ptlist[i]) = Avail(ptrsem[i]) + Granted("recv", i, ptrsem[i])
        /\ ptmaxcnt[i] - Len(ptlist[i]) = Avail(ptssem[i]) + Granted("send", i, ptssem[i])
    BY <1>2, PortAccount
  <2>2. Granted("send", i, ptssem[i]) + Granted("recv", i, ptrsem[i]) = 0 =>
          Ptcount(i) = IF Ptcount(i) >= 0 THEN Len(ptlist[i]) + Len(ptssem[i].queue)
                       ELSE Len(ptlist[i]) - Len(ptrsem[i].queue)
    BY <1>2, CountTells
  <2> QED
    BY <2>1, <2>2
<1> QED
  BY <1>1, <1>2, NodesSuffice DEF CountsAccount

\* In every state of the specification the semaphores of pools and ports count what
\* they are meant to, whatever their users do in whatever order and however often a
\* port is reset or deleted under those that wait on it; ptcount tells what it
\* should, and a sender that was let through finds a node: ptsend does not panic.
THEOREM CountsStayExact == PortsSpec => []CountsAccount
<1>1. PortsInit => AccountsInv
  BY AccountsInit
<1>2. AccountsInv /\ [PortsNext]_portsVars => AccountsInv'
  BY AccountsStep
<1>3. AccountsInv => CountsAccount
  BY AccountsHold
<1> QED
  BY <1>1, <1>2, <1>3, PTL DEF PortsSpec

-------------------------------------------------------------------------------
(* Where the buffers are *)

\* What is at each kind of place, before a step and after it.
LEMMA AtIs ==
  /\ \A k \in Pool : /\ <<"pool", k>> \in Places /\ At(<<"pool", k>>) = bpnext[k]
                     /\ At(<<"pool", k>>)' = bpnext'[k]
  /\ \A i \in Port : /\ <<"port", i>> \in Places /\ At(<<"port", i>>) = InPort(i)
                     /\ At(<<"port", i>>)' = InPort(i)'
  /\ \A p \in Client : /\ <<"walk", p>> \in Places /\ At(<<"walk", p>>) = walk[p]
                       /\ At(<<"walk", p>>)' = walk'[p]
  /\ \A p \in Client : /\ <<"hands", p>> \in Places
                       /\ At(<<"hands", p>>) = (IF holds[p] = NoBuf THEN <<>> ELSE <<holds[p]>>)
                       /\ At(<<"hands", p>>)' = (IF holds'[p] = NoBuf THEN <<>> ELSE <<holds'[p]>>)
<1>1. \A k \in Pool : /\ <<"pool", k>> \in Places /\ At(<<"pool", k>>) = bpnext[k]
                      /\ At(<<"pool", k>>)' = bpnext'[k]
  BY DEF Places, At
<1>2. \A i \in Port : /\ <<"port", i>> \in Places /\ At(<<"port", i>>) = InPort(i)
                      /\ At(<<"port", i>>)' = InPort(i)'
  BY DEF Places, At
<1>3. \A p \in Client : /\ <<"walk", p>> \in Places /\ At(<<"walk", p>>) = walk[p]
                        /\ At(<<"walk", p>>)' = walk'[p]
  BY DEF Places, At
<1>4. \A p \in Client : /\ <<"hands", p>> \in Places
                        /\ At(<<"hands", p>>) = (IF holds[p] = NoBuf THEN <<>> ELSE <<holds[p]>>)
                        /\ At(<<"hands", p>>)' = (IF holds'[p] = NoBuf THEN <<>> ELSE <<holds'[p]>>)
  BY DEF Places, At
<1> QED
  BY <1>1, <1>2, <1>3, <1>4

\* There are four kinds of places.
LEMMA PlacesAre ==
  ASSUME NEW n \in Places
  PROVE  \/ \E k \in Pool : n = <<"pool", k>>
         \/ \E i \in Port : n = <<"port", i>>
         \/ \E p \in Client : n = <<"walk", p>>
         \/ \E p \in Client : n = <<"hands", p>>
BY DEF Places

\* A place whose part of the state stays holds what it held.
LEMMA PlaceKept ==
  ASSUME NEW l, NEW m,
         \A k \in Pool : <<"pool", k>> # l /\ <<"pool", k>> # m => bpnext'[k] = bpnext[k],
         \A i \in Port : <<"port", i>> # l /\ <<"port", i>> # m => InPort(i)' = InPort(i),
         \A p \in Client : <<"walk", p>> # l /\ <<"walk", p>> # m => walk'[p] = walk[p],
         \A p \in Client : <<"hands", p>> # l /\ <<"hands", p>> # m => holds'[p] = holds[p]
  PROVE  \A n \in Places : n # l /\ n # m => At(n)' = At(n)
<1> SUFFICES ASSUME NEW n \in Places, n # l, n # m
             PROVE  At(n)' = At(n)
  OBVIOUS
<1>1. ASSUME NEW k \in Pool, n = <<"pool", k>>
      PROVE  At(n)' = At(n)
  BY <1>1, AtIs
<1>2. ASSUME NEW i \in Port, n = <<"port", i>>
      PROVE  At(n)' = At(n)
  BY <1>2, AtIs
<1>3. ASSUME NEW p \in Client, n = <<"walk", p>>
      PROVE  At(n)' = At(n)
  BY <1>3, AtIs
<1>4. ASSUME NEW p \in Client, n = <<"hands", p>>
      PROVE  At(n)' = At(n)
  BY <1>4, AtIs
<1> QED
  BY <1>1, <1>2, <1>3, <1>4, PlacesAre

\* The buffers in B go from place l to place m.
LEMMA Transfer ==
  ASSUME BufferOwnership, UNCHANGED nbpools, NEW l \in Places, NEW m \in Places, l # m,
         NEW B, B \subseteq ToSet(At(l)),
         ToSet(At(l)') = ToSet(At(l)) \ B, ToSet(At(m)') = ToSet(At(m)) \cup B,
         IsInjective(At(l)'), IsInjective(At(m)'),
         \A n \in Places : n # l /\ n # m => At(n)' = At(n),
         \A k \in Pool : m = <<"pool", k>> => \A b \in B : b[1] = k
  PROVE  BufferOwnership'
<1>1. \A n \in Places : IsInjective(At(n)')
  BY DEF BufferOwnership
<1>2. \A n \in Places : \A b : b \in ToSet(At(n)') <=>
        \/ n = m /\ b \in B
        \/ b \in ToSet(At(n)) /\ ~(n = l /\ b \in B)
  OBVIOUS
<1>3. \A n, o \in Places : \A b : b \in ToSet(At(n)) /\ b \in ToSet(At(o)) => n = o
  BY DEF BufferOwnership
<1>4. \A n, o \in Places : \A b : b \in ToSet(At(n)') /\ b \in ToSet(At(o)') => n = o
  <2> SUFFICES ASSUME NEW n \in Places, NEW o \in Places, NEW b,
                      b \in ToSet(At(n)'), b \in ToSet(At(o)')
               PROVE  n = o
    OBVIOUS
  <2>1. CASE b \in B
    <3>1. b \in ToSet(At(l))
      BY <2>1
    <3>2. n = m
      BY <1>2, <1>3, <2>1, <3>1
    <3>3. o = m
      BY <1>2, <1>3, <2>1, <3>1
    <3> QED
      BY <3>2, <3>3
  <2>2. CASE b \notin B
    BY <1>2, <1>3, <2>2
  <2> QED
    BY <2>1, <2>2
<1>5. UNION {ToSet(At(n)') : n \in Places} = UNION {ToSet(At(n)) : n \in Places}
  <2>1. ASSUME NEW b
        PROVE  (\E n \in Places : b \in ToSet(At(n)')) <=> (\E n \in Places : b \in ToSet(At(n)))
    <3>1. CASE b \in B
      BY <1>2, <3>1
    <3>2. CASE b \notin B
      BY <1>2, <3>2
    <3> QED
      BY <3>1, <3>2
  <2> QED
    BY <2>1
<1>6. ASSUME NEW k \in Pool, NEW b \in ToSet(bpnext'[k])
      PROVE  b[1] = k
  <2>1. <<"pool", k>> \in Places /\ b \in ToSet(At(<<"pool", k>>)') /\ At(<<"pool", k>>) = bpnext[k]
    BY <1>6, AtIs
  <2>2. \/ <<"pool", k>> = m /\ b \in B
        \/ b \in ToSet(At(<<"pool", k>>))
    BY <1>2, <2>1
  <2> QED
    BY <2>1, <2>2 DEF BufferOwnership
<1>7. \A n, o \in Places : ToSet(At(n)') \cap ToSet(At(o)') # {} => n = o
  BY <1>4
<1>8. UNION {ToSet(At(n)') : n \in Places} = {b \in Buf : b[1] < nbpools'}
  BY <1>5 DEF BufferOwnership
<1> QED
  BY <1>1, <1>6, <1>7, <1>8 DEF BufferOwnership

\* No buffer goes anywhere.
LEMMA NoTransfer ==
  ASSUME BufferOwnership, UNCHANGED <<nbpools, bpnext, walk, holds>>,
         \A i \in Port : InPort(i)' = InPort(i)
  PROVE  BufferOwnership'
<1>1. \A n \in Places : At(n)' = At(n)
  <2> SUFFICES ASSUME NEW n \in Places
               PROVE  At(n)' = At(n)
    OBVIOUS
  <2>1. ASSUME NEW k \in Pool, n = <<"pool", k>>
        PROVE  At(n)' = At(n)
    BY <2>1, AtIs
  <2>2. ASSUME NEW i \in Port, n = <<"port", i>>
        PROVE  At(n)' = At(n)
    BY <2>2, AtIs
  <2>3. ASSUME NEW p \in Client, n = <<"walk", p>>
        PROVE  At(n)' = At(n)
    BY <2>3, AtIs
  <2>4. ASSUME NEW p \in Client, n = <<"hands", p>>
        PROVE  At(n)' = At(n)
    BY <2>4, AtIs
  <2> QED
    BY <2>1, <2>2, <2>3, <2>4, PlacesAre
<1> QED
  BY <1>1 DEF BufferOwnership

\* A list with one member, or none.
LEMMA Singles ==
  /\ IsInjective(<<>>) /\ ToSet(<<>>) = {}
  /\ \A b : IsInjective(<<b>>) /\ ToSet(<<b>>) = {b}
<1>1. IsInjective(<<>>) /\ ToSet(<<>>) = {}
  BY DEF IsInjective, ToSet
<1>2. ASSUME NEW b
      PROVE  IsInjective(<<b>>) /\ ToSet(<<b>>) = {b}
  <2>1. DOMAIN <<b>> = {1} /\ <<b>>[1] = b
    OBVIOUS
  <2> QED
    BY <2>1 DEF IsInjective, ToSet
<1> QED
  BY <1>1, <1>2

\* The ports that keep their state and their list keep their messages.
LEMMA InPortKept ==
  ASSUME NEW i, ptstate'[i] = ptstate[i], ptlist'[i] = ptlist[i]
  PROVE  InPort(i)' = InPort(i)
BY DEF InPort

\* From the list of a pool to a process's hands.
LEMMA TakeBufOwnership ==
  ASSUME AccountsInv, BufferOwnership, NEW p \in Client, NEW k \in Pool, holds[p] = NoBuf,
         TakeBuf(p, k), UNCHANGED <<nbpools, portVars, walk>>
  PROVE  BufferOwnership'
<1> DEFINE s == bpnext[k]
           h == Head(s)
           l == <<"pool", k>>
           m == <<"hands", p>>
<1>1. s \in Seq(Made) /\ s # <<>> /\ NoBuf \notin Made
  BY Basics DEF PortTypes, TakeBuf
<1>2. /\ l \in Places /\ m \in Places /\ l # m /\ At(l) = s /\ At(l)' = bpnext'[k]
      /\ At(m) = <<>> /\ At(m)' = IF holds'[p] = NoBuf THEN <<>> ELSE <<holds'[p]>>
  BY AtIs
<1>3. /\ holds'[p] = h /\ bpnext'[k] = Tail(s) /\ h # NoBuf
      /\ \A j \in Pool : j # k => bpnext'[j] = bpnext[j]
      /\ \A q \in Client : q # p => holds'[q] = holds[q]
  <2>1. bpnext \in [Pool -> Seq(Made)]
    BY Basics DEF PortTypes
  <2>2. bpnext' = [bpnext EXCEPT ![k] = Tail(bpnext[k])]
    BY DEF TakeBuf
  <2> QED
    BY <2>1, <2>2, TakeBufFacts
<1>4. \A n \in Places : n # l /\ n # m => At(n)' = At(n)
  <2>1. \A j \in Pool : <<"pool", j>> # l /\ <<"pool", j>> # m => bpnext'[j] = bpnext[j]
    BY <1>3
  <2>2. \A q \in Client : <<"hands", q>> # l /\ <<"hands", q>> # m => holds'[q] = holds[q]
    BY <1>3
  <2>3. \A i \in Port : InPort(i)' = InPort(i)
    BY InPortKept DEF portVars
  <2> HIDE DEF l, m
  <2> QED
    BY <2>1, <2>2, <2>3, PlaceKept
<1>5. At(m)' = <<h>>
  BY <1>2, <1>3
<1>6. \A j \in Pool : m # <<"pool", j>>
  OBVIOUS
<1>7. IsInjective(s)
  BY <1>2 DEF BufferOwnership
<1> HIDE DEF s, l, m
<1>8. /\ h \in ToSet(s) /\ ToSet(s) = ToSet(Tail(s)) \cup {h}
      /\ h \notin ToSet(Tail(s)) /\ IsInjective(Tail(s))
  BY <1>1, <1>7, HeadOut
<1> HIDE DEF h
<1>9. /\ {h} \subseteq ToSet(At(l)) /\ ToSet(At(l)') = ToSet(At(l)) \ {h}
      /\ ToSet(At(m)') = ToSet(At(m)) \cup {h} /\ IsInjective(At(l)') /\ IsInjective(At(m)')
  BY <1>2, <1>3, <1>5, <1>8, Singles
<1> QED
  BY <1>2, <1>4, <1>6, <1>9, Transfer, ZenonT(30)

\* Getbuf: the buffer changes hands, or nothing moves.
LEMMA GetbufOwnership ==
  ASSUME AccountsInv, BufferOwnership, NEW p \in Client, NEW k \in Pool, Getbuf(p, k)
  PROVE  BufferOwnership'
<1>1. holds[p] = NoBuf /\ UNCHANGED <<nbpools, portVars, walk>>
  BY DEF Getbuf
<1>2. CASE TakeBuf(p, k)
  BY <1>1, <1>2, TakeBufOwnership
<1>3. CASE UNCHANGED <<holds, bpnext>>
  <2>1. \A i \in Port : InPort(i)' = InPort(i)
    BY <1>1, InPortKept DEF portVars
  <2> QED
    BY <1>1, <1>3, <2>1, NoTransfer
<1> QED
  BY <1>2, <1>3 DEF Getbuf

\* GetbufReturns: the buffer changes hands.
LEMMA GetbufReturnsOwnership ==
  ASSUME AccountsInv, BufferOwnership, NEW p \in Client, GetbufReturns(p)
  PROVE  BufferOwnership'
<1>1. doing[p] = "getbuf" /\ TakeBuf(p, on[p]) /\ UNCHANGED <<nbpools, portVars, walk>>
  BY DEF GetbufReturns
<1>2. on[p] \in Pool /\ holds[p] = NoBuf
  BY <1>1 DEF AccountsInv, InCall
<1> SUFFICES ASSUME NEW k \in Pool, k = on[p]
             PROVE  BufferOwnership'
  BY <1>2
<1>3. TakeBuf(p, k)
  BY <1>1
<1> QED
  BY <1>1, <1>2, <1>3, TakeBufOwnership

\* A buffer comes back to its pool from where it was.
LEMMA PutBack ==
  ASSUME AccountsInv, BufferOwnership, NEW b \in Made, FreeTo(b), UNCHANGED <<doing, on, seq, portVars>>,
         NEW l \in Places, \A k \in Pool : l # <<"pool", k>>, b \in ToSet(At(l)),
         ToSet(At(l)') = ToSet(At(l)) \ {b}, IsInjective(At(l)'),
         \A p \in Client : <<"walk", p>> # l => walk'[p] = walk[p],
         \A p \in Client : <<"hands", p>> # l => holds'[p] = holds[p]
  PROVE  BufferOwnership'
<1> SUFFICES ASSUME NEW k, k = b[1]
             PROVE  BufferOwnership'
  OBVIOUS
<1> DEFINE m == <<"pool", k>>
<1>1. /\ k \in Pool /\ nbpools' = nbpools /\ bpnext'[k] = <<b>> \o bpnext[k]
      /\ \A j \in Pool : j # k => bpnext'[j] = bpnext[j]
  BY FreeToFacts
<1>2. m \in Places /\ m # l /\ At(m) = bpnext[k] /\ At(m)' = bpnext'[k]
  BY <1>1, AtIs
<1>3. \A j \in Pool : <<"pool", j>> # l /\ <<"pool", j>> # m => bpnext'[j] = bpnext[j]
  BY <1>1
<1>4. \A j \in Pool : m = <<"pool", j>> => \A c \in {b} : c[1] = j
  OBVIOUS
<1> HIDE DEF m
<1>5. \A n \in Places : n # l /\ n # m => At(n)' = At(n)
  <2>1. \A i \in Port : InPort(i)' = InPort(i)
    BY InPortKept DEF portVars
  <2> QED
    BY <1>3, <2>1, PlaceKept
<1>6. IsInjective(bpnext[k]) /\ b \notin ToSet(bpnext[k])
  BY <1>2 DEF BufferOwnership
<1>7. bpnext[k] \in Seq(Made)
  BY <1>1, Basics DEF PortTypes
<1>8. ToSet(At(m)') = ToSet(At(m)) \cup {b} /\ IsInjective(At(m)')
  <2>1. ToSet(<<b>> \o bpnext[k]) = ToSet(bpnext[k]) \cup {b} /\ IsInjective(<<b>> \o bpnext[k])
    BY <1>6, <1>7, PrependIn
  <2> QED
    BY <1>1, <1>2, <2>1
<1>9. {b} \subseteq ToSet(At(l)) /\ l # m /\ UNCHANGED nbpools
  BY <1>1, <1>2
<1> QED
  BY <1>2, <1>4, <1>5, <1>8, <1>9, Transfer, ZenonT(30)

\* Freebuf: from a process's hands to the pool.
LEMMA FreebufOwnership ==
  ASSUME AccountsInv, BufferOwnership, NEW p \in Client, Freebuf(p)
  PROVE  BufferOwnership'
<1>1. /\ holds[p] \in Made /\ holds[p] # NoBuf
      /\ FreeTo(holds[p]) /\ holds' = [holds EXCEPT ![p] = NoBuf]
      /\ UNCHANGED <<portVars, doing, on, seq, walk>>
  BY Basics DEF Freebuf, PortTypes
<1> SUFFICES ASSUME NEW b \in Made, b = holds[p]
             PROVE  BufferOwnership'
  BY <1>1
<1> DEFINE l == <<"hands", p>>
<1>2. holds'[p] = NoBuf /\ \A q \in Client : q # p => holds'[q] = holds[q]
  BY <1>1, Basics DEF PortTypes
<1>3. l \in Places /\ At(l) = <<b>> /\ At(l)' = <<>>
  BY <1>1, <1>2, AtIs
<1>4. /\ \A k \in Pool : l # <<"pool", k>>
      /\ \A q \in Client : <<"walk", q>> # l => walk'[q] = walk[q]
      /\ \A q \in Client : <<"hands", q>> # l => holds'[q] = holds[q]
  BY <1>1, <1>2
<1> HIDE DEF l
<1>5. b \in ToSet(At(l)) /\ ToSet(At(l)') = ToSet(At(l)) \ {b} /\ IsInjective(At(l)')
  BY <1>3, Singles
<1>6. FreeTo(b) /\ UNCHANGED <<doing, on, seq, portVars>>
  BY <1>1
<1> QED
  BY <1>3, <1>4, <1>5, <1>6, PutBack

\* Dispose: from the messages to dispose of to the pool.
LEMMA DisposeOwnership ==
  ASSUME AccountsInv, BufferOwnership, NEW p \in Client, Dispose(p)
  PROVE  BufferOwnership'
<1> DEFINE w == walk[p]
           t == Tail(w)
<1>1. /\ w \in Seq(Made) /\ w # <<>> /\ FreeTo(Head(w)) /\ walk' = [walk EXCEPT ![p] = t]
      /\ UNCHANGED <<portVars, doing, on, seq, holds>>
  BY Basics DEF Dispose, PortTypes
<1>2. walk'[p] = t /\ \A q \in Client : q # p => walk'[q] = walk[q]
  BY <1>1, Basics DEF PortTypes
<1> DEFINE l == <<"walk", p>>
<1>3. l \in Places /\ At(l) = w /\ At(l)' = t
  BY <1>2, AtIs
<1>4. /\ \A k \in Pool : l # <<"pool", k>>
      /\ \A q \in Client : <<"walk", q>> # l => walk'[q] = walk[q]
      /\ \A q \in Client : <<"hands", q>> # l => holds'[q] = holds[q]
  BY <1>1, <1>2
<1>5. IsInjective(w)
  BY <1>3 DEF BufferOwnership
<1> HIDE DEF l, w
<1>6. /\ Head(w) \in Made /\ Head(w) \in ToSet(w) /\ ToSet(w) = ToSet(t) \cup {Head(w)}
      /\ Head(w) \notin ToSet(t) /\ IsInjective(t)
  BY <1>1, <1>5, HeadOut
<1> SUFFICES ASSUME NEW b \in Made, b = Head(w)
             PROVE  BufferOwnership'
  BY <1>6
<1> HIDE DEF t
<1>7. b \in ToSet(At(l)) /\ ToSet(At(l)') = ToSet(At(l)) \ {b} /\ IsInjective(At(l)')
  BY <1>3, <1>6
<1>8. FreeTo(b) /\ UNCHANGED <<doing, on, seq, portVars>>
  BY <1>1
<1> QED
  BY <1>3, <1>4, <1>7, <1>8, PutBack

\* From a process's hands to a port.
LEMMA AppendOwnership ==
  ASSUME AccountsInv, BufferOwnership, NEW p \in Client, NEW i \in Port, ptstate[i] = "alloc",
         holds[p] # NoBuf, Append1(p, i), UNCHANGED <<nbpools, bpnext, ptstate, walk>>
  PROVE  BufferOwnership'
<1> SUFFICES ASSUME NEW b, b = holds[p]
             PROVE  BufferOwnership'
  OBVIOUS
<1> DEFINE s == ptlist[i]
           l == <<"hands", p>>
           m == <<"port", i>>
<1>1. /\ b \in Made /\ s \in Seq(Made) /\ ptlist'[i] = Append(s, b) /\ holds'[p] = NoBuf
      /\ \A j \in Port : j # i => ptlist'[j] = ptlist[j]
      /\ \A q \in Client : q # p => holds'[q] = holds[q]
  BY Append1Facts
<1>2. InPort(i) = s /\ InPort(i)' = Append(s, b)
  BY <1>1 DEF InPort
<1>3. /\ l \in Places /\ m \in Places /\ l # m /\ At(l) = <<b>> /\ At(l)' = <<>>
      /\ At(m) = s /\ At(m)' = Append(s, b)
  BY <1>1, <1>2, AtIs
<1>4. \A n \in Places : n # l /\ n # m => At(n)' = At(n)
  <2>1. \A j \in Port : <<"port", j>> # l /\ <<"port", j>> # m => InPort(j)' = InPort(j)
    BY <1>1 DEF InPort
  <2>2. \A q \in Client : <<"hands", q>> # l /\ <<"hands", q>> # m => holds'[q] = holds[q]
    BY <1>1
  <2> HIDE DEF l, m
  <2> QED
    BY <2>1, <2>2, PlaceKept
<1>5. \A k \in Pool : m = <<"pool", k>> => \A c \in {b} : c[1] = k
  OBVIOUS
<1> HIDE DEF s, l, m
<1>6. b \in ToSet(At(l)) /\ ToSet(At(l)') = ToSet(At(l)) \ {b} /\ IsInjective(At(l)')
  BY <1>3, Singles
<1>7. IsInjective(s) /\ b \notin ToSet(s)
  BY <1>3, <1>6 DEF BufferOwnership
<1>8. ToSet(At(m)') = ToSet(At(m)) \cup {b} /\ IsInjective(At(m)')
  <2>1. ToSet(Append(s, b)) = ToSet(s) \cup {b} /\ IsInjective(Append(s, b))
    BY <1>1, <1>7, AppendIn
  <2> QED
    BY <1>3, <2>1
<1>9. /\ {b} \subseteq ToSet(At(l)) /\ ToSet(At(l)') = ToSet(At(l)) \ {b}
      /\ ToSet(At(m)') = ToSet(At(m)) \cup {b} /\ IsInjective(At(l)') /\ IsInjective(At(m)')
  BY <1>6, <1>8
<1>10. l \in Places /\ m \in Places /\ l # m /\ UNCHANGED nbpools
  BY <1>3
<1> QED
  BY <1>4, <1>5, <1>9, <1>10, Transfer

\* From a port to a process's hands.
LEMMA RemoveOwnership ==
  ASSUME AccountsInv, BufferOwnership, NEW p \in Client, NEW i \in Port, ptstate[i] = "alloc",
         holds[p] = NoBuf, ptlist[i] # <<>>, Remove1(p, i), UNCHANGED <<nbpools, bpnext, ptstate, walk>>
  PROVE  BufferOwnership'
<1> DEFINE s == ptlist[i]
           h == Head(s)
           l == <<"port", i>>
           m == <<"hands", p>>
<1>1. /\ h \in Made /\ s \in Seq(Made) /\ ptlist'[i] = Tail(s) /\ holds'[p] = h
      /\ \A j \in Port : j # i => ptlist'[j] = ptlist[j]
      /\ \A q \in Client : q # p => holds'[q] = holds[q]
  BY Remove1Facts
<1>2. InPort(i) = s /\ InPort(i)' = Tail(s) /\ h # NoBuf
  BY <1>1, Basics DEF InPort
<1>3. /\ l \in Places /\ m \in Places /\ l # m /\ At(l) = s /\ At(l)' = Tail(s)
      /\ At(m) = <<>> /\ At(m)' = <<h>>
  BY <1>1, <1>2, AtIs
<1>4. \A n \in Places : n # l /\ n # m => At(n)' = At(n)
  <2>1. \A j \in Port : <<"port", j>> # l /\ <<"port", j>> # m => InPort(j)' = InPort(j)
    BY <1>1 DEF InPort
  <2>2. \A q \in Client : <<"hands", q>> # l /\ <<"hands", q>> # m => holds'[q] = holds[q]
    BY <1>1
  <2> HIDE DEF l, m
  <2> QED
    BY <2>1, <2>2, PlaceKept
<1>5. \A k \in Pool : m = <<"pool", k>> => \A c \in {h} : c[1] = k
  OBVIOUS
<1>6. IsInjective(s) /\ s # <<>>
  BY <1>3 DEF BufferOwnership
<1> HIDE DEF s, l, m
<1>7. /\ h \in ToSet(s) /\ ToSet(s) = ToSet(Tail(s)) \cup {h}
      /\ h \notin ToSet(Tail(s)) /\ IsInjective(Tail(s))
  BY <1>1, <1>6, HeadOut
<1> HIDE DEF h
<1>8. /\ {h} \subseteq ToSet(At(l)) /\ ToSet(At(l)') = ToSet(At(l)) \ {h}
      /\ ToSet(At(m)') = ToSet(At(m)) \cup {h} /\ IsInjective(At(l)') /\ IsInjective(At(m)')
  BY <1>3, <1>7, Singles
<1> QED
  BY <1>3, <1>4, <1>5, <1>8, Transfer, ZenonT(30)

\* Ptsend: the buffer goes to the port, or nothing moves.
LEMMA PtsendOwnership ==
  ASSUME AccountsInv, BufferOwnership, NEW p \in Client, NEW i \in Port, Ptsend(p, i)
  PROVE  BufferOwnership'
<1>1. /\ holds[p] # NoBuf /\ ptstate[i] = "alloc"
      /\ UNCHANGED <<nbpools, bpnext, ptstate, walk>>
  BY DEF Ptsend, poolVars
<1>2. CASE Append1(p, i)
  BY <1>1, <1>2, AppendOwnership
<1>3. CASE UNCHANGED <<ptlist, holds>>
  <2>1. \A j \in Port : InPort(j)' = InPort(j)
    BY <1>1, <1>3, InPortKept
  <2> QED
    BY <1>1, <1>3, <2>1, NoTransfer
<1> QED
  BY <1>2, <1>3 DEF Ptsend

\* PtsendReturns: to the port if it is the one that was meant, or it stays.
LEMMA PtsendReturnsOwnership ==
  ASSUME AccountsInv, BufferOwnership, NEW p \in Client, PtsendReturns(p)
  PROVE  BufferOwnership'
<1>1. doing[p] = "send" /\ UNCHANGED <<nbpools, bpnext, ptstate, walk>>
  BY DEF PtsendReturns, poolVars
<1>2. on[p] \in Port /\ holds[p] # NoBuf
  BY <1>1 DEF AccountsInv, InCall
<1> SUFFICES ASSUME NEW i \in Port, i = on[p]
             PROVE  BufferOwnership'
  BY <1>2
<1>3. CASE Same(p, i)
  <2>1. Append1(p, i) /\ ptstate[i] = "alloc"
    BY <1>3 DEF PtsendReturns, Same
  <2> QED
    BY <1>1, <1>2, <2>1, AppendOwnership
<1>4. CASE ~Same(p, i)
  <2>1. UNCHANGED <<ptlist, holds>>
    BY <1>4 DEF PtsendReturns
  <2>2. \A j \in Port : InPort(j)' = InPort(j)
    BY <1>1, <2>1, InPortKept
  <2> QED
    BY <1>1, <2>1, <2>2, NoTransfer
<1> QED
  BY <1>3, <1>4

\* Who may receive finds a message.
LEMMA FindsMessage ==
  ASSUME AccountsInv, NEW p \in Client, NEW i \in Port, ptstate[i] = "alloc", ptrsem[i].ok,
         ptrsem[i].count > 0 \/ (p \in Present("recv", i) /\ ~Queued(ptrsem[i], p))
  PROVE  ptlist[i] # <<>>
<1> DEFINE r == ptrsem[i]
           E == Present("recv", i)
<1>1. Sound(r) /\ Len(ptlist[i]) = Units(E, r) /\ E \in SUBSET Client
  BY Waiters DEF AccountsInv, PortInv
<1>2. Units(E, r) >= 1
  <2>1. CASE r.count > 0
    BY <1>1, <2>1, WaitTakes
  <2>2. CASE p \in E /\ ~Queued(r, p)
    BY <1>1, <2>2, GoesOn
  <2> QED
    BY <2>1, <2>2
<1>3. Len(ptlist[i]) # 0
  BY <1>1, <1>2
<1> QED
  BY <1>3

\* Ptrecv: the buffer leaves the port, or nothing moves.
LEMMA PtrecvOwnership ==
  ASSUME AccountsInv, BufferOwnership, NEW p \in Client, NEW i \in Port, Ptrecv(p, i)
  PROVE  BufferOwnership'
<1>1. /\ holds[p] = NoBuf /\ ptstate[i] = "alloc" /\ ptrsem[i].ok
      /\ UNCHANGED <<nbpools, bpnext, ptstate, walk>>
  BY DEF Ptrecv, poolVars
<1>2. CASE ptrsem[i].count > 0
  <2>1. Remove1(p, i)
    BY <1>2 DEF Ptrecv
  <2>2. ptlist[i] # <<>>
    BY <1>1, <1>2, FindsMessage
  <2> QED
    BY <1>1, <2>1, <2>2, RemoveOwnership
<1>3. CASE ~(ptrsem[i].count > 0)
  <2>1. UNCHANGED <<ptlist, holds>>
    BY <1>3 DEF Ptrecv
  <2>2. \A j \in Port : InPort(j)' = InPort(j)
    BY <1>1, <2>1, InPortKept
  <2> QED
    BY <1>1, <2>1, <2>2, NoTransfer
<1> QED
  BY <1>2, <1>3

\* PtrecvReturns: it leaves the port if that is the one that was meant.
LEMMA PtrecvReturnsOwnership ==
  ASSUME AccountsInv, BufferOwnership, NEW p \in Client, PtrecvReturns(p)
  PROVE  BufferOwnership'
<1>1. doing[p] = "recv" /\ UNCHANGED <<nbpools, bpnext, ptstate, walk>>
  BY DEF PtrecvReturns, poolVars
<1>2. /\ on[p] \in Port /\ holds[p] = NoBuf
      /\ seq[p] = ptseq[on[p]] => ptrsem[on[p]].ok
  BY <1>1 DEF AccountsInv, InCall
<1> SUFFICES ASSUME NEW i \in Port, i = on[p]
             PROVE  BufferOwnership'
  BY <1>2
<1>3. CASE Same(p, i)
  <2>1. Remove1(p, i) /\ ptstate[i] = "alloc" /\ ~Queued(ptrsem[i], p) /\ seq[p] = ptseq[i]
    BY <1>3 DEF PtrecvReturns, Same
  <2>2. p \in Present("recv", i) /\ ptrsem[i].ok
    BY <1>1, <1>2, <2>1 DEF Present, Waiting
  <2>3. ptlist[i] # <<>>
    BY <2>1, <2>2, FindsMessage
  <2> QED
    BY <1>1, <1>2, <2>1, <2>3, RemoveOwnership
<1>4. CASE ~Same(p, i)
  <2>1. UNCHANGED <<ptlist, holds>>
    BY <1>4 DEF PtrecvReturns
  <2>2. \A j \in Port : InPort(j)' = InPort(j)
    BY <1>1, <2>1, InPortKept
  <2> QED
    BY <1>1, <2>1, <2>2, NoTransfer
<1> QED
  BY <1>3, <1>4

\* Ptclear: all of a port's messages go to the process that clears it.
LEMMA PtclearOwnership ==
  ASSUME AccountsInv, BufferOwnership, NEW p \in Client, NEW i \in Port, NEW new \in {"reset", "delete"},
         Ptclear(p, i, new)
  PROVE  BufferOwnership'
<1> DEFINE s == ptlist[i]
           l == <<"port", i>>
           m == <<"walk", p>>
<1>1. /\ doing[p] = "idle" /\ ptstate[i] = "alloc" /\ ptstate' = [ptstate EXCEPT ![i] = "limbo"]
      /\ walk' = [walk EXCEPT ![p] = s] /\ UNCHANGED <<nbpools, bpnext, ptlist, holds>>
  BY DEF Ptclear, poolVars
<1>2. walk[p] = <<>>
  BY <1>1 DEF AccountsInv, InCall
<1>3. /\ ptstate'[i] = "limbo" /\ walk'[p] = s
      /\ \A j \in Port : j # i => ptstate'[j] = ptstate[j]
      /\ \A q \in Client : q # p => walk'[q] = walk[q]
  BY <1>1, Basics DEF PortTypes
<1>4. InPort(i) = s /\ InPort(i)' = <<>>
  BY <1>1, <1>3 DEF InPort
<1>5. /\ l \in Places /\ m \in Places /\ l # m /\ At(l) = s /\ At(l)' = <<>>
      /\ At(m) = <<>> /\ At(m)' = s
  BY <1>2, <1>3, <1>4, AtIs
<1>6. \A n \in Places : n # l /\ n # m => At(n)' = At(n)
  <2>1. \A j \in Port : <<"port", j>> # l /\ <<"port", j>> # m => InPort(j)' = InPort(j)
    BY <1>1, <1>3 DEF InPort
  <2>2. \A q \in Client : <<"walk", q>> # l /\ <<"walk", q>> # m => walk'[q] = walk[q]
    BY <1>3
  <2> HIDE DEF l, m
  <2> QED
    BY <1>1, <2>1, <2>2, PlaceKept
<1> DEFINE B == ToSet(s)
<1>7. \A k \in Pool : m = <<"pool", k>> => \A c \in B : c[1] = k
  OBVIOUS
<1> HIDE DEF s, l, m
<1>8. IsInjective(s)
  BY <1>5 DEF BufferOwnership
<1>9. /\ B \subseteq ToSet(At(l)) /\ ToSet(At(l)') = ToSet(At(l)) \ B
      /\ ToSet(At(m)') = ToSet(At(m)) \cup B /\ IsInjective(At(l)') /\ IsInjective(At(m)')
  BY <1>5, <1>8, Singles
<1> HIDE DEF B
<1>10. UNCHANGED nbpools
  BY <1>1
<1> QED
  BY <1>5, <1>6, <1>7, <1>9, <1>10, Transfer

\* The other steps of ports move no buffer.
LEMMA PtcreateOwnership ==
  ASSUME AccountsInv, BufferOwnership, NEW i \in Port, NEW n \in MaxCnt, Ptcreate(i, n)
  PROVE  BufferOwnership'
<1>1. /\ ptstate[i] = "free" /\ ptstate' = [ptstate EXCEPT ![i] = "alloc"]
      /\ ptlist' = [ptlist EXCEPT ![i] = <<>>] /\ UNCHANGED <<nbpools, bpnext, walk, holds>>
  BY DEF Ptcreate, FreePort, poolVars, clientVars
<1>2. \A j \in Port : InPort(j)' = InPort(j)
  BY <1>1, Basics DEF InPort, PortTypes
<1> QED
  BY <1>1, <1>2, NoTransfer

\* LetSendersGo: the list that is emptied is one nobody reads.
LEMMA LetSendersGoOwnership ==
  ASSUME AccountsInv, BufferOwnership, NEW p \in Client, LetSendersGo(p)
  PROVE  BufferOwnership'
<1>1. /\ doing[p] \in Clearing /\ ptlist' = [ptlist EXCEPT ![on[p]] = <<>>]
      /\ UNCHANGED <<nbpools, bpnext, walk, holds, ptstate>>
  BY DEF LetSendersGo, poolVars, Clearing
<1>2. on[p] \in Port /\ ptstate[on[p]] = "limbo"
  BY <1>1, Clearer
<1>3. \A j \in Port : InPort(j)' = InPort(j)
  BY <1>1, <1>2, Basics DEF InPort, PortTypes
<1> QED
  BY <1>1, <1>3, NoTransfer

\* LetReceiversGo: no list changes.
LEMMA LetReceiversGoOwnership ==
  ASSUME AccountsInv, BufferOwnership, NEW p \in Client, LetReceiversGo(p)
  PROVE  BufferOwnership'
<1>1. UNCHANGED <<nbpools, bpnext, walk, holds, ptstate, ptlist>>
  BY DEF LetReceiversGo, poolVars
<1>2. \A j \in Port : InPort(j)' = InPort(j)
  BY <1>1, InPortKept
<1> QED
  BY <1>1, <1>2, NoTransfer

\* PtclearReturns: the port has no messages.
LEMMA PtclearReturnsOwnership ==
  ASSUME AccountsInv, BufferOwnership, NEW p \in Client, PtclearReturns(p)
  PROVE  BufferOwnership'
<1>1. /\ doing[p] \in {"reset3", "delete3"}
      /\ ptstate' = [ptstate EXCEPT ![on[p]] = IF doing[p] = "reset3" THEN "alloc" ELSE "free"]
      /\ UNCHANGED <<nbpools, bpnext, walk, holds, ptlist>>
  BY DEF PtclearReturns, poolVars
<1>2. on[p] \in Port /\ ptlist[on[p]] = <<>>
  <2>1. doing[p] \in Clearing /\ doing[p] \notin {"reset", "delete"}
    BY <1>1 DEF Clearing
  <2> QED
    BY <2>1, Clearer
<1>3. \A j \in Port : InPort(j)' = InPort(j)
  BY <1>1, <1>2, Basics DEF InPort, PortTypes
<1> QED
  BY <1>1, <1>3, NoTransfer

\* Mkbufpool: the buffers are made, each at one place.
LEMMA MkbufpoolOwnership ==
  ASSUME AccountsInv, BufferOwnership, Mkbufpool
  PROVE  BufferOwnership'
<1> SUFFICES ASSUME NEW n, n = nbpools
             PROVE  BufferOwnership'
  OBVIOUS
<1> DEFINE new == [i \in 1 .. NumBufs |-> <<n, i>>]
           l == <<"pool", n>>
           B == {<<n, i>> : i \in 1 .. NumBufs}
<1>1. /\ n \in Nat /\ n \in Pool /\ nbpools' = n + 1 /\ NumBufs \in Nat
      /\ bpnext' = [bpnext EXCEPT ![n] = new] /\ UNCHANGED <<portVars, clientVars>>
  <2>1. n \in Nat /\ n < Cardinality(Pool) /\ Cardinality(Pool) \in Nat /\ NumBufs \in Nat
    BY Basics DEF Mkbufpool, PortTypes
  <2>2. n \in Pool
    BY <2>1, PortsAssumption
  <2> QED
    BY <2>1, <2>2 DEF Mkbufpool
<1>2. bpnext[n] = <<>>
  BY <1>1 DEF AccountsInv, PoolInv
<1>3. bpnext'[n] = new /\ \A j \in Pool : j # n => bpnext'[j] = bpnext[j]
  BY <1>1, Basics DEF PortTypes
<1>4. ToSet(new) = B /\ IsInjective(new)
  BY <1>1 DEF ToSet, IsInjective
<1> HIDE DEF new
<1>5. l \in Places /\ At(l) = <<>> /\ At(l)' = new
  BY <1>1, <1>2, <1>3, AtIs
<1>6. \A m \in Places : m # l => At(m)' = At(m)
  <2>1. \A j \in Pool : <<"pool", j>> # l => bpnext'[j] = bpnext[j]
    BY <1>3
  <2>2. \A i \in Port : InPort(i)' = InPort(i)
    BY <1>1, InPortKept DEF portVars
  <2>3. walk' = walk /\ holds' = holds
    BY <1>1 DEF clientVars
  <2> HIDE DEF l
  <2> QED
    BY <2>1, <2>2, <2>3, PlaceKept
<1>7. Made' = Made \cup B /\ Made \cap B = {}
  <2>1. \A b \in Buf : b[1] \in Nat /\ (b[1] < n + 1 <=> b[1] < n \/ b \in B)
    <3> SUFFICES ASSUME NEW b \in Buf
                 PROVE  b[1] \in Nat /\ (b[1] < n + 1 <=> b[1] < n \/ b \in B)
      OBVIOUS
    <3>1. PICK k \in Pool, i \in 1 .. NumBufs : b = <<k, i>>
      BY DEF Buf
    <3>2. k \in Nat /\ b[1] = k
      BY <3>1, Basics
    <3>3. b \in B <=> k = n
      BY <3>1
    <3> HIDE DEF B
    <3> QED
      BY <1>1, <3>2, <3>3
  <2>2. B \subseteq Buf
    BY <1>1 DEF Buf
  <2>3. \A b \in B : ~(b[1] < n)
    BY <1>1
  <2> HIDE DEF B
  <2> QED
    BY <1>1, <2>1, <2>2, <2>3 DEF Made
<1>8. /\ \A m \in Places : IsInjective(At(m))
      /\ \A m, o \in Places : \A b : b \in ToSet(At(m)) /\ b \in ToSet(At(o)) => m = o
      /\ UNION {ToSet(At(m)) : m \in Places} = Made
      /\ \A k \in Pool : \A b \in ToSet(bpnext[k]) : b[1] = k
  BY DEF BufferOwnership, Made
<1> HIDE DEF l
<1>9. \A m \in Places : \A b : b \in ToSet(At(m)') <=> b \in ToSet(At(m)) \/ (m = l /\ b \in B)
  BY <1>4, <1>5, <1>6, Singles
<1>10. \A m \in Places : IsInjective(At(m)')
  BY <1>4, <1>5, <1>6, <1>8
<1>11. \A k \in Pool : \A b \in ToSet(bpnext'[k]) : b[1] = k
  <2>1. \A b \in B : b[1] = n
    OBVIOUS
  <2> HIDE DEF B
  <2> QED
    BY <1>3, <1>4, <1>8, <2>1
<1> HIDE DEF B
<1>12. \A m \in Places : \A b \in ToSet(At(m)) : b \notin B
  BY <1>7, <1>8
<1>13. \A m, o \in Places : ToSet(At(m)') \cap ToSet(At(o)') # {} => m = o
  BY <1>8, <1>9, <1>12
<1>14. UNION {ToSet(At(m)') : m \in Places} = Made'
  BY <1>5, <1>7, <1>8, <1>9
<1> QED
  BY <1>10, <1>11, <1>13, <1>14 DEF BufferOwnership, Made

-------------------------------------------------------------------------------
(* No buffer is lost *)

\* At first there are no buffers.
LEMMA OwnershipInit ==
  ASSUME PortsInit
  PROVE  BufferOwnership
<1>1. \A l \in Places : At(l) = <<>>
  <2> SUFFICES ASSUME NEW l \in Places
               PROVE  At(l) = <<>>
    OBVIOUS
  <2>1. ASSUME NEW k \in Pool, l = <<"pool", k>>
        PROVE  At(l) = <<>>
    BY <2>1, AtIs DEF PortsInit
  <2>2. ASSUME NEW i \in Port, l = <<"port", i>>
        PROVE  At(l) = <<>>
    BY <2>2, AtIs DEF PortsInit, InPort
  <2>3. ASSUME NEW p \in Client, l = <<"walk", p>>
        PROVE  At(l) = <<>>
    BY <2>3, AtIs DEF PortsInit
  <2>4. ASSUME NEW p \in Client, l = <<"hands", p>>
        PROVE  At(l) = <<>>
    BY <2>4, AtIs DEF PortsInit
  <2> QED
    BY <2>1, <2>2, <2>3, <2>4, PlacesAre
<1>2. {b \in Buf : b[1] < nbpools} = {}
  <2>1. \A b \in Buf : b[1] \in Nat
    <3>1. Pool = 0 .. Cardinality(Pool) - 1
      BY PortsAssumption
    <3>2. Pool \subseteq Nat
      BY <3>1, PortsAssumption, FS_CardinalityType
    <3> QED
      BY <3>2 DEF Buf
  <2> QED
    BY <2>1 DEF PortsInit
<1>3. \A k \in Pool : ToSet(bpnext[k]) = {}
  BY Singles DEF PortsInit
<1> QED
  BY <1>1, <1>2, <1>3, Singles DEF BufferOwnership

\* Every step keeps every buffer at one place.
LEMMA OwnershipStep ==
  ASSUME AccountsInv, BufferOwnership, [PortsNext]_portsVars
  PROVE  BufferOwnership'
<1>1. CASE UNCHANGED portsVars
  <2>1. UNCHANGED <<nbpools, bpnext, walk, holds, ptstate, ptlist>>
    BY <1>1 DEF portsVars, poolVars, portVars, clientVars
  <2>2. \A i \in Port : InPort(i)' = InPort(i)
    BY <2>1, InPortKept
  <2> QED
    BY <2>1, <2>2, NoTransfer
<1>2. CASE Mkbufpool
  BY <1>2, MkbufpoolOwnership
<1>3. ASSUME NEW i \in Port, NEW n \in MaxCnt, Ptcreate(i, n)
      PROVE  BufferOwnership'
  BY <1>3, PtcreateOwnership
<1>4. ASSUME NEW p \in Client, NEW k \in Pool, Getbuf(p, k)
      PROVE  BufferOwnership'
  BY <1>4, GetbufOwnership
<1>5. ASSUME NEW p \in Client, GetbufReturns(p)
      PROVE  BufferOwnership'
  BY <1>5, GetbufReturnsOwnership
<1>6. ASSUME NEW p \in Client, Freebuf(p)
      PROVE  BufferOwnership'
  BY <1>6, FreebufOwnership
<1>7. ASSUME NEW p \in Client, NEW i \in Port, Ptsend(p, i)
      PROVE  BufferOwnership'
  BY <1>7, PtsendOwnership
<1>8. ASSUME NEW p \in Client, NEW i \in Port, Ptrecv(p, i)
      PROVE  BufferOwnership'
  BY <1>8, PtrecvOwnership
<1>9. ASSUME NEW p \in Client, NEW i \in Port, NEW new \in {"reset", "delete"}, Ptclear(p, i, new)
      PROVE  BufferOwnership'
  BY <1>9, PtclearOwnership
<1>10. ASSUME NEW p \in Client, PtsendReturns(p)
       PROVE  BufferOwnership'
  BY <1>10, PtsendReturnsOwnership
<1>11. ASSUME NEW p \in Client, PtrecvReturns(p)
       PROVE  BufferOwnership'
  BY <1>11, PtrecvReturnsOwnership
<1>12. ASSUME NEW p \in Client, Dispose(p)
       PROVE  BufferOwnership'
  BY <1>12, DisposeOwnership
<1>13. ASSUME NEW p \in Client, LetSendersGo(p)
       PROVE  BufferOwnership'
  BY <1>13, LetSendersGoOwnership
<1>14. ASSUME NEW p \in Client, LetReceiversGo(p)
       PROVE  BufferOwnership'
  BY <1>14, LetReceiversGoOwnership
<1>15. ASSUME NEW p \in Client, PtclearReturns(p)
       PROVE  BufferOwnership'
  BY <1>15, PtclearReturnsOwnership
<1> QED
  BY <1>1, <1>2, <1>3, <1>4, <1>5, <1>6, <1>7, <1>8, <1>9, <1>10, <1>11, <1>12, <1>13, <1>14, <1>15
     DEF PortsNext

\* In every state of the specification every buffer of a pool is in one place, once:
\* on its pool's list, in a port, with the process that clears a port, or in a
\* process's hands.  No order of sends, receives, frees, resets and deletes loses a
\* buffer or frees it twice.
THEOREM BuffersStayOwned == PortsSpec => []BufferOwnership
<1> DEFINE I == AccountsInv /\ BufferOwnership
<1>1. PortsInit => I
  BY AccountsInit, OwnershipInit
<1>2. I /\ [PortsNext]_portsVars => I'
  BY AccountsStep, OwnershipStep
<1>3. I => BufferOwnership
  OBVIOUS
<1> HIDE DEF I
<1> QED
  BY <1>1, <1>2, <1>3, PTL DEF PortsSpec
===============================================================================
