------------------------------- MODULE Network -------------------------------
(***************************************************************************)
(* The network stack: netin takes frames from the Ethernet and hands them  *)
(* to ARP, UDP and ICMP; processes send and receive through UDP and ICMP;  *)
(* ipout sends the answers to pings, so that netin never waits for ARP.    *)
(* All of them share one pool of buffers.                                  *)
(*                                                                         *)
(* The code runs with interrupts disabled, so a step goes from one place   *)
(* where a process can wait to the next: getbuf, read from ETHER0,         *)
(* recvtime in arp_resolve, udp_recv and icmp_recv, wait for ipoqueue.     *)
(***************************************************************************)
EXTENDS Arp, Udp, Icmp

CONSTANTS
  ArpFrames,    \* ARP packets that may arrive, with the hardware address of their sender
  IpPackets,    \* IP packets that may arrive
  Endpoints,    \* endpoints that may be registered: <<remip, remport, locport>>
  Dests,        \* addresses packets are sent to
  NetHazards    \* "recycle", "stray", "share", "release", "flood", "wrap", "urgent"

ASSUME NetworkAssumption == \A f \in ArpFrames : f.op \in {"request", "reply", "bad"}

VARIABLE nw
netVars == <<nw>>

NetIdle == [op |-> "none", slot |-> -1, pkt |-> NoPacket, hop |-> NoAddr, tries |-> 0]
NetCall(op, slot, pkt) == [NetIdle EXCEPT !.op = op, !.slot = slot, !.pkt = pkt]

\* net_init
NetInit == nw \in
  [arp : {ArpInit}, udp : {UdpInit}, icmp : {IcmpInit}, free : {NetBufs}, oq : {<<>>},
   valid : {FALSE}, mail : {[p \in NetProc \cup {IpOut} |-> NoMail]},
   call : {[p \in NetProc \cup {IpOut} |-> NetIdle]},
   netin : {NetCall("getbuf", -1, NoPacket)}, frame : {NoFrame}, ruined : {FALSE}]

Ended(n, p) == [n EXCEPT !.call[p] = NetIdle]
Waiting(n, p, call) == [n EXCEPT !.call[p] = call]

\* NetData.ipucast is zero until DHCP has an answer.
Self(n) == IF n.valid THEN Me ELSE NoAddr

-----------------------------------------------------------------------------
(* ip.c *)

\* ip_enqueue.  The count of iqsem does not include a packet for which ipout
\* has been woken but that it has not taken yet, so that the ring can overflow.
OutCount(n) == Len(n.oq) - (IF n.call[IpOut].op = "none" THEN 1 ELSE 0)
IpEnqueue_Leak(n, pkt) ==
  IF OutCount(n) >= IpOqsiz THEN n
  ELSE IF Len(n.oq) = IpOqsiz THEN [n EXCEPT !.ruined = TRUE]
  ELSE [n EXCEPT !.oq = Append(@, pkt)]
IpEnqueue(n, pkt) ==
  IF OutCount(n) >= IpOqsiz THEN Freed(n)
  ELSE IF Len(n.oq) = IpOqsiz THEN [n EXCEPT !.ruined = TRUE]
  ELSE [n EXCEPT !.oq = Append(@, pkt)]

\* icmp_in, for an echo request, when getbuf has a buffer for the answer.
EchoReply(n, pkt) == IcmpPacket(Self(n), pkt.src, "reply", pkt.ident)
Echo(n, pkt) == Freed(IpEnqueue(Taken(n), EchoReply(n, pkt)))

\* ip_local
IpLocal(n, pkt) ==
  CASE pkt.proto = "udp" -> UdpIn(n, pkt)
    [] pkt.proto = "icmp" /\ pkt.type = "request" -> Echo(n, pkt)
    [] pkt.proto = "icmp" /\ pkt.type = "reply" -> IcmpReply(n, pkt)
    [] OTHER -> Freed(n)
LocalWaits(n, pkt) == pkt.proto = "icmp" /\ pkt.type = "request" /\ n.free = 0

\* ip_out
IpFrame(n, hop, hw) == Freed([n EXCEPT !.frame = [hop |-> hop, hw |-> hw]])

\* The end of ip_send, and of a turn of ipout.  Until DHCP has an answer the
\* mask and the prefix are zero, and every address is on the local network.
NextHop(n, dst) == IF ~n.valid \/ dst \in OnNet THEN dst ELSE Router
IpRoute(n, p, pkt) ==
  LET hop == NextHop(n, pkt.dst)
      ask == ArpAsk(n, p, hop)
  IN IF hop = NoAddr THEN Freed(n)
     ELSE CASE ask.did = "resolved" -> IpFrame(n, hop, n.arp[ask.slot].hw)
            [] ask.did = "fail" -> Freed(n)
            [] ask.did = "wait" ->
                 Waiting(ask.net, p, [NetCall("arp", ask.slot, pkt) EXCEPT !.hop = hop, !.tries = 1])

\* ip_send
IpSend(n, p, pkt) ==
  IF pkt.dst \in {Loop, Self(n)}
  THEN IF LocalWaits(n, pkt) THEN Waiting(n, p, NetCall("echo", -1, pkt)) ELSE IpLocal(n, pkt)
  ELSE IF pkt.dst = Bcast THEN IpFrame(n, Bcast, Bcast)
  ELSE IpRoute(n, p, pkt)

\* ip_in
IpAccepts(n, pkt) ==
  /\ pkt.good
  /\ \/ pkt.dst = Bcast
     \/ ~n.valid /\ pkt.proto = "udp"
     \/ n.valid /\ pkt.dst = Me

-----------------------------------------------------------------------------
(* The cases left out unless NetHazards admits them. *)

\* An entry of the ARP cache is reused before who waited for it has read it.
Recycles(n) == \E p \in DOMAIN n.call :
                 n.call[p].op = "arp" /\ n.call[p].slot = ArpVictim(n.arp)
\* An echo reply arrives for a queue that is full.
Floods(n, pkt) == /\ pkt.proto = "icmp" /\ pkt.type = "reply"
                  /\ IcmpWanted(n, pkt) /\ n.icmp[pkt.ident].count = IcmpQsiz
\* A process that outranks ipout fills its queue before it has run.
Overtakes(n) == n.call[IpOut].op = "none" /\ Len(n.oq) = IpOqsiz

Excluded(n, pkt) == \/ "recycle" \notin NetHazards /\ Recycles(n)
                    \/ "flood" \notin NetHazards /\ Floods(n, pkt)
                    \/ "urgent" \notin NetHazards /\ Overtakes(n)

\* Nobody is in a receive on the slot, not even woken up and yet to run.
Unshared(op, s) == \A p \in NetProc : ~(nw.call[p].op = op /\ nw.call[p].slot = s)

-----------------------------------------------------------------------------
(* Processes *)

Callers == {p \in NetProc : nw.call[p].op = "none" /\ ~nw.ruined}

RegisterUdp(p) == \E e \in Endpoints :
  p \in Callers /\ nw' = UdpRegister(nw, e[1], e[2], e[3])

\* udp_recv, udp_recvaddr
RecvUdp(p) == \E s \in UdpSlot :
  /\ p \in Callers /\ nw.udp[s].state = "used"
  /\ "share" \in NetHazards \/ Unshared("udp", s)
  /\ nw' = IF nw.udp[s].q # <<>> THEN UdpTake(nw, s)
            ELSE Waiting(UdpAwait(nw, p, s), p, NetCall("udp", s, NoPacket))

UdpReturns(p) ==
  /\ nw.call[p].op = "udp" /\ ~nw.ruined
  /\ nw' = Ended(UdpWoken(nw, p, nw.call[p].slot), p)

ReleaseUdp(p) == \E s \in UdpSlot :
  /\ p \in Callers
  /\ "release" \in NetHazards \/ Unshared("udp", s)
  /\ nw' = UdpRelease(nw, s)

\* getbuf, and what is sent once it has returned.
SendOr(p, op, slot, pkt) ==
  /\ ~Excluded(nw, pkt)
  /\ nw' = IF nw.free = 0 THEN Waiting(nw, p, NetCall(op, slot, pkt))
            ELSE IpSend(Taken(nw), p, pkt)

SendUdp(p) == \E s \in UdpSlot :
  LET e == nw.udp[s] IN
  /\ p \in Callers /\ e.state # "free" /\ e.remip # NoAddr
  /\ SendOr(p, "send", s, UdpPacket(Self(nw), e.remip, e.locport, e.remport))

SendtoUdp(p) == \E s \in UdpSlot, dst \in Dests, port \in {e[2] : e \in Endpoints} :
  /\ p \in Callers /\ nw.udp[s].state # "free"
  /\ SendOr(p, "sendto", s, UdpPacket(Self(nw), dst, nw.udp[s].locport, port))

SendIcmp(p) == \E s \in IcmpSlot, dst \in Dests :
  p \in Callers /\ SendOr(p, "ping", s, IcmpPacket(Self(nw), dst, "request", s))

\* The process gets the buffer it waited for.  udp_send has read the addresses,
\* the others read their own address after, and udp_sendto the port.
GetsBuffer(p) ==
  LET c == nw.call[p]
      pkt == CASE c.op = "send" -> c.pkt
               [] c.op = "sendto" -> [c.pkt EXCEPT !.src = Self(nw), !.sport = nw.udp[c.slot].locport]
               [] OTHER -> [c.pkt EXCEPT !.src = Self(nw)]
  IN /\ c.op \in {"send", "sendto", "ping"} /\ nw.free > 0 /\ ~nw.ruined
     /\ ~Excluded(nw, pkt)
     /\ nw' = IpSend(Taken(Ended(nw, p)), p, pkt)

\* arp_resolve goes on when a message has come: any that is not SYSERR is taken
\* for the news that the entry is resolved.
ArpReturns(p) ==
  LET c == nw.call[p]
      n == Cleared(Ended(nw, p), p)
  IN /\ c.op = "arp" /\ nw.mail[p] # NoMail /\ ~nw.ruined
     /\ nw' = IF nw.mail[p] = "syserr" THEN Freed(n)
               ELSE IpFrame(n, c.hop, n.arp[c.slot].hw)

\* recvtime times out: the request is sent again, or given up.
ArpTimesOut(p) ==
  LET c == nw.call[p] IN
  /\ c.op = "arp" /\ nw.mail[p] = NoMail /\ ~nw.ruined
  /\ nw' = IF c.tries < ArpRetry THEN [nw EXCEPT !.call[p].tries = @ + 1]
            ELSE Freed(ArpExpire(Ended(nw, p), c.slot))

RegisterIcmp(p) == \E host \in Dests : p \in Callers /\ nw' = IcmpRegister(nw, host)

RecvIcmp(p) == \E s \in IcmpSlot :
  /\ p \in Callers /\ nw.icmp[s].state = "used"
  /\ "share" \in NetHazards \/ Unshared("icmp", s)
  /\ "wrap" \in NetHazards \/ nw.icmp[s].head < IcmpQsiz
  /\ nw' = IF nw.icmp[s].count # 0 THEN IcmpTake(nw, s)
            ELSE Waiting(IcmpAwait(nw, p, s), p, NetCall("icmp", s, NoPacket))

IcmpReturns(p) ==
  /\ nw.call[p].op = "icmp" /\ ~nw.ruined
  /\ nw' = Ended(IcmpWoken(nw, p, nw.call[p].slot), p)

ReleaseIcmp(p) == \E s \in IcmpSlot :
  /\ p \in Callers
  /\ "release" \in NetHazards \/ Unshared("icmp", s)
  /\ "wrap" \in NetHazards \/ nw.icmp[s].head + nw.icmp[s].count <= IcmpQsiz
  /\ nw' = IcmpRelease(nw, s)

\* The answer to a ping of the machine itself gets its buffer.
EchoReturns(p) ==
  /\ nw.call[p].op = "echo" /\ nw.free > 0 /\ ~nw.ruined
  /\ ~Excluded(nw, nw.call[p].pkt)
  /\ nw' = Echo(Ended(nw, p), nw.call[p].pkt)

\* Some process sends a message to one that waits for another.
Stray(p) == \E msg \in {"ok", "other", "syserr"} :
  /\ "stray" \in NetHazards /\ ~nw.ruined
  /\ nw.call[p].op \in {"arp", "udp", "icmp"}
  /\ nw' = Sent(nw, p, msg)

\* getlocalip has an answer.
AddressKnown == ~nw.valid /\ ~nw.ruined /\ nw' = [nw EXCEPT !.valid = TRUE]

-----------------------------------------------------------------------------
(* netin and ipout *)

NetinNext(n) == [n EXCEPT !.netin = NetCall("getbuf", -1, NoPacket)]

NetinBuffer ==
  /\ nw.netin.op = "getbuf" /\ nw.free > 0 /\ ~nw.ruined
  /\ nw' = [Taken(nw) EXCEPT !.netin = NetCall("read", -1, NoPacket)]

NetinArp == \E f \in ArpFrames :
  /\ nw.netin.op = "read" /\ ~nw.ruined
  /\ "recycle" \in NetHazards \/ ~(ArpLearns(nw, f) /\ Recycles(nw))
  /\ nw' = Freed(NetinNext(IF f.op = "bad" THEN nw ELSE ArpIn(nw, f)))

NetinIp == \E pkt \in IpPackets :
  /\ nw.netin.op = "read" /\ ~nw.ruined
  /\ ~Excluded(nw, pkt)
  /\ nw' = IF ~IpAccepts(nw, pkt) THEN Freed(NetinNext(nw))
            ELSE IF LocalWaits(nw, pkt) THEN [nw EXCEPT !.netin = NetCall("echo", -1, pkt)]
            ELSE IpLocal(NetinNext(nw), pkt)

NetinOther ==
  /\ nw.netin.op = "read" /\ ~nw.ruined
  /\ nw' = Freed(NetinNext(nw))

NetinEcho ==
  /\ nw.netin.op = "echo" /\ nw.free > 0 /\ ~nw.ruined
  /\ ~Excluded(nw, nw.netin.pkt)
  /\ nw' = Echo(NetinNext(nw), nw.netin.pkt)

IpOutTakes ==
  LET pkt == Head(nw.oq)
      n == [nw EXCEPT !.oq = Tail(@)]
  IN /\ nw.call[IpOut].op = "none" /\ nw.oq # <<>> /\ ~nw.ruined
     /\ "recycle" \in NetHazards \/ ~Recycles(nw)
     /\ "flood" \in NetHazards \/ ~(pkt.dst = Self(nw) /\ Floods(nw, pkt))
     /\ nw' = CASE pkt.dst = Bcast -> Freed(n)
                 [] pkt.dst = Self(n) -> IpLocal(n, pkt)
                 [] OTHER -> IpRoute(n, IpOut, pkt)

NetProcNext(p) ==
  \/ RegisterUdp(p) \/ RecvUdp(p) \/ UdpReturns(p) \/ ReleaseUdp(p) \/ SendUdp(p) \/ SendtoUdp(p)
  \/ RegisterIcmp(p) \/ RecvIcmp(p) \/ IcmpReturns(p) \/ ReleaseIcmp(p) \/ SendIcmp(p)
  \/ GetsBuffer(p) \/ EchoReturns(p)

NetNext ==
  \/ \E p \in NetProc : NetProcNext(p)
  \/ \E p \in NetProc \cup {IpOut} : ArpReturns(p) \/ ArpTimesOut(p) \/ Stray(p)
  \/ AddressKnown
  \/ NetinBuffer \/ NetinArp \/ NetinIp \/ NetinOther \/ NetinEcho
  \/ IpOutTakes

NetSpec == NetInit /\ [][NetNext]_netVars

-----------------------------------------------------------------------------
(* Properties *)

HeldBy(c) == IF c.op \in {"read", "echo", "arp"} THEN 1 ELSE 0
InRing(ring) == Cardinality({i \in DOMAIN ring : ring[i] # NoPacket})

\* Every buffer of the pool is in one place: free, on the queue of an endpoint
\* or of ipout, or with netin or a process that is about to send it; none is
\* lost by a path that drops a packet and none is freed twice.
PacketsAccounted ==
  /\ ~nw.ruined
  /\ NetBufs = nw.free + Len(nw.oq) + HeldBy(nw.netin)
               + SumFunctionOnSet([p \in DOMAIN nw.call |-> HeldBy(nw.call[p])], DOMAIN nw.call)
               + SumFunctionOnSet([s \in UdpSlot |-> Len(nw.udp[s].q)], UdpSlot)
               + SumFunctionOnSet([s \in IcmpSlot |-> InRing(nw.icmp[s].ring)], IcmpSlot)

\* A datagram leaves for the hardware address of its own next hop, whatever else
\* the cache was used for while its sender waited (arp_resolve, arp_in).
FramesReachTheirHop == nw.frame.hw = nw.frame.hop

\* Who waits in recvtime and what it waits for agree: as long as the process has
\* no message, its entry says that it waits and has nothing for it; once it has
\* one, what it waited for is there; and nothing is marked as waited for by nobody.
UdpWaits(p, e) ==
  IF nw.mail[p] = NoMail THEN e.state = "recv" /\ e.pid = p /\ e.q = <<>> ELSE e.q # <<>>
IcmpWaits(p, e) ==
  IF nw.mail[p] = NoMail THEN e.state = "recv" /\ e.pid = p /\ e.count = 0 ELSE e.count > 0
ArpWaits(p, e) ==
  /\ e.addr = nw.call[p].hop
  /\ IF nw.mail[p] = NoMail THEN e.state = "pending" /\ e.pid = p ELSE e.state = "resolved"

WaitersAgree ==
  /\ \A p \in DOMAIN nw.call : LET c == nw.call[p] IN
       CASE c.op = "udp" -> UdpWaits(p, nw.udp[c.slot])
         [] c.op = "icmp" -> IcmpWaits(p, nw.icmp[c.slot])
         [] c.op = "arp" -> ArpWaits(p, nw.arp[c.slot])
         [] OTHER -> TRUE
  /\ \A s \in UdpSlot : nw.udp[s].state = "recv" => nw.call[nw.udp[s].pid].op = "udp"
  /\ \A s \in IcmpSlot : nw.icmp[s].state = "recv" => nw.call[nw.icmp[s].pid].op = "icmp"
  /\ \A s \in ArpSlot : nw.arp[s].state = "pending" => nw.call[nw.arp[s].pid].op = "arp"
==============================================================================
