---------------------------- MODULE NetworkProofs ----------------------------
(***************************************************************************)
(* The network stack: who waits in recvtime and what it waits for agree, a *)
(* datagram leaves for the hardware address of its own next hop, and every *)
(* network buffer is in one place.                                         *)
(*                                                                         *)
(* The handlers are functions of the tables, so that each has a lemma of   *)
(* its own: tables n for which the invariant NetGood holds give tables for *)
(* which it holds.  ARP, UDP and ICMP let a process wait in the same way,  *)
(* so that what waking it, beginning to wait, ending it and reusing a slot *)
(* do is proved once for the three.                                        *)
(***************************************************************************)
EXTENDS Network, CommonProofs

-------------------------------------------------------------------------------
(* What the tables hold *)

Proc == NetProc \cup {IpOut}

Host == {Me, Bcast, Loop, NoAddr, Router} \cup OnNet \cup Dests \cup {e[1] : e \in Endpoints}
        \cup {f.snd : f \in ArpFrames}
        \cup {pkt.src : pkt \in {k \in IpPackets : k.proto \in {"udp", "icmp"}}}
PortNo == {0} \cup {e[2] : e \in Endpoints} \cup {e[3] : e \in Endpoints}
Ident == IcmpSlot \cup {pkt.ident : pkt \in {k \in IpPackets : k.proto = "icmp"}}

Datagrams == [proto : {"udp"}, src : Host, dst : Host, sport : PortNo, dport : PortNo, good : {TRUE}]
Pings == [proto : {"icmp"}, src : Host, dst : Host, type : {"request", "reply"}, ident : Ident,
          good : {TRUE}]
Packet == IpPackets \cup Datagrams \cup Pings \cup {NoPacket}

ArpEntry == [state : {"free", "pending", "resolved"}, addr : Host, hw : Host, pid : Proc \cup {NoPid}]
UdpEntry == [state : {"free", "used", "recv"}, remip : Host, remport : PortNo, locport : PortNo,
             pid : Proc \cup {NoPid}, q : Seq(Packet)]
IcmpEntry == [state : {"free", "used", "recv"}, remip : Host, head : Nat, tail : 0 .. IcmpQsiz - 1,
              count : Int, pid : Proc \cup {NoPid}, ring : [0 .. IcmpQsiz - 1 -> Packet]]
NetCalls == [op : {"none", "udp", "icmp", "arp", "send", "sendto", "ping", "echo", "getbuf", "read"},
             slot : Int, pkt : Packet, hop : Host, tries : Nat]

Net == [arp : [ArpSlot -> ArpEntry], udp : [UdpSlot -> UdpEntry], icmp : [IcmpSlot -> IcmpEntry],
        free : Int, oq : Seq(Packet), valid : BOOLEAN, mail : [Proc -> {NoMail, "ok", "other", "syserr"}],
        call : [Proc -> NetCalls], netin : NetCalls, frame : [hop : Host, hw : Host], ruined : BOOLEAN]

LEMMA NetConst ==
  /\ ArpSiz \in Nat \ {0} /\ UdpSlots \in Nat \ {0} /\ UdpQsiz \in Nat \ {0}
  /\ IcmpSlots \in Nat \ {0} /\ IcmpQsiz \in Nat \ {0} /\ IpOqsiz \in Nat \ {0}
  /\ ArpRetry \in Nat \ {0} /\ NetBufs \in Nat \ {0}
  /\ IpOut \notin NetProc /\ IpOut \in Proc /\ IsFiniteSet(Proc)
  /\ IcmpQsiz <= IcmpSlots
<1>1. IsFiniteSet(Proc)
  BY NetBaseAssumption, FS_AddElement DEF Proc
<1> QED
  BY <1>1, NetBaseAssumption, IcmpAssumption DEF Proc

\* The first of a set of slots.
LEMMA FirstFacts ==
  ASSUME NEW S \in SUBSET Nat
  PROVE  /\ S = {} => First(S) = -1
         /\ S # {} => First(S) \in S /\ Min(S) \in S /\ First(S) # -1
<1>1. CASE S = {}
  BY <1>1 DEF First
<1>2. CASE S # {}
  <2>1. PICK x \in S : \A y \in S : x <= y
    BY <1>2, Least
  <2>2. Min(S) \in S
    BY <2>1 DEF Min
  <2> QED
    BY <1>2, <2>2 DEF First
<1> QED
  BY <1>1, <1>2

\* The parts of the tables.
LEMMA NetParts ==
  ASSUME NEW n \in Net
  PROVE  /\ n.arp \in [ArpSlot -> ArpEntry] /\ n.udp \in [UdpSlot -> UdpEntry]
         /\ n.icmp \in [IcmpSlot -> IcmpEntry] /\ n.free \in Int /\ n.oq \in Seq(Packet)
         /\ n.valid \in BOOLEAN /\ n.mail \in [Proc -> {NoMail, "ok", "other", "syserr"}]
         /\ n.call \in [Proc -> NetCalls] /\ n.netin \in NetCalls
         /\ n.frame \in [hop : Host, hw : Host] /\ n.ruined \in BOOLEAN
         /\ DOMAIN n.call = Proc /\ DOMAIN n.mail = Proc
  BY DEF Net

LEMMA Members ==
  /\ {Me, Bcast, Loop, NoAddr, Router} \subseteq Host /\ Dests \subseteq Host /\ OnNet \subseteq Host
  /\ \A f \in ArpFrames : f.snd \in Host
  /\ \A e \in Endpoints : e[1] \in Host /\ e[2] \in PortNo /\ e[3] \in PortNo
  /\ 0 \in PortNo /\ IcmpSlot \subseteq Ident
  /\ \A pkt \in IpPackets : pkt.proto \in {"udp", "icmp"} => pkt.src \in Host
  /\ \A pkt \in IpPackets : pkt.proto = "icmp" => pkt.ident \in Ident
  /\ NoPacket \in Packet /\ IpPackets \subseteq Packet /\ Datagrams \subseteq Packet /\ Pings \subseteq Packet
  /\ \A pkt \in Datagrams \cup Pings : pkt.src \in Host /\ pkt.dst \in Host
  /\ \A pkt \in Pings : pkt.ident \in Ident
<1>1. /\ \A pkt \in IpPackets : pkt.proto \in {"udp", "icmp"} => pkt.src \in Host
      /\ \A pkt \in IpPackets : pkt.proto = "icmp" => pkt.ident \in Ident
  BY DEF Host, Ident
<1>2. /\ NoPacket \in Packet /\ IpPackets \subseteq Packet /\ Datagrams \subseteq Packet /\ Pings \subseteq Packet
      /\ 0 \in PortNo /\ IcmpSlot \subseteq Ident
  BY DEF Packet, PortNo, Ident
<1>3. \A pkt \in Datagrams \cup Pings : pkt.src \in Host /\ pkt.dst \in Host
  BY DEF Datagrams, Pings
<1>4. \A pkt \in Pings : pkt.ident \in Ident
  BY DEF Pings
<1>5. \A e \in Endpoints : e[1] \in Host /\ e[2] \in PortNo /\ e[3] \in PortNo
  BY DEF Host, PortNo
<1>6. {Me, Bcast, Loop, NoAddr, Router} \subseteq Host /\ Dests \subseteq Host /\ OnNet \subseteq Host
  BY DEF Host
<1>7. \A f \in ArpFrames : f.snd \in Host
  BY DEF Host
<1> QED
  BY <1>1, <1>2, <1>3, <1>4, <1>5, <1>6, <1>7

-------------------------------------------------------------------------------
(* What the handlers of one table change *)

AllBut(F, n, m) ==
  /\ "arp" \in F \/ m.arp = n.arp
  /\ "udp" \in F \/ m.udp = n.udp
  /\ "icmp" \in F \/ m.icmp = n.icmp
  /\ "free" \in F \/ m.free = n.free
  /\ "oq" \in F \/ m.oq = n.oq
  /\ "valid" \in F \/ m.valid = n.valid
  /\ "mail" \in F \/ m.mail = n.mail
  /\ "call" \in F \/ m.call = n.call
  /\ "netin" \in F \/ m.netin = n.netin
  /\ "frame" \in F \/ m.frame = n.frame
  /\ "ruined" \in F \/ m.ruined = n.ruined

\* One part is replaced.
LEMMA PartFacts ==
  ASSUME NEW n \in Net
  PROVE  /\ \A v \in Int : /\ [n EXCEPT !.free = v] \in Net /\ AllBut({"free"}, n, [n EXCEPT !.free = v])
                           /\ [n EXCEPT !.free = v].free = v
         /\ \A v \in [Proc -> {NoMail, "ok", "other", "syserr"}] :
              /\ [n EXCEPT !.mail = v] \in Net /\ AllBut({"mail"}, n, [n EXCEPT !.mail = v])
              /\ [n EXCEPT !.mail = v].mail = v
         /\ \A v \in [Proc -> NetCalls] :
              /\ [n EXCEPT !.call = v] \in Net /\ AllBut({"call"}, n, [n EXCEPT !.call = v])
              /\ [n EXCEPT !.call = v].call = v
         /\ \A v \in NetCalls : /\ [n EXCEPT !.netin = v] \in Net /\ AllBut({"netin"}, n, [n EXCEPT !.netin = v])
                                /\ [n EXCEPT !.netin = v].netin = v
         /\ \A v \in Seq(Packet) : /\ [n EXCEPT !.oq = v] \in Net /\ AllBut({"oq"}, n, [n EXCEPT !.oq = v])
                                   /\ [n EXCEPT !.oq = v].oq = v
         /\ \A v \in [hop : Host, hw : Host] :
              /\ [n EXCEPT !.frame = v] \in Net /\ AllBut({"frame"}, n, [n EXCEPT !.frame = v])
              /\ [n EXCEPT !.frame = v].frame = v
         /\ \A v \in BOOLEAN : /\ [n EXCEPT !.ruined = v] \in Net /\ AllBut({"ruined"}, n, [n EXCEPT !.ruined = v])
                               /\ [n EXCEPT !.ruined = v].ruined = v
                               /\ [n EXCEPT !.valid = v] \in Net /\ AllBut({"valid"}, n, [n EXCEPT !.valid = v])
                               /\ [n EXCEPT !.valid = v].valid = v
  BY DEF Net, AllBut

\* Freed, Taken, Sent and Cleared; the call of a process.
LEMMA BufferFacts ==
  ASSUME NEW n \in Net
  PROVE  /\ Freed(n) \in Net /\ AllBut({"free"}, n, Freed(n)) /\ Freed(n).free = n.free + 1
         /\ Taken(n) \in Net /\ AllBut({"free"}, n, Taken(n)) /\ Taken(n).free = n.free - 1
<1>1. n.free + 1 \in Int /\ n.free - 1 \in Int
  BY NetParts
<1>2. Freed(n) = [n EXCEPT !.free = n.free + 1] /\ Taken(n) = [n EXCEPT !.free = n.free - 1]
  BY DEF Freed, Taken
<1> QED
  BY <1>1, <1>2, PartFacts

LEMMA MailFacts ==
  ASSUME NEW n \in Net
  PROVE  /\ \A p \in Proc \cup {NoPid} : \A msg \in {"ok", "other", "syserr"} :
              /\ Sent(n, p, msg) \in Net /\ AllBut({"mail"}, n, Sent(n, p, msg))
              /\ \A q \in Proc : Sent(n, p, msg).mail[q] = IF q = p /\ n.mail[p] = NoMail THEN msg ELSE n.mail[q]
         /\ \A p \in Proc : /\ Cleared(n, p) \in Net /\ AllBut({"mail"}, n, Cleared(n, p))
                            /\ Cleared(n, p).mail = [n.mail EXCEPT ![p] = NoMail]
<1>1. n.mail \in [Proc -> {NoMail, "ok", "other", "syserr"}]
  BY NetParts
<1>2. ASSUME NEW p \in Proc \cup {NoPid}, NEW msg \in {"ok", "other", "syserr"}
      PROVE  /\ Sent(n, p, msg) \in Net /\ AllBut({"mail"}, n, Sent(n, p, msg))
             /\ \A q \in Proc : Sent(n, p, msg).mail[q] = IF q = p /\ n.mail[p] = NoMail THEN msg ELSE n.mail[q]
  <2>1. CASE p \in Proc /\ n.mail[p] = NoMail
    <3> DEFINE v == [n.mail EXCEPT ![p] = msg]
    <3>1. Sent(n, p, msg) = [n EXCEPT !.mail = v]
      BY <1>1, <2>1 DEF Sent
    <3>2. v \in [Proc -> {NoMail, "ok", "other", "syserr"}]
      BY <1>1
    <3>3. \A q \in Proc : v[q] = IF q = p /\ n.mail[p] = NoMail THEN msg ELSE n.mail[q]
      BY <1>1, <2>1
    <3> HIDE DEF v
    <3> QED
      BY <3>1, <3>2, <3>3, PartFacts
  <2>2. CASE ~(p \in Proc /\ n.mail[p] = NoMail)
    <3>1. Sent(n, p, msg) = n
      BY <1>1, <2>2 DEF Sent
    <3> QED
      BY <1>1, <2>2, <3>1 DEF AllBut
  <2> QED
    BY <2>1, <2>2
<1>3. ASSUME NEW p \in Proc
      PROVE  /\ Cleared(n, p) \in Net /\ AllBut({"mail"}, n, Cleared(n, p))
             /\ Cleared(n, p).mail = [n.mail EXCEPT ![p] = NoMail]
  <2> DEFINE v == [n.mail EXCEPT ![p] = NoMail]
  <2>1. v \in [Proc -> {NoMail, "ok", "other", "syserr"}]
    BY <1>1
  <2>2. Cleared(n, p) = [n EXCEPT !.mail = v]
    BY DEF Cleared
  <2> HIDE DEF v
  <2>3. Cleared(n, p) \in Net /\ AllBut({"mail"}, n, Cleared(n, p)) /\ Cleared(n, p).mail = v
    BY <2>1, <2>2, PartFacts
  <2> QED
    BY <2>3 DEF v
<1> QED
  BY <1>2, <1>3

LEMMA CallFacts ==
  ASSUME NEW n \in Net, NEW p \in Proc, NEW c \in NetCalls
  PROVE  /\ NetIdle \in NetCalls
         /\ Ended(n, p) \in Net /\ AllBut({"call"}, n, Ended(n, p))
         /\ Ended(n, p).call[p] = NetIdle /\ \A q \in Proc \ {p} : Ended(n, p).call[q] = n.call[q]
         /\ Waiting(n, p, c) \in Net /\ AllBut({"call"}, n, Waiting(n, p, c))
         /\ Waiting(n, p, c).call[p] = c /\ \A q \in Proc \ {p} : Waiting(n, p, c).call[q] = n.call[q]
<1>1. NetIdle \in NetCalls
  BY Members DEF NetIdle, NetCalls
<1>2. n.call \in [Proc -> NetCalls]
  BY NetParts
<1>3. ASSUME NEW d \in NetCalls
      PROVE  LET m == [n EXCEPT !.call = [n.call EXCEPT ![p] = d]] IN
             /\ m \in Net /\ AllBut({"call"}, n, m)
             /\ m.call[p] = d /\ \A q \in Proc \ {p} : m.call[q] = n.call[q]
  <2> DEFINE v == [n.call EXCEPT ![p] = d]
             m == [n EXCEPT !.call = v]
  <2>1. v \in [Proc -> NetCalls] /\ v[p] = d /\ \A q \in Proc \ {p} : v[q] = n.call[q]
    BY <1>2
  <2> HIDE DEF v
  <2>2. m \in Net /\ AllBut({"call"}, n, m) /\ m.call = v
    BY <2>1, PartFacts
  <2> HIDE DEF m
  <2>3. /\ m \in Net /\ AllBut({"call"}, n, m)
        /\ m.call[p] = d /\ \A q \in Proc \ {p} : m.call[q] = n.call[q]
    BY <2>1, <2>2
  <2> QED
    BY <2>3 DEF m, v
<1>4. /\ Ended(n, p) \in Net /\ AllBut({"call"}, n, Ended(n, p))
      /\ Ended(n, p).call[p] = NetIdle /\ \A q \in Proc \ {p} : Ended(n, p).call[q] = n.call[q]
  <2>1. Ended(n, p) = [n EXCEPT !.call = [n.call EXCEPT ![p] = NetIdle]]
    BY DEF Ended
  <2> HIDE DEF Ended
  <2> DEFINE m == [n EXCEPT !.call = [n.call EXCEPT ![p] = NetIdle]]
  <2>2. /\ m \in Net /\ AllBut({"call"}, n, m)
        /\ m.call[p] = NetIdle /\ \A q \in Proc \ {p} : m.call[q] = n.call[q]
    BY <1>1, <1>3
  <2>3. Ended(n, p) = m
    BY <2>1
  <2> HIDE DEF m
  <2> QED
    BY <2>2, <2>3
<1>5. /\ Waiting(n, p, c) \in Net /\ AllBut({"call"}, n, Waiting(n, p, c))
      /\ Waiting(n, p, c).call[p] = c /\ \A q \in Proc \ {p} : Waiting(n, p, c).call[q] = n.call[q]
  <2> DEFINE m == [n EXCEPT !.call = [n.call EXCEPT ![p] = c]]
  <2>2. /\ m \in Net /\ AllBut({"call"}, n, m)
        /\ m.call[p] = c /\ \A q \in Proc \ {p} : m.call[q] = n.call[q]
    BY <1>3
  <2>3. Waiting(n, p, c) = m
    BY DEF Waiting
  <2> HIDE DEF m
  <2> QED
    BY <2>2, <2>3
<1> QED
  BY <1>1, <1>4, <1>5

\* One entry of a table is replaced.
SetUdp(n, s, e) == [n EXCEPT !.udp = [n.udp EXCEPT ![s] = e]]
SetIcmp(n, s, e) == [n EXCEPT !.icmp = [n.icmp EXCEPT ![s] = e]]
SetArp(n, s, e) == [n EXCEPT !.arp = [n.arp EXCEPT ![s] = e]]

LEMMA SetFacts ==
  ASSUME NEW n \in Net
  PROVE  /\ \A s \in UdpSlot : \A e \in UdpEntry :
              /\ SetUdp(n, s, e) \in Net /\ AllBut({"udp"}, n, SetUdp(n, s, e))
              /\ SetUdp(n, s, e).udp[s] = e /\ \A r \in UdpSlot \ {s} : SetUdp(n, s, e).udp[r] = n.udp[r]
         /\ \A s \in IcmpSlot : \A e \in IcmpEntry :
              /\ SetIcmp(n, s, e) \in Net /\ AllBut({"icmp"}, n, SetIcmp(n, s, e))
              /\ SetIcmp(n, s, e).icmp[s] = e /\ \A r \in IcmpSlot \ {s} : SetIcmp(n, s, e).icmp[r] = n.icmp[r]
         /\ \A s \in ArpSlot : \A e \in ArpEntry :
              /\ SetArp(n, s, e) \in Net /\ AllBut({"arp"}, n, SetArp(n, s, e))
              /\ SetArp(n, s, e).arp[s] = e /\ \A r \in ArpSlot \ {s} : SetArp(n, s, e).arp[r] = n.arp[r]
<1>1. ASSUME NEW s \in UdpSlot, NEW e \in UdpEntry
      PROVE  /\ SetUdp(n, s, e) \in Net /\ AllBut({"udp"}, n, SetUdp(n, s, e))
             /\ SetUdp(n, s, e).udp[s] = e /\ \A r \in UdpSlot \ {s} : SetUdp(n, s, e).udp[r] = n.udp[r]
  <2>1. n.udp \in [UdpSlot -> UdpEntry]
    BY NetParts
  <2>2. [n.udp EXCEPT ![s] = e] \in [UdpSlot -> UdpEntry]
    BY <2>1
  <2> QED
    BY <2>1, <2>2 DEF SetUdp, Net, AllBut
<1>2. ASSUME NEW s \in IcmpSlot, NEW e \in IcmpEntry
      PROVE  /\ SetIcmp(n, s, e) \in Net /\ AllBut({"icmp"}, n, SetIcmp(n, s, e))
             /\ SetIcmp(n, s, e).icmp[s] = e /\ \A r \in IcmpSlot \ {s} : SetIcmp(n, s, e).icmp[r] = n.icmp[r]
  <2>1. n.icmp \in [IcmpSlot -> IcmpEntry]
    BY NetParts
  <2>2. [n.icmp EXCEPT ![s] = e] \in [IcmpSlot -> IcmpEntry]
    BY <2>1
  <2> QED
    BY <2>1, <2>2 DEF SetIcmp, Net, AllBut
<1>3. ASSUME NEW s \in ArpSlot, NEW e \in ArpEntry
      PROVE  /\ SetArp(n, s, e) \in Net /\ AllBut({"arp"}, n, SetArp(n, s, e))
             /\ SetArp(n, s, e).arp[s] = e /\ \A r \in ArpSlot \ {s} : SetArp(n, s, e).arp[r] = n.arp[r]
  <2>1. n.arp \in [ArpSlot -> ArpEntry]
    BY NetParts
  <2>2. [n.arp EXCEPT ![s] = e] \in [ArpSlot -> ArpEntry]
    BY <2>1
  <2> QED
    BY <2>1, <2>2 DEF SetArp, Net, AllBut
<1> QED
  BY <1>1, <1>2, <1>3

\* The fields of an entry.
LEMMA UdpParts ==
  ASSUME NEW n \in Net, NEW s \in UdpSlot
  PROVE  LET e == n.udp[s] IN
         /\ e \in UdpEntry /\ e.pid \in Proc \cup {NoPid} /\ e.q \in Seq(Packet) /\ Len(e.q) \in Nat
         /\ e.state \in {"free", "used", "recv"} /\ e.remip \in Host
         /\ e.locport \in PortNo /\ e.remport \in PortNo
<1> DEFINE e == n.udp[s]
<1>1. e \in UdpEntry
  BY NetParts
<1> HIDE DEF e
<1> QED
  BY <1>1 DEF UdpEntry, e

LEMMA ArpParts ==
  ASSUME NEW n \in Net, NEW s \in ArpSlot
  PROVE  LET e == n.arp[s] IN
         /\ e \in ArpEntry /\ e.pid \in Proc \cup {NoPid} /\ e.addr \in Host /\ e.hw \in Host
         /\ e.state \in {"free", "pending", "resolved"}
<1> DEFINE e == n.arp[s]
<1>1. e \in ArpEntry
  BY NetParts
<1> HIDE DEF e
<1> QED
  BY <1>1 DEF ArpEntry, e

LEMMA IcmpParts ==
  ASSUME NEW n \in Net, NEW s \in IcmpSlot
  PROVE  LET e == n.icmp[s] IN
         /\ e \in IcmpEntry /\ e.pid \in Proc \cup {NoPid} /\ e.count \in Int
         /\ e.state \in {"free", "used", "recv"} /\ e.remip \in Host
         /\ e.head \in Nat /\ e.tail \in 0 .. IcmpQsiz - 1 /\ e.ring \in [0 .. IcmpQsiz - 1 -> Packet]
<1> DEFINE e == n.icmp[s]
<1>1. e \in IcmpEntry
  BY NetParts
<1> HIDE DEF e
<1> QED
  BY <1>1 DEF IcmpEntry, e

\* udp_in
LEMMA UdpInFacts ==
  ASSUME NEW n \in Net, NEW pkt \in Packet
  PROVE  LET s == Min(UdpTakers(n, pkt)) m == UdpIn(n, pkt) e == n.udp[s] IN
         /\ UdpTakers(n, pkt) = {} => m = Freed(n)
         /\ UdpTakers(n, pkt) # {} =>
              /\ m \in Net /\ AllBut({"udp", "mail"}, n, m)
              /\ s \in UdpSlot /\ e.state # "free"
              /\ m.udp[s] = [e EXCEPT !.q = Append(e.q, pkt), !.state = "used"]
              /\ m.udp[s].state = "used" /\ m.udp[s].q = Append(e.q, pkt)
              /\ \A r \in UdpSlot \ {s} : m.udp[r] = n.udp[r]
              /\ \A q \in Proc : m.mail[q] = IF e.state = "recv" /\ q = e.pid /\ n.mail[q] = NoMail
                                             THEN "ok" ELSE n.mail[q]
<1>1. CASE UdpTakers(n, pkt) = {}
  BY <1>1 DEF UdpIn
<1>2. CASE UdpTakers(n, pkt) # {}
  <2> DEFINE s == Min(UdpTakers(n, pkt))
             e == n.udp[s]
             a == IF e.state = "recv" THEN Sent(n, e.pid, "ok") ELSE n
             g == [e EXCEPT !.q = Append(e.q, pkt), !.state = "used"]
             m == UdpIn(n, pkt)
  <2>1. UdpTakers(n, pkt) \in SUBSET Nat
    BY NetConst DEF UdpTakers, UdpSlot
  <2>2. s \in UdpTakers(n, pkt)
    BY <1>2, <2>1, FirstFacts
  <2>3. s \in UdpSlot /\ e.state # "free"
    BY <2>2 DEF UdpTakers, UdpMatches
  <2>4. m = SetUdp(a, s, g)
    <3>1. a.udp = n.udp
      BY DEF Sent
    <3> HIDE DEF a, s, e
    <3> QED
      BY <1>2, <3>1 DEF UdpIn, SetUdp, a, s, e
  <2> HIDE DEF s
  <2>5. e \in UdpEntry /\ e.pid \in Proc \cup {NoPid} /\ e.q \in Seq(Packet)
    BY <2>3, UdpParts
  <2> HIDE DEF e
  <2>6. /\ a \in Net /\ AllBut({"mail"}, n, a)
        /\ \A q \in Proc : a.mail[q] = IF e.state = "recv" /\ q = e.pid /\ n.mail[q] = NoMail THEN "ok" ELSE n.mail[q]
    <3>1. CASE e.state = "recv"
      <4>1. a = Sent(n, e.pid, "ok")
        BY <3>1
      <4> HIDE DEF a
      <4> DEFINE b == Sent(n, e.pid, "ok")
      <4>2. /\ b \in Net /\ AllBut({"mail"}, n, b)
            /\ \A q \in Proc : b.mail[q] = IF q = e.pid /\ n.mail[e.pid] = NoMail THEN "ok" ELSE n.mail[q]
        BY <2>5, MailFacts
      <4> HIDE DEF b
      <4> QED
        BY <3>1, <4>1, <4>2 DEF b
    <3>2. CASE e.state # "recv"
      BY <3>2 DEF AllBut
    <3> QED
      BY <3>1, <3>2
  <2>7. g \in UdpEntry /\ g.state = "used" /\ g.q = Append(e.q, pkt)
    <3> DEFINE v == Append(e.q, pkt)
    <3>1. v \in Seq(Packet)
      BY <2>5
    <3> HIDE DEF v
    <3> QED
      BY <2>5, <3>1 DEF UdpEntry, v
  <2> HIDE DEF a, g, m
  <2>8. /\ m \in Net /\ AllBut({"udp"}, a, m) /\ m.udp[s] = g
        /\ \A r \in UdpSlot \ {s} : m.udp[r] = a.udp[r]
    BY <2>3, <2>4, <2>6, <2>7, SetFacts
  <2>9. AllBut({"udp", "mail"}, n, m) /\ a.udp = n.udp /\ m.mail = a.mail
    BY <2>6, <2>8 DEF AllBut
  <2> QED
    BY <1>2, <2>3, <2>6, <2>7, <2>8, <2>9 DEF s, m, e, g
<1> QED
  BY <1>1, <1>2

\* udp_register: nothing changes, or a free entry is taken.
LEMMA UdpRegisterFacts ==
  ASSUME NEW n \in Net, NEW remip \in Host, NEW remport \in PortNo, NEW locport \in PortNo
  PROVE  LET m == UdpRegister(n, remip, remport, locport) IN
         m = n \/ \E s \in UdpSlot :
           /\ m \in Net /\ AllBut({"udp"}, n, m)
           /\ n.udp[s].state = "free" /\ m.udp[s].state = "used" /\ m.udp[s].q = <<>>
           /\ \A r \in UdpSlot \ {s} : m.udp[r] = n.udp[r]
<1> DEFINE m == UdpRegister(n, remip, remport, locport)
           free == {s \in UdpSlot : n.udp[s].state = "free"}
           g == [UdpFree EXCEPT !.state = "used", !.remip = remip, !.remport = remport, !.locport = locport]
<1>1. CASE UdpRegistered(n, remip, remport, locport) \/ free = {}
  BY <1>1 DEF UdpRegister
<1>2. CASE ~(UdpRegistered(n, remip, remport, locport) \/ free = {})
  <2>1. m = SetUdp(n, Min(free), g)
    BY <1>2 DEF UdpRegister, SetUdp
  <2>2. free \in SUBSET Nat
    BY NetConst DEF UdpSlot
  <2>3. Min(free) \in free
    <3> HIDE DEF free
    <3> QED
      BY <1>2, <2>2, FirstFacts
  <2>4. g \in UdpEntry /\ g.state = "used" /\ g.q = <<>>
    <3> DEFINE v == <<>>
    <3>1. v \in Seq(Packet)
      OBVIOUS
    <3>2. UdpFree = [state |-> "free", remip |-> NoAddr, remport |-> 0, locport |-> 0, pid |-> NoPid,
                     q |-> v]
      BY DEF UdpFree
    <3> HIDE DEF v
    <3>3. UdpFree \in UdpEntry /\ UdpFree.q = v
      BY <3>1, <3>2, Members DEF UdpEntry
    <3>4. g \in UdpEntry /\ g.state = "used" /\ g.q = v
      BY <3>3 DEF UdpEntry
    <3> QED
      BY <3>4 DEF v
  <2> DEFINE s == Min(free)
  <2>5. s \in UdpSlot /\ n.udp[s].state = "free"
    BY <2>3
  <2> HIDE DEF s, g, m, free
  <2>6. /\ m \in Net /\ AllBut({"udp"}, n, m) /\ m.udp[s] = g
        /\ \A r \in UdpSlot \ {s} : m.udp[r] = n.udp[r]
    BY <2>1, <2>4, <2>5, SetFacts DEF s
  <2> QED
    BY <2>4, <2>5, <2>6 DEF m
<1> QED
  BY <1>1, <1>2

\* udp_recv, when it begins to wait.
LEMMA UdpAwaitFacts ==
  ASSUME NEW n \in Net, NEW p \in Proc, NEW s \in UdpSlot
  PROVE  LET m == UdpAwait(n, p, s) IN
         /\ m \in Net /\ AllBut({"udp", "mail"}, n, m)
         /\ m.udp[s].state = "recv" /\ m.udp[s].pid = p /\ m.udp[s].q = n.udp[s].q
         /\ \A r \in UdpSlot \ {s} : m.udp[r] = n.udp[r]
         /\ m.mail[p] = NoMail /\ \A q \in Proc \ {p} : m.mail[q] = n.mail[q]
<1> DEFINE a == Cleared(n, p)
           e == n.udp[s]
           g == [e EXCEPT !.state = "recv", !.pid = p]
           m == UdpAwait(n, p, s)
<1>1. m = SetUdp(a, s, g)
  <2>1. a.udp = n.udp
    BY DEF Cleared
  <2> HIDE DEF a
  <2> QED
    BY <2>1 DEF UdpAwait, SetUdp, a
<1>2. e \in UdpEntry
  BY UdpParts
<1>3. /\ a \in Net /\ AllBut({"mail"}, n, a) /\ n.mail \in [Proc -> {NoMail, "ok", "other", "syserr"}]
      /\ a.mail = [n.mail EXCEPT ![p] = NoMail]
  BY MailFacts, NetParts
<1> HIDE DEF e, a
<1>4. g \in UdpEntry /\ g.state = "recv" /\ g.pid = p /\ g.q = e.q
  BY <1>2 DEF UdpEntry
<1> HIDE DEF g, m
<1>5. /\ m \in Net /\ AllBut({"udp"}, a, m) /\ m.udp[s] = g
      /\ \A r \in UdpSlot \ {s} : m.udp[r] = a.udp[r]
  BY <1>1, <1>3, <1>4, SetFacts
<1>6. AllBut({"udp", "mail"}, n, m) /\ a.udp = n.udp /\ m.mail = a.mail
  BY <1>3, <1>5 DEF AllBut
<1>7. m.mail[p] = NoMail /\ \A q \in Proc \ {p} : m.mail[q] = n.mail[q]
  BY <1>3, <1>6
<1> QED
  BY <1>4, <1>5, <1>6, <1>7 DEF m, e

\* udp_recv, when it takes a packet away.
LEMMA UdpTakeFacts ==
  ASSUME NEW n \in Net, NEW s \in UdpSlot
  PROVE  LET m == UdpTake(n, s) IN
         /\ m \in Net /\ AllBut({"udp", "free", "ruined"}, n, m)
         /\ m.udp[s].state = n.udp[s].state /\ m.udp[s].pid = n.udp[s].pid
         /\ \A r \in UdpSlot \ {s} : m.udp[r] = n.udp[r]
         /\ n.udp[s].q # <<>> => /\ m.ruined = n.ruined /\ m.free = n.free + 1
                                 /\ Len(m.udp[s].q) = Len(n.udp[s].q) - 1
<1> DEFINE m == UdpTake(n, s)
           e == n.udp[s]
           v == Tail(e.q)
           g == [e EXCEPT !.q = v]
           a == SetUdp(n, s, g)
<1>1. CASE e.q = <<>>
  <2>1. m = [n EXCEPT !.ruined = TRUE]
    BY <1>1 DEF UdpTake
  <2> HIDE DEF m, e
  <2>2. m \in Net /\ AllBut({"ruined"}, n, m)
    BY <2>1, PartFacts
  <2> QED
    BY <1>1, <2>2 DEF AllBut, m, e
<1>2. CASE e.q # <<>>
  <2>1. m = Freed([n EXCEPT !.udp[s].q = Tail(@)])
    BY <1>2 DEF UdpTake
  <2>2. m = Freed(a)
    BY <2>1 DEF SetUdp
  <2>3. e \in UdpEntry /\ e.q \in Seq(Packet)
    BY UdpParts
  <2> HIDE DEF e
  <2>4. v \in Seq(Packet) /\ Len(v) = Len(e.q) - 1
    BY <1>2, <2>3
  <2> HIDE DEF v
  <2>5. g \in UdpEntry /\ g.state = e.state /\ g.pid = e.pid /\ g.q = v
    BY <2>3, <2>4 DEF UdpEntry
  <2> HIDE DEF g
  <2>6. /\ a \in Net /\ AllBut({"udp"}, n, a) /\ a.udp[s] = g
        /\ \A r \in UdpSlot \ {s} : a.udp[r] = n.udp[r]
    BY <2>5, SetFacts
  <2> HIDE DEF a, m
  <2>7. m \in Net /\ AllBut({"free"}, a, m) /\ m.free = a.free + 1
    BY <2>2, <2>6, BufferFacts
  <2>8. AllBut({"udp", "free", "ruined"}, n, m) /\ m.udp = a.udp /\ m.ruined = n.ruined /\ a.free = n.free
    BY <2>6, <2>7 DEF AllBut
  <2> QED
    BY <2>4, <2>5, <2>6, <2>7, <2>8 DEF m, e
<1> QED
  BY <1>1, <1>2

\* udp_recv, when it wakes up.
LEMMA UdpWokenFacts ==
  ASSUME NEW n \in Net, NEW p \in Proc, NEW s \in UdpSlot
  PROVE  LET m == UdpWoken(n, p, s) IN
         /\ m \in Net /\ AllBut({"udp", "mail", "free", "ruined"}, n, m)
         /\ m.udp[s].state = "used"
         /\ \A r \in UdpSlot \ {s} : m.udp[r] = n.udp[r]
         /\ \A q \in Proc \ {p} : m.mail[q] = n.mail[q]
         /\ n.mail[p] # "ok" => m.ruined = n.ruined /\ m.free = n.free /\ m.udp[s].q = n.udp[s].q
         /\ n.mail[p] = "ok" /\ n.udp[s].q # <<>> =>
              /\ m.ruined = n.ruined /\ m.free = n.free + 1 /\ Len(m.udp[s].q) = Len(n.udp[s].q) - 1
<1> DEFINE a == Cleared(n, p)
           e == n.udp[s]
           g == [e EXCEPT !.state = "used"]
           b == SetUdp(a, s, g)
           m == UdpWoken(n, p, s)
<1>1. m = IF n.mail[p] = "ok" THEN UdpTake(b, s) ELSE b
  <2>1. a.udp = n.udp
    BY DEF Cleared
  <2>2. b = [Cleared(n, p) EXCEPT !.udp[s].state = "used"]
    BY <2>1 DEF SetUdp
  <2> HIDE DEF b
  <2> QED
    BY <2>2 DEF UdpWoken
<1>2. e \in UdpEntry
  BY UdpParts
<1>3. /\ a \in Net /\ AllBut({"mail"}, n, a) /\ n.mail \in [Proc -> {NoMail, "ok", "other", "syserr"}]
      /\ a.mail = [n.mail EXCEPT ![p] = NoMail]
  BY MailFacts, NetParts
<1> HIDE DEF e, a
<1>4. g \in UdpEntry /\ g.state = "used" /\ g.q = e.q
  BY <1>2 DEF UdpEntry
<1> HIDE DEF g, m
<1>5. /\ b \in Net /\ AllBut({"udp"}, a, b) /\ b.udp[s] = g
      /\ \A r \in UdpSlot \ {s} : b.udp[r] = a.udp[r]
  BY <1>3, <1>4, SetFacts
<1> HIDE DEF b
<1>6. /\ AllBut({"udp", "mail"}, n, b) /\ a.udp = n.udp /\ b.mail = a.mail
      /\ b.free = n.free /\ b.ruined = n.ruined
  BY <1>3, <1>5 DEF AllBut
<1>7. \A q \in Proc \ {p} : b.mail[q] = n.mail[q]
  BY <1>3, <1>6
<1>8. CASE n.mail[p] = "ok"
  <2>1. m = UdpTake(b, s)
    BY <1>1, <1>8
  <2>2. /\ m \in Net /\ AllBut({"udp", "free", "ruined"}, b, m)
        /\ m.udp[s].state = b.udp[s].state
        /\ \A r \in UdpSlot \ {s} : m.udp[r] = b.udp[r]
        /\ b.udp[s].q # <<>> => /\ m.ruined = b.ruined /\ m.free = b.free + 1
                                /\ Len(m.udp[s].q) = Len(b.udp[s].q) - 1
    BY <1>5, <2>1, UdpTakeFacts
  <2>3. AllBut({"udp", "mail", "free", "ruined"}, n, m) /\ m.mail = b.mail
    BY <1>6, <2>2 DEF AllBut
  <2> QED
    BY <1>4, <1>5, <1>6, <1>7, <1>8, <2>2, <2>3 DEF m, e
<1>9. CASE n.mail[p] # "ok"
  <2>1. m = b
    BY <1>1, <1>9
  <2>2. AllBut({"udp", "mail", "free", "ruined"}, n, m)
    BY <1>6, <2>1 DEF AllBut
  <2> QED
    BY <1>4, <1>5, <1>6, <1>7, <1>9, <2>1, <2>2 DEF m, e
<1> QED
  BY <1>8, <1>9

\* udp_release
LEMMA UdpReleaseFacts ==
  ASSUME NEW n \in Net, NEW s \in UdpSlot
  PROVE  LET m == UdpRelease(n, s) IN
         m = n \/
           /\ m \in Net /\ AllBut({"udp", "free"}, n, m)
           /\ m.udp[s].state = "free" /\ m.udp[s].q = <<>>
           /\ \A r \in UdpSlot \ {s} : m.udp[r] = n.udp[r]
           /\ m.free = n.free + Len(n.udp[s].q)
<1> DEFINE m == UdpRelease(n, s)
           e == n.udp[s]
           g == [e EXCEPT !.q = <<>>, !.state = "free"]
           a == SetUdp(n, s, g)
           f == n.free + Len(e.q)
<1>1. CASE e.state = "free"
  BY <1>1 DEF UdpRelease
<1>2. CASE e.state # "free"
  <2>1. m = [a EXCEPT !.free = f]
    <3>1. a.free = n.free
      BY DEF SetUdp
    <3>2. m = [n EXCEPT !.udp[s] = g, !.free = f]
      BY <1>2 DEF UdpRelease
    <3> QED
      BY <3>1, <3>2 DEF SetUdp
  <2>2. e \in UdpEntry /\ Len(e.q) \in Nat
    BY UdpParts
  <2>3. f \in Int
    BY <2>2, NetParts
  <2> HIDE DEF e
  <2>4. g \in UdpEntry /\ g.state = "free" /\ g.q = <<>>
    <3> DEFINE v == <<>>
    <3>1. v \in Seq(Packet)
      OBVIOUS
    <3>2. g = [e EXCEPT !.q = v, !.state = "free"]
      OBVIOUS
    <3> HIDE DEF v, g
    <3>3. g \in UdpEntry /\ g.state = "free" /\ g.q = v
      BY <2>2, <3>1, <3>2 DEF UdpEntry
    <3> QED
      BY <3>3 DEF v
  <2> HIDE DEF g
  <2>5. /\ a \in Net /\ AllBut({"udp"}, n, a) /\ a.udp[s] = g
        /\ \A r \in UdpSlot \ {s} : a.udp[r] = n.udp[r]
    BY <2>4, SetFacts
  <2> HIDE DEF a, f, m
  <2>6. m \in Net /\ AllBut({"free"}, a, m) /\ m.free = f
    BY <2>1, <2>3, <2>5, PartFacts
  <2>7. AllBut({"udp", "free"}, n, m) /\ m.udp = a.udp
    BY <2>5, <2>6 DEF AllBut
  <2> QED
    BY <2>4, <2>5, <2>6, <2>7 DEF m, f, e
<1> QED
  BY <1>1, <1>2

-------------------------------------------------------------------------------
(* The ring of an ICMP slot *)

RingFits(e) == e.count \in Nat /\ InRing(e.ring) <= e.count

\* The places that c packets take from place h on.
Places(h, c) == {(h + i) % IcmpQsiz : i \in 0 .. c - 1}
RingSound(e) ==
  /\ e.count \in 0 .. IcmpQsiz /\ e.head \in 0 .. IcmpQsiz
  /\ e.tail = (e.head + e.count) % IcmpQsiz
  /\ \A i \in 0 .. IcmpQsiz - 1 : e.ring[i] # NoPacket <=> i \in Places(e.head, e.count)

LEMMA InPlace ==
  ASSUME NEW i \in 0 .. IcmpQsiz - 1
  PROVE  i % IcmpQsiz = i
<1>1. (IcmpQsiz * 0 + i) % IcmpQsiz = i /\ IcmpQsiz * 0 + i = i
  BY NetConst, ModIs
<1> QED
  BY <1>1

\* One packet more at the tail, one less at the head.
LEMMA PlacesFacts ==
  ASSUME NEW h \in Nat, NEW c \in 0 .. IcmpQsiz
  PROVE  /\ Places(h, c) \subseteq 0 .. IcmpQsiz - 1
         /\ c < IcmpQsiz => (h + c) % IcmpQsiz \notin Places(h, c)
         /\ c < IcmpQsiz => Places(h, c + 1) = Places(h, c) \cup {(h + c) % IcmpQsiz}
         /\ c > 0 => Places(h + 1, c - 1) = Places(h, c) \ {h % IcmpQsiz} /\ h % IcmpQsiz \in Places(h, c)
         /\ Places(IcmpQsiz, c) = Places(0, c)
         /\ Places(h, 0) = {}
<1> DEFINE q == IcmpQsiz
<1>1. q \in Nat \ {0}
  BY NetConst
<1> HIDE DEF q
<1>2. Places(h, c) \subseteq 0 .. q - 1
  <2> SUFFICES ASSUME NEW i \in 0 .. c - 1
               PROVE  (h + i) % q \in 0 .. q - 1
    BY DEF Places, q
  <2>1. h + i \in Int
    OBVIOUS
  <2> QED
    BY <1>1, <2>1, DivMod
<1>3. \A i, j \in 0 .. q : i < j /\ j < i + q => (h + i) % q # (h + j) % q
  <2> SUFFICES ASSUME NEW i \in 0 .. q, NEW j \in 0 .. q, i < j, j < i + q, (h + i) % q = (h + j) % q
               PROVE  FALSE
    OBVIOUS
  <2>1. h + i \in Int /\ h + j \in Int /\ h + i <= h + j /\ h + j < (h + i) + q
    BY <1>1
  <2>2. h + i = h + j
    BY <1>1, <2>1, RingApart
  <2> QED
    BY <1>1, <2>2
<1>4. ASSUME c < q
      PROVE  (h + c) % q \notin Places(h, c)
  <2> SUFFICES ASSUME NEW i \in 0 .. c - 1, (h + c) % q = (h + i) % q
               PROVE  FALSE
    BY DEF Places, q
  <2>1. i \in 0 .. q /\ c \in 0 .. q /\ i < c /\ c < i + q
    BY <1>1, <1>4 DEF q
  <2> QED
    BY <1>3, <2>1
<1>5. Places(h, c + 1) = Places(h, c) \cup {(h + c) % q}
  <2>1. 0 .. (c + 1) - 1 = (0 .. c - 1) \cup {c}
    OBVIOUS
  <2> QED
    BY <2>1 DEF Places, q
<1>6. ASSUME c > 0
      PROVE  Places(h + 1, c - 1) = Places(h, c) \ {h % q} /\ h % q \in Places(h, c)
  <2>1. h % q \in Places(h, c)
    <3>1. 0 \in 0 .. c - 1 /\ h + 0 = h
      BY <1>6
    <3> QED
      BY <3>1 DEF Places, q
  <2>2. ASSUME NEW x \in Places(h + 1, c - 1)
        PROVE  x \in Places(h, c) /\ x # h % q
    <3>1. PICK i \in 0 .. (c - 1) - 1 : x = ((h + 1) + i) % q
      BY <2>2 DEF Places, q
    <3>2. i + 1 \in 0 .. c - 1 /\ (h + 1) + i = h + (i + 1) /\ h + 0 = h
      BY <3>1
    <3>3. x = (h + (i + 1)) % q
      BY <3>1, <3>2
    <3>4. x \in Places(h, c)
      BY <3>2, <3>3 DEF Places, q
    <3>5. i + 1 \in 0 .. q /\ 0 \in 0 .. q /\ 0 < i + 1 /\ i + 1 < 0 + q
      BY <1>1, <3>2 DEF q
    <3>6. (h + 0) % q # (h + (i + 1)) % q
      BY <1>3, <3>5
    <3> QED
      BY <3>2, <3>3, <3>4, <3>6
  <2>3. ASSUME NEW x \in Places(h, c), x # h % q
        PROVE  x \in Places(h + 1, c - 1)
    <3>1. PICK i \in 0 .. c - 1 : x = (h + i) % q
      BY <2>3 DEF Places, q
    <3>2. i # 0
      <4>1. h + 0 = h
        OBVIOUS
      <4> QED
        BY <2>3, <3>1, <4>1
    <3>3. i - 1 \in 0 .. (c - 1) - 1 /\ (h + 1) + (i - 1) = h + i
      BY <3>1, <3>2
    <3> QED
      BY <3>1, <3>3 DEF Places, q
  <2> QED
    BY <2>1, <2>2, <2>3
<1>7. Places(q, c) = Places(0, c)
  <2>1. \A i \in 0 .. c - 1 : (q + i) % q = (0 + i) % q
    <3> SUFFICES ASSUME NEW i \in 0 .. c - 1
                 PROVE  (q + i) % q = (0 + i) % q
      OBVIOUS
    <3>1. ((i % q) + 0) % q = (i + 0) % q /\ (i + q) % q = i % q
      <4>1. i \in Int /\ 0 \in Int
        OBVIOUS
      <4> QED
        BY <1>1, <4>1, RingShift
    <3>2. q + i = i + q /\ 0 + i = i
      BY <1>1
    <3> QED
      BY <3>1, <3>2
  <2> QED
    BY <2>1 DEF Places, q
<1>8. Places(h, 0) = {}
  BY DEF Places
<1> QED
  BY <1>2, <1>4, <1>5, <1>6, <1>7, <1>8 DEF q

\* How many packets a ring holds when one is put or taken.
LEMMA RingCount ==
  ASSUME NEW ring \in [0 .. IcmpQsiz - 1 -> Packet], NEW i \in 0 .. IcmpQsiz - 1, NEW pkt \in Packet
  PROVE  /\ InRing(ring) \in Nat
         /\ InRing([ring EXCEPT ![i] = pkt])
              = InRing(ring) + (IF pkt = NoPacket THEN 0 ELSE 1) - (IF ring[i] = NoPacket THEN 0 ELSE 1)
<1> DEFINE S == {k \in 0 .. IcmpQsiz - 1 : ring[k] # NoPacket}
           r == [ring EXCEPT ![i] = pkt]
           T == {k \in 0 .. IcmpQsiz - 1 : r[k] # NoPacket}
           R == S \ {i}
<1>1. InRing(ring) = Cardinality(S) /\ InRing(r) = Cardinality(T)
  BY DEF InRing
<1>2. IsFiniteSet(0 .. IcmpQsiz - 1)
  BY NetConst, FS_Interval
<1>3. IsFiniteSet(S) /\ IsFiniteSet(R) /\ IsFiniteSet(T)
  BY <1>2, FS_Subset
<1>4. Cardinality(S) \in Nat /\ Cardinality(R) \in Nat
  BY <1>3, FS_CardinalityType
<1>5. Cardinality(S) = Cardinality(R) + (IF ring[i] = NoPacket THEN 0 ELSE 1)
  <2>1. CASE ring[i] = NoPacket
    <3>1. R = S
      BY <2>1
    <3> HIDE DEF R, S
    <3> QED
      BY <1>4, <2>1, <3>1
  <2>2. CASE ring[i] # NoPacket
    <3>1. i \in S
      BY <2>2
    <3> HIDE DEF S
    <3>2. Cardinality(R) = Cardinality(S) - 1
      BY <1>3, <3>1, FS_RemoveElement
    <3> QED
      BY <1>4, <2>2, <3>2
  <2> QED
    BY <2>1, <2>2
<1>6. Cardinality(T) = Cardinality(R) + (IF pkt = NoPacket THEN 0 ELSE 1)
  <2>1. CASE pkt = NoPacket
    <3>1. T = R
      BY <2>1
    <3> HIDE DEF R, T
    <3> QED
      BY <1>4, <2>1, <3>1
  <2>2. CASE pkt # NoPacket
    <3>1. T = R \cup {i} /\ i \notin R
      BY <2>2
    <3> HIDE DEF T, R
    <3>2. Cardinality(T) = Cardinality(R) + 1
      BY <1>3, <3>1, FS_AddElement
    <3> QED
      BY <1>4, <2>2, <3>2
  <2> QED
    BY <2>1, <2>2
<1> HIDE DEF S, T, R, r
<1> QED
  BY <1>1, <1>4, <1>5, <1>6 DEF r

\* A slot whose ring has got a packet, and one it has taken a packet from.
Got(e, pkt) == [e EXCEPT !.count = @ + 1, !.ring[e.tail] = pkt, !.tail = (@ + 1) % IcmpQsiz, !.state = "used"]
Took(e) == [e EXCEPT !.ring[e.head] = NoPacket, !.count = @ - 1,
                     !.head = IF @ + 1 >= IcmpSlots THEN 0 ELSE @ + 1]

LEMMA GotFacts ==
  ASSUME NEW e \in IcmpEntry, NEW pkt \in Packet
  PROVE  /\ Got(e, pkt) \in IcmpEntry /\ Got(e, pkt).state = "used" /\ Got(e, pkt).count = e.count + 1
         /\ Got(e, pkt).head = e.head /\ Got(e, pkt).pid = e.pid
         /\ RingFits(e) => RingFits(Got(e, pkt))
         /\ RingSound(e) /\ e.count < IcmpQsiz /\ pkt # NoPacket =>
              RingSound(Got(e, pkt)) /\ InRing(Got(e, pkt).ring) = InRing(e.ring) + 1
<1> DEFINE g == Got(e, pkt)
           n == e.count + 1
           t == (e.tail + 1) % IcmpQsiz
           r == [e.ring EXCEPT ![e.tail] = pkt]
<1>1. /\ e.count \in Int /\ e.head \in Nat /\ e.tail \in 0 .. IcmpQsiz - 1
      /\ e.ring \in [0 .. IcmpQsiz - 1 -> Packet] /\ e.pid \in Proc \cup {NoPid} /\ e.remip \in Host
  BY DEF IcmpEntry
<1>2. t \in 0 .. IcmpQsiz - 1
  <2>1. e.tail + 1 \in Int
    BY <1>1, NetConst
  <2> QED
    BY <2>1, NetConst, DivMod
<1>3. r \in [0 .. IcmpQsiz - 1 -> Packet]
  BY <1>1
<1>4. g = [e EXCEPT !.count = n, !.ring = r, !.tail = t, !.state = "used"]
  BY DEF Got, IcmpEntry
<1>5. /\ g \in IcmpEntry /\ g.state = "used" /\ g.count = e.count + 1 /\ g.head = e.head /\ g.pid = e.pid
      /\ g.ring = r /\ g.tail = t
  <2>1. n \in Int /\ n = e.count + 1
    BY <1>1
  <2> HIDE DEF g, t, r, n
  <2>2. g \in IcmpEntry
    BY <1>2, <1>3, <1>4, <2>1 DEF IcmpEntry
  <2>3. /\ g.state = "used" /\ g.count = n /\ g.head = e.head /\ g.pid = e.pid
        /\ g.ring = r /\ g.tail = t
    BY <1>4 DEF IcmpEntry
  <2> QED
    BY <2>1, <2>2, <2>3
<1> HIDE DEF g, t, r, n
<1>6. /\ InRing(e.ring) \in Nat
      /\ InRing(r) = InRing(e.ring) + (IF pkt = NoPacket THEN 0 ELSE 1) - (IF e.ring[e.tail] = NoPacket THEN 0 ELSE 1)
  <2> DEFINE a == e.ring i == e.tail
  <2>1. a \in [0 .. IcmpQsiz - 1 -> Packet] /\ i \in 0 .. IcmpQsiz - 1
    BY <1>1
  <2>2. r = [a EXCEPT ![i] = pkt]
    BY DEF r
  <2> HIDE DEF a, i
  <2>3. /\ InRing(a) \in Nat
        /\ InRing([a EXCEPT ![i] = pkt])
             = InRing(a) + (IF pkt = NoPacket THEN 0 ELSE 1) - (IF a[i] = NoPacket THEN 0 ELSE 1)
    BY <2>1, RingCount
  <2> QED
    BY <2>2, <2>3 DEF a, i
<1>7. RingFits(e) => RingFits(g)
  BY <1>1, <1>5, <1>6 DEF RingFits
<1>8. ASSUME RingSound(e), e.count < IcmpQsiz, pkt # NoPacket
      PROVE  RingSound(g) /\ InRing(g.ring) = InRing(e.ring) + 1
  <2> DEFINE P == Places(e.head, e.count)
             i == (e.head + e.count) % IcmpQsiz
  <2>1. e.head \in 0 .. IcmpQsiz /\ e.count \in 0 .. IcmpQsiz /\ e.head \in Nat /\ e.tail = i
    BY <1>8, NetConst DEF RingSound
  <2>2. i \notin P /\ Places(e.head, e.count + 1) = P \cup {i}
    BY <1>8, <2>1, PlacesFacts
  <2>3. e.ring[e.tail] = NoPacket
    BY <1>1, <1>8, <2>1, <2>2 DEF RingSound
  <2>4. InRing(g.ring) = InRing(e.ring) + 1
    BY <1>5, <1>6, <1>8, <2>3
  <2>5. \A k \in 0 .. IcmpQsiz - 1 : g.ring[k] # NoPacket <=> k \in Places(e.head, e.count + 1)
    <3>1. \A k \in 0 .. IcmpQsiz - 1 : e.ring[k] # NoPacket <=> k \in P
      BY <1>8 DEF RingSound
    <3>2. \A k \in 0 .. IcmpQsiz - 1 : r[k] = IF k = i THEN pkt ELSE e.ring[k]
      BY <1>1, <2>1 DEF r
    <3> HIDE DEF P, i
    <3> QED
      BY <1>5, <1>8, <2>2, <3>1, <3>2
  <2>6. t = (e.head + (e.count + 1)) % IcmpQsiz
    <3>1. e.head + e.count \in Int /\ 1 \in Int /\ IcmpQsiz \in Nat \ {0}
      BY <2>1, NetConst
    <3>2. (i + 1) % IcmpQsiz = ((e.head + e.count) + 1) % IcmpQsiz
      BY <3>1, RingShift
    <3>3. (e.head + e.count) + 1 = e.head + (e.count + 1)
      BY <2>1
    <3> QED
      BY <2>1, <3>2, <3>3 DEF t
  <2>7. e.count + 1 \in 0 .. IcmpQsiz
    BY <1>8, <2>1, NetConst
  <2> QED
    BY <1>5, <2>1, <2>4, <2>5, <2>6, <2>7 DEF RingSound
<1> QED
  BY <1>5, <1>7, <1>8 DEF g

LEMMA TookFacts ==
  ASSUME NEW e \in IcmpEntry, e.head \in 0 .. IcmpQsiz - 1, e.ring[e.head] # NoPacket
  PROVE  /\ Took(e) \in IcmpEntry /\ Took(e).state = e.state /\ Took(e).count = e.count - 1
         /\ Took(e).pid = e.pid /\ InRing(Took(e).ring) = InRing(e.ring) - 1
         /\ Took(e).head \in {0, e.head + 1}
         /\ RingFits(e) => RingFits(Took(e))
         /\ RingSound(e) => RingSound(Took(e)) /\ e.count > 0
<1> DEFINE g == Took(e)
           n == e.count - 1
           h == IF e.head + 1 >= IcmpSlots THEN 0 ELSE e.head + 1
           r == [e.ring EXCEPT ![e.head] = NoPacket]
<1>1. /\ e.count \in Int /\ e.head \in Nat /\ e.tail \in 0 .. IcmpQsiz - 1
      /\ e.ring \in [0 .. IcmpQsiz - 1 -> Packet] /\ e.pid \in Proc \cup {NoPid} /\ e.remip \in Host
  BY DEF IcmpEntry
<1>2. h \in Nat /\ h \in {0, e.head + 1} /\ (h = 0 => e.head + 1 = IcmpQsiz)
  BY <1>1, NetConst
<1>3. r \in [0 .. IcmpQsiz - 1 -> Packet]
  BY <1>1, Members
<1>4. g = [e EXCEPT !.ring = r, !.count = n, !.head = h]
  BY DEF Took, IcmpEntry
<1>5. /\ g \in IcmpEntry /\ g.state = e.state /\ g.count = e.count - 1 /\ g.head = h /\ g.pid = e.pid
      /\ g.ring = r /\ g.tail = e.tail
  <2>1. n \in Int /\ n = e.count - 1
    BY <1>1
  <2> HIDE DEF g, h, r, n
  <2> QED
    BY <1>1, <1>2, <1>3, <1>4, <2>1 DEF IcmpEntry
<1> HIDE DEF g, h, r, n
<1>6. InRing(e.ring) \in Nat /\ InRing(r) \in Nat /\ InRing(r) = InRing(e.ring) - 1
  <2>1. /\ InRing(e.ring) \in Nat
        /\ InRing(r) = InRing(e.ring) + (IF NoPacket = NoPacket THEN 0 ELSE 1)
                       - (IF e.ring[e.head] = NoPacket THEN 0 ELSE 1)
    BY <1>1, RingCount, Members DEF r
  <2>2. InRing(r) \in Nat
    BY <1>3, <1>1, RingCount, Members
  <2> QED
    BY <2>1, <2>2
<1>7. RingFits(e) => RingFits(g)
  BY <1>1, <1>5, <1>6 DEF RingFits
<1>8. ASSUME RingSound(e)
      PROVE  RingSound(g) /\ e.count > 0
  <2> DEFINE P == Places(e.head, e.count)
             c == e.count - 1
  <2>1. e.head \in 0 .. IcmpQsiz /\ e.count \in 0 .. IcmpQsiz /\ e.head \in P
    BY <1>8 DEF RingSound
  <2>2. e.count > 0
    BY <1>1, <2>1, PlacesFacts
  <2>3. e.head % IcmpQsiz = e.head
    BY InPlace
  <2>4. Places(e.head + 1, c) = P \ {e.head}
    <3>1. Places(e.head + 1, e.count - 1) = Places(e.head, e.count) \ {e.head % IcmpQsiz}
      BY <1>1, <2>1, <2>2, PlacesFacts
    <3> QED
      BY <2>3, <3>1
  <2>5. Places(h, c) = P \ {e.head}
    <3>1. CASE h = 0
      <4>1. c \in 0 .. IcmpQsiz /\ 0 \in Nat /\ e.head + 1 = IcmpQsiz
        BY <1>2, <2>1, <2>2, <3>1
      <4>2. Places(IcmpQsiz, c) = Places(0, c)
        BY <4>1, PlacesFacts
      <4> QED
        BY <2>4, <3>1, <4>1, <4>2
    <3>2. CASE h = e.head + 1
      BY <2>4, <3>2
    <3> QED
      BY <1>2, <3>1, <3>2
  <2>6. \A k \in 0 .. IcmpQsiz - 1 : g.ring[k] # NoPacket <=> k \in Places(h, c)
    <3>1. \A k \in 0 .. IcmpQsiz - 1 : e.ring[k] # NoPacket <=> k \in P
      BY <1>8 DEF RingSound
    <3>2. \A k \in 0 .. IcmpQsiz - 1 : r[k] = IF k = e.head THEN NoPacket ELSE e.ring[k]
      BY <1>1 DEF r
    <3> HIDE DEF P, c
    <3> QED
      BY <1>5, <2>5, <3>1, <3>2
  <2>7. e.tail = (h + c) % IcmpQsiz
    <3>1. e.tail = (e.head + e.count) % IcmpQsiz
      BY <1>8 DEF RingSound
    <3>2. CASE h = e.head + 1
      <4>1. h + c = e.head + e.count
        BY <1>1, <3>2
      <4> QED
        BY <3>1, <4>1
    <3>3. CASE h = 0
      <4>1. c \in Int /\ 0 \in Int /\ IcmpQsiz \in Nat \ {0} /\ e.head + e.count = c + IcmpQsiz /\ h + c = c
        BY <1>1, <1>2, <3>3, NetConst
      <4>2. ((c % IcmpQsiz) + 0) % IcmpQsiz = (c + 0) % IcmpQsiz /\ (c + IcmpQsiz) % IcmpQsiz = c % IcmpQsiz
        BY <4>1, RingShift
      <4> QED
        BY <3>1, <4>1, <4>2
    <3> QED
      BY <1>2, <3>2, <3>3
  <2>8. c \in 0 .. IcmpQsiz /\ h \in 0 .. IcmpQsiz
    BY <1>1, <1>2, <2>1, <2>2, NetConst
  <2> QED
    BY <1>5, <2>2, <2>6, <2>7, <2>8 DEF RingSound
<1> QED
  BY <1>2, <1>5, <1>6, <1>7, <1>8 DEF g

\* What a sound ring with packets in it has at its head.
LEMMA RingHead ==
  ASSUME NEW e \in IcmpEntry, RingSound(e), e.count > 0, e.head < IcmpQsiz
  PROVE  e.head \in 0 .. IcmpQsiz - 1 /\ e.ring[e.head] # NoPacket
<1>1. e.head \in 0 .. IcmpQsiz - 1 /\ e.head \in Nat /\ e.count \in 0 .. IcmpQsiz
  BY NetConst DEF RingSound
<1>2. e.head % IcmpQsiz = e.head
  BY <1>1, InPlace
<1>3. e.head \in Places(e.head, e.count)
  BY <1>1, <1>2, PlacesFacts
<1> QED
  BY <1>1, <1>3 DEF RingSound

\* A slot that is registered anew.
LEMMA IcmpFreeFacts ==
  ASSUME NEW remip \in Host
  PROVE  LET g == [IcmpFree EXCEPT !.state = "used", !.remip = remip] IN
         /\ g \in IcmpEntry /\ g.state = "used" /\ g.count = 0 /\ g.head = 0
         /\ RingFits(g) /\ RingSound(g) /\ InRing(g.ring) = 0
         /\ IcmpFree \in IcmpEntry /\ IcmpFree.state = "free" /\ RingFits(IcmpFree) /\ InRing(IcmpFree.ring) = 0
<1> DEFINE r == [i \in 0 .. IcmpQsiz - 1 |-> NoPacket]
           g == [IcmpFree EXCEPT !.state = "used", !.remip = remip]
<1>1. r \in [0 .. IcmpQsiz - 1 -> Packet] /\ \A i \in 0 .. IcmpQsiz - 1 : r[i] = NoPacket
  BY Members
<1>2. InRing(r) = 0
  <2>1. {i \in DOMAIN r : r[i] # NoPacket} = {}
    OBVIOUS
  <2> HIDE DEF r
  <2> QED
    BY <2>1, FS_EmptySet DEF InRing
<1>3. IcmpFree = [state |-> "free", remip |-> NoAddr, head |-> 0, tail |-> 0, count |-> 0,
                  pid |-> NoPid, ring |-> r]
  BY DEF IcmpFree
<1> HIDE DEF r
<1>4. /\ IcmpFree \in IcmpEntry /\ IcmpFree.state = "free" /\ IcmpFree.ring = r /\ IcmpFree.count = 0
      /\ IcmpFree.head = 0 /\ IcmpFree.tail = 0
  BY <1>1, <1>3, Members, NetConst DEF IcmpEntry
<1>5. g \in IcmpEntry /\ g.state = "used" /\ g.count = 0 /\ g.head = 0 /\ g.tail = 0 /\ g.ring = r
  BY <1>4 DEF IcmpEntry
<1> HIDE DEF g
<1>6. RingSound(g)
  <2>1. Places(0, 0) = {} /\ 0 \in 0 .. IcmpQsiz /\ (0 + 0) % IcmpQsiz = 0
    BY NetConst, PlacesFacts
  <2> QED
    BY <1>1, <1>5, <2>1 DEF RingSound
<1> QED
  BY <1>2, <1>4, <1>5, <1>6 DEF RingFits, g

\* icmp_in, for an echo reply.
LEMMA IcmpReplyFacts ==
  ASSUME NEW n \in Net, NEW pkt \in Packet
  PROVE  LET s == pkt.ident m == IcmpReply(n, pkt) e == n.icmp[s] IN
         /\ ~IcmpWanted(n, pkt) => m = Freed(n)
         /\ IcmpWanted(n, pkt) =>
              /\ m \in Net /\ AllBut({"icmp", "mail"}, n, m)
              /\ s \in IcmpSlot /\ e.state # "free" /\ m.icmp[s] = Got(e, pkt)
              /\ \A r \in IcmpSlot \ {s} : m.icmp[r] = n.icmp[r]
              /\ \A q \in Proc : m.mail[q] = IF e.state = "recv" /\ q = e.pid /\ n.mail[q] = NoMail
                                             THEN "ok" ELSE n.mail[q]
<1>1. CASE ~IcmpWanted(n, pkt)
  BY <1>1 DEF IcmpReply
<1>2. CASE IcmpWanted(n, pkt)
  <2> DEFINE s == pkt.ident
             e == n.icmp[s]
             a == IF e.state = "recv" THEN Sent(n, e.pid, "ok") ELSE n
             g == Got(e, pkt)
             m == IcmpReply(n, pkt)
  <2>3. s \in IcmpSlot /\ e.state # "free"
    BY <1>2 DEF IcmpWanted
  <2>4. m = SetIcmp(a, s, g)
    <3>1. a.icmp = n.icmp
      BY DEF Sent
    <3> HIDE DEF a, s, e
    <3> QED
      BY <1>2, <3>1 DEF IcmpReply, SetIcmp, Got, a, s, e
  <2> HIDE DEF s
  <2>5. e \in IcmpEntry /\ e.pid \in Proc \cup {NoPid}
    BY <2>3, IcmpParts
  <2> HIDE DEF e
  <2>6. /\ a \in Net /\ AllBut({"mail"}, n, a)
        /\ \A q \in Proc : a.mail[q] = IF e.state = "recv" /\ q = e.pid /\ n.mail[q] = NoMail THEN "ok" ELSE n.mail[q]
    <3>1. CASE e.state = "recv"
      <4>1. a = Sent(n, e.pid, "ok")
        BY <3>1
      <4> HIDE DEF a
      <4> DEFINE b == Sent(n, e.pid, "ok")
      <4>2. /\ b \in Net /\ AllBut({"mail"}, n, b)
            /\ \A q \in Proc : b.mail[q] = IF q = e.pid /\ n.mail[e.pid] = NoMail THEN "ok" ELSE n.mail[q]
        BY <2>5, MailFacts
      <4> HIDE DEF b
      <4> QED
        BY <3>1, <4>1, <4>2 DEF b
    <3>2. CASE e.state # "recv"
      BY <3>2 DEF AllBut
    <3> QED
      BY <3>1, <3>2
  <2>7. g \in IcmpEntry
    BY <2>5, GotFacts
  <2> HIDE DEF a, g, m
  <2>8. /\ m \in Net /\ AllBut({"icmp"}, a, m) /\ m.icmp[s] = g
        /\ \A r \in IcmpSlot \ {s} : m.icmp[r] = a.icmp[r]
    BY <2>3, <2>4, <2>6, <2>7, SetFacts
  <2>9. AllBut({"icmp", "mail"}, n, m) /\ a.icmp = n.icmp /\ m.mail = a.mail
    BY <2>6, <2>8 DEF AllBut
  <2> QED
    BY <1>2, <2>3, <2>6, <2>8, <2>9 DEF s, m, e, g
<1> QED
  BY <1>1, <1>2

\* icmp_register
LEMMA IcmpRegisterFacts ==
  ASSUME NEW n \in Net, NEW remip \in Host
  PROVE  LET m == IcmpRegister(n, remip) IN
         m = n \/ \E s \in IcmpSlot :
           /\ m \in Net /\ AllBut({"icmp"}, n, m)
           /\ n.icmp[s].state = "free"
           /\ m.icmp[s] = [IcmpFree EXCEPT !.state = "used", !.remip = remip]
           /\ \A r \in IcmpSlot \ {s} : m.icmp[r] = n.icmp[r]
<1> DEFINE m == IcmpRegister(n, remip)
           free == {s \in IcmpSlot : n.icmp[s].state = "free"}
           g == [IcmpFree EXCEPT !.state = "used", !.remip = remip]
           old == free = {} \/ \E s \in IcmpSlot \ free : n.icmp[s].remip = remip
<1>1. CASE old
  BY <1>1 DEF IcmpRegister
<1>2. CASE ~old
  <2>1. m = SetIcmp(n, Min(free), g)
    BY <1>2 DEF IcmpRegister, SetIcmp
  <2>2. free \in SUBSET Nat
    BY NetConst DEF IcmpSlot
  <2>3. Min(free) \in free
    <3>1. free # {}
      BY <1>2
    <3> HIDE DEF free
    <3> QED
      BY <3>1, <2>2, FirstFacts
  <2>4. g \in IcmpEntry
    BY IcmpFreeFacts
  <2> DEFINE s == Min(free)
  <2>5. s \in IcmpSlot /\ n.icmp[s].state = "free"
    BY <2>3
  <2> HIDE DEF s, g, m, free
  <2>6. /\ m \in Net /\ AllBut({"icmp"}, n, m) /\ m.icmp[s] = g
        /\ \A r \in IcmpSlot \ {s} : m.icmp[r] = n.icmp[r]
    BY <2>1, <2>4, <2>5, SetFacts DEF s
  <2> QED
    BY <2>5, <2>6 DEF m, g
<1> QED
  BY <1>1, <1>2

\* icmp_recv, when it begins to wait.
LEMMA IcmpAwaitFacts ==
  ASSUME NEW n \in Net, NEW p \in Proc, NEW s \in IcmpSlot
  PROVE  LET m == IcmpAwait(n, p, s) e == n.icmp[s] IN
         /\ m \in Net /\ AllBut({"icmp", "mail"}, n, m)
         /\ m.icmp[s].state = "recv" /\ m.icmp[s].pid = p /\ m.icmp[s].count = e.count
         /\ m.icmp[s].head = e.head /\ m.icmp[s].ring = e.ring /\ m.icmp[s].tail = e.tail
         /\ \A r \in IcmpSlot \ {s} : m.icmp[r] = n.icmp[r]
         /\ m.mail[p] = NoMail /\ \A q \in Proc \ {p} : m.mail[q] = n.mail[q]
<1> DEFINE a == Cleared(n, p)
           e == n.icmp[s]
           g == [e EXCEPT !.state = "recv", !.pid = p]
           m == IcmpAwait(n, p, s)
<1>1. m = SetIcmp(a, s, g)
  <2>1. a.icmp = n.icmp
    BY DEF Cleared
  <2> HIDE DEF a
  <2> QED
    BY <2>1 DEF IcmpAwait, SetIcmp, a
<1>2. e \in IcmpEntry
  BY IcmpParts
<1>3. /\ a \in Net /\ AllBut({"mail"}, n, a) /\ n.mail \in [Proc -> {NoMail, "ok", "other", "syserr"}]
      /\ a.mail = [n.mail EXCEPT ![p] = NoMail]
  BY MailFacts, NetParts
<1> HIDE DEF e, a
<1>4. /\ g \in IcmpEntry /\ g.state = "recv" /\ g.pid = p /\ g.count = e.count
      /\ g.head = e.head /\ g.ring = e.ring /\ g.tail = e.tail
  BY <1>2 DEF IcmpEntry
<1> HIDE DEF g, m
<1>5. /\ m \in Net /\ AllBut({"icmp"}, a, m) /\ m.icmp[s] = g
      /\ \A r \in IcmpSlot \ {s} : m.icmp[r] = a.icmp[r]
  BY <1>1, <1>3, <1>4, SetFacts
<1>6. AllBut({"icmp", "mail"}, n, m) /\ a.icmp = n.icmp /\ m.mail = a.mail
  BY <1>3, <1>5 DEF AllBut
<1>7. m.mail[p] = NoMail /\ \A q \in Proc \ {p} : m.mail[q] = n.mail[q]
  BY <1>3, <1>6
<1> QED
  BY <1>4, <1>5, <1>6, <1>7 DEF m, e

\* icmp_recv, when it takes a packet away.
HeadHolds(e) == e.head \in 0 .. IcmpQsiz - 1 /\ e.ring[e.head] # NoPacket
LEMMA IcmpTakeFacts ==
  ASSUME NEW n \in Net, NEW s \in IcmpSlot
  PROVE  LET m == IcmpTake(n, s) e == n.icmp[s] IN
         /\ m \in Net /\ AllBut({"icmp", "free", "ruined"}, n, m)
         /\ \A r \in IcmpSlot \ {s} : m.icmp[r] = n.icmp[r]
         /\ HeadHolds(e) => m.icmp[s] = Took(e) /\ m.ruined = n.ruined /\ m.free = n.free + 1
         /\ ~HeadHolds(e) => m.icmp[s] = e
<1> DEFINE m == IcmpTake(n, s)
           e == n.icmp[s]
           g == Took(e)
           a == SetIcmp(n, s, g)
<1>1. e \in IcmpEntry /\ DOMAIN e.ring = 0 .. IcmpQsiz - 1
  BY IcmpParts
<1>2. CASE ~HeadHolds(e)
  <2>1. m = [n EXCEPT !.ruined = TRUE]
    BY <1>1, <1>2 DEF IcmpTake, HeadHolds
  <2> HIDE DEF m, e
  <2>2. m \in Net /\ AllBut({"ruined"}, n, m)
    BY <2>1, PartFacts
  <2> QED
    BY <1>2, <2>2 DEF AllBut, m, e
<1>3. CASE HeadHolds(e)
  <2>1. m = Freed(a)
    BY <1>1, <1>3 DEF IcmpTake, HeadHolds, Took, SetIcmp
  <2> HIDE DEF e
  <2>2. g \in IcmpEntry
    BY <1>1, <1>3, TookFacts DEF HeadHolds
  <2> HIDE DEF g
  <2>3. /\ a \in Net /\ AllBut({"icmp"}, n, a) /\ a.icmp[s] = g
        /\ \A r \in IcmpSlot \ {s} : a.icmp[r] = n.icmp[r]
    BY <2>2, SetFacts
  <2> HIDE DEF a, m
  <2>4. m \in Net /\ AllBut({"free"}, a, m) /\ m.free = a.free + 1
    BY <2>1, <2>3, BufferFacts
  <2>5. AllBut({"icmp", "free", "ruined"}, n, m) /\ m.icmp = a.icmp /\ m.ruined = n.ruined /\ a.free = n.free
    BY <2>3, <2>4 DEF AllBut
  <2> QED
    BY <1>3, <2>3, <2>4, <2>5 DEF m, e, g
<1> QED
  BY <1>2, <1>3

\* icmp_recv, when it wakes up.
LEMMA IcmpWokenFacts ==
  ASSUME NEW n \in Net, NEW p \in Proc, NEW s \in IcmpSlot
  PROVE  LET m == IcmpWoken(n, p, s) e == n.icmp[s] g == [e EXCEPT !.state = "used"] IN
         /\ m \in Net /\ AllBut({"icmp", "mail", "free", "ruined"}, n, m)
         /\ \A r \in IcmpSlot \ {s} : m.icmp[r] = n.icmp[r]
         /\ \A q \in Proc \ {p} : m.mail[q] = n.mail[q]
         /\ g \in IcmpEntry /\ g.state = "used" /\ g.head = e.head /\ g.count = e.count
         /\ g.ring = e.ring /\ g.tail = e.tail
         /\ n.mail[p] = "ok" /\ HeadHolds(g) =>
              m.icmp[s] = Took(g) /\ m.ruined = n.ruined /\ m.free = n.free + 1
         /\ ~(n.mail[p] = "ok" /\ HeadHolds(g)) => m.icmp[s] = g
         /\ n.mail[p] # "ok" => m.ruined = n.ruined /\ m.free = n.free
<1> DEFINE a == Cleared(n, p)
           e == n.icmp[s]
           g == [e EXCEPT !.state = "used"]
           b == SetIcmp(a, s, g)
           m == IcmpWoken(n, p, s)
<1>1. m = IF n.mail[p] = "ok" THEN IcmpTake(b, s) ELSE b
  <2>1. a.icmp = n.icmp
    BY DEF Cleared
  <2>2. b = [Cleared(n, p) EXCEPT !.icmp[s].state = "used"]
    BY <2>1 DEF SetIcmp
  <2> HIDE DEF b
  <2> QED
    BY <2>2 DEF IcmpWoken
<1>2. e \in IcmpEntry
  BY IcmpParts
<1>3. /\ a \in Net /\ AllBut({"mail"}, n, a) /\ n.mail \in [Proc -> {NoMail, "ok", "other", "syserr"}]
      /\ a.mail = [n.mail EXCEPT ![p] = NoMail]
  BY MailFacts, NetParts
<1> HIDE DEF e, a
<1>4. /\ g \in IcmpEntry /\ g.state = "used" /\ g.head = e.head /\ g.count = e.count
      /\ g.ring = e.ring /\ g.tail = e.tail
  BY <1>2 DEF IcmpEntry
<1> HIDE DEF g, m
<1>5. /\ b \in Net /\ AllBut({"icmp"}, a, b) /\ b.icmp[s] = g
      /\ \A r \in IcmpSlot \ {s} : b.icmp[r] = a.icmp[r]
  BY <1>3, <1>4, SetFacts
<1> HIDE DEF b
<1>6. /\ AllBut({"icmp", "mail"}, n, b) /\ a.icmp = n.icmp /\ b.mail = a.mail
      /\ b.free = n.free /\ b.ruined = n.ruined
  BY <1>3, <1>5 DEF AllBut
<1>7. \A q \in Proc \ {p} : b.mail[q] = n.mail[q]
  BY <1>3, <1>6
<1>8. CASE n.mail[p] = "ok"
  <2>1. m = IcmpTake(b, s)
    BY <1>1, <1>8
  <2>2. /\ m \in Net /\ AllBut({"icmp", "free", "ruined"}, b, m)
        /\ \A r \in IcmpSlot \ {s} : m.icmp[r] = b.icmp[r]
        /\ HeadHolds(b.icmp[s]) => m.icmp[s] = Took(b.icmp[s]) /\ m.ruined = b.ruined /\ m.free = b.free + 1
        /\ ~HeadHolds(b.icmp[s]) => m.icmp[s] = b.icmp[s]
    BY <1>5, <2>1, IcmpTakeFacts
  <2>3. AllBut({"icmp", "mail", "free", "ruined"}, n, m) /\ m.mail = b.mail
    BY <1>6, <2>2 DEF AllBut
  <2> QED
    BY <1>4, <1>5, <1>6, <1>7, <1>8, <2>2, <2>3 DEF m, e, g
<1>9. CASE n.mail[p] # "ok"
  <2>1. m = b
    BY <1>1, <1>9
  <2>2. AllBut({"icmp", "mail", "free", "ruined"}, n, m)
    BY <1>6, <2>1 DEF AllBut
  <2> QED
    BY <1>4, <1>5, <1>6, <1>7, <1>9, <2>1, <2>2 DEF m, e, g
<1> QED
  BY <1>8, <1>9

\* icmp_release: the tables after each packet that it takes out.
LEMMA IcmpEmptiedDef ==
  ASSUME NEW n \in Net, NEW s \in IcmpSlot, n.icmp[s].count \in Nat
  PROVE  /\ IcmpEmptied(n, s)[0] = n
         /\ \A k \in 1 .. n.icmp[s].count : IcmpEmptied(n, s)[k] = IcmpTake(IcmpEmptied(n, s)[k - 1], s)
<1> DEFINE L == n.icmp[s].count
           G == [k \in Nat |-> [x \in Net |-> IcmpTake(x, s)]]
<1>1. L \in Nat
  OBVIOUS
<1>2. G \in [Nat -> [Net -> Net]]
  BY IcmpTakeFacts
<1>3. PICK h : Iterates(h, Net, n, G, L)
  <2> HIDE DEF G, L
  <2> QED
    BY <1>1, <1>2, Recursion
<1>4. h \in [0 .. L -> Net] /\ h[0] = n /\ \A k \in 0 .. L - 1 : h[k + 1] = G[k][h[k]]
  BY <1>3 DEF Iterates
<1>5. \A i \in 0 .. L : i # 0 => h[i] = IcmpTake(h[i - 1], s)
  <2> SUFFICES ASSUME NEW i \in 0 .. L, i # 0
               PROVE  h[i] = IcmpTake(h[i - 1], s)
    OBVIOUS
  <2> HIDE DEF L
  <2>1. i - 1 \in 0 .. L - 1 /\ (i - 1) + 1 = i /\ i - 1 \in Nat /\ i - 1 \in 0 .. L
    BY <1>1
  <2> HIDE DEF G
  <2>2. h[i] = G[i - 1][h[i - 1]] /\ h[i - 1] \in Net
    BY <1>4, <2>1
  <2> QED
    BY <2>1, <2>2 DEF G
<1> DEFINE IsEmptied(g) ==
             g = [k \in 0 .. n.icmp[s].count |-> IF k = 0 THEN n ELSE IcmpTake(g[k - 1], s)]
<1>6. IsEmptied(h)
  <2> HIDE DEF G
  <2> QED
    BY <1>4, <1>5
<1>7. \E g : IsEmptied(g)
  BY <1>6
<1>8. IcmpEmptied(n, s) = CHOOSE g : IsEmptied(g)
  BY DEF IcmpEmptied
<1> DEFINE R == IcmpEmptied(n, s)
<1> HIDE DEF IsEmptied, R
<1>9. IsEmptied(R)
  BY <1>7, <1>8 DEF R
<1>10. R = [k \in 0 .. L |-> IF k = 0 THEN n ELSE IcmpTake(R[k - 1], s)]
  BY <1>9 DEF IsEmptied
<1>11. R[0] = n /\ \A k \in 1 .. L : R[k] = IcmpTake(R[k - 1], s)
  <2> HIDE DEF L
  <2>1. 0 \in 0 .. L /\ \A k \in 1 .. L : k \in 0 .. L /\ k # 0
    BY <1>1
  <2> QED
    BY <1>10, <2>1
<1> QED
  BY <1>11 DEF R

\* What holds after k packets.
Draining(n, s, k, m) ==
  LET e == n.icmp[s] d == m.icmp[s] IN
  /\ m \in Net /\ AllBut({"icmp", "free", "ruined"}, n, m)
  /\ \A r \in IcmpSlot \ {s} : m.icmp[r] = n.icmp[r]
  /\ RingFits(e) => RingFits(d)
  /\ d.state = e.state
  /\ RingSound(e) /\ e.head + e.count <= IcmpQsiz =>
       /\ RingSound(d) /\ d.count = e.count - k /\ d.head + d.count <= IcmpQsiz
       /\ m.ruined = n.ruined /\ m.free + InRing(d.ring) = n.free + InRing(e.ring)

LEMMA DrainStep ==
  ASSUME NEW n \in Net, NEW s \in IcmpSlot, NEW k \in Nat, k < n.icmp[s].count, NEW m, Draining(n, s, k, m)
  PROVE  Draining(n, s, k + 1, IcmpTake(m, s))
<1> DEFINE e == n.icmp[s]
           d == m.icmp[s]
           t == IcmpTake(m, s)
           g == t.icmp[s]
           sound == RingSound(e) /\ e.head + e.count <= IcmpQsiz
<1>1. /\ m \in Net /\ AllBut({"icmp", "free", "ruined"}, n, m)
      /\ \A r \in IcmpSlot \ {s} : m.icmp[r] = n.icmp[r]
      /\ RingFits(e) => RingFits(d)
      /\ d.state = e.state
      /\ sound => /\ RingSound(d) /\ d.count = e.count - k /\ d.head + d.count <= IcmpQsiz
                  /\ m.ruined = n.ruined /\ m.free + InRing(d.ring) = n.free + InRing(e.ring)
  BY DEF Draining
<1>2. d \in IcmpEntry /\ d.count \in Int /\ d.head \in Nat /\ e.count \in Int /\ d.ring \in [0 .. IcmpQsiz - 1 -> Packet]
  BY <1>1, IcmpParts
<1>3. /\ t \in Net /\ AllBut({"icmp", "free", "ruined"}, m, t)
      /\ \A r \in IcmpSlot \ {s} : t.icmp[r] = m.icmp[r]
      /\ HeadHolds(d) => g = Took(d) /\ t.ruined = m.ruined /\ t.free = m.free + 1
      /\ ~HeadHolds(d) => g = d
  BY <1>1, IcmpTakeFacts
<1>4. m.free \in Int /\ n.free \in Int
  BY <1>1, NetParts
<1> HIDE DEF e, d, t, g
<1>5. AllBut({"icmp", "free", "ruined"}, n, t) /\ \A r \in IcmpSlot \ {s} : t.icmp[r] = n.icmp[r]
  BY <1>1, <1>3 DEF AllBut
<1>6. (RingFits(e) => RingFits(g)) /\ g.state = e.state
  BY <1>1, <1>2, <1>3, TookFacts DEF HeadHolds
<1>7. ASSUME sound
      PROVE  /\ RingSound(g) /\ g.count = e.count - (k + 1) /\ g.head + g.count <= IcmpQsiz
             /\ t.ruined = n.ruined /\ t.free + InRing(g.ring) = n.free + InRing(e.ring)
  <2>1. d.count > 0 /\ d.head < IcmpQsiz /\ RingSound(d) /\ d.count = e.count - k
    BY <1>1, <1>2, <1>7, NetConst DEF e
  <2>2. HeadHolds(d)
    BY <1>2, <2>1, RingHead DEF HeadHolds
  <2>3. g = Took(d) /\ t.ruined = n.ruined /\ t.free = m.free + 1
    BY <1>1, <1>3, <1>7, <2>2
  <2>4. /\ RingSound(g) /\ g.count = d.count - 1 /\ InRing(g.ring) = InRing(d.ring) - 1
        /\ g.head \in {0, d.head + 1}
    BY <1>2, <2>1, <2>2, <2>3, TookFacts DEF HeadHolds
  <2>5. g.head + g.count <= IcmpQsiz
    BY <1>1, <1>2, <1>7, <2>1, <2>4, NetConst
  <2>6. InRing(d.ring) \in Nat
    <3>1. 0 \in 0 .. IcmpQsiz - 1 /\ NoPacket \in Packet
      BY NetConst, Members
    <3> QED
      BY <1>2, <3>1, RingCount
  <2>7. g.count = e.count - (k + 1)
    BY <1>2, <2>1, <2>4
  <2>8. t.free + InRing(g.ring) = n.free + InRing(e.ring)
    <3>1. m.free + InRing(d.ring) = n.free + InRing(e.ring)
      BY <1>1, <1>7
    <3> QED
      BY <1>4, <2>3, <2>4, <2>6, <3>1
  <2> QED
    BY <2>3, <2>4, <2>5, <2>7, <2>8
<1>8. /\ t \in Net /\ (RingFits(e) => RingFits(g)) /\ g.state = e.state
  BY <1>3, <1>6
<1> QED
  BY <1>5, <1>7, <1>8 DEF Draining, e, g, t

LEMMA IcmpReleaseFacts ==
  ASSUME NEW n \in Net, NEW s \in IcmpSlot, RingFits(n.icmp[s])
  PROVE  LET m == IcmpRelease(n, s) e == n.icmp[s] IN
         m = n \/
           /\ m \in Net /\ AllBut({"icmp", "free", "ruined"}, n, m)
           /\ \A r \in IcmpSlot \ {s} : m.icmp[r] = n.icmp[r]
           /\ RingFits(m.icmp[s]) /\ m.icmp[s].state = "free" /\ e.state = "used"
           /\ RingSound(e) /\ e.head + e.count <= IcmpQsiz =>
                m.ruined = n.ruined /\ m.free = n.free + InRing(e.ring) /\ InRing(m.icmp[s].ring) = 0
<1> DEFINE m == IcmpRelease(n, s)
           e == n.icmp[s]
           R == IcmpEmptied(n, s)
           a == R[e.count]
           d == a.icmp[s]
           g == [d EXCEPT !.state = "free"]
<1>1. CASE e.state # "used"
  BY <1>1 DEF IcmpRelease
<1>2. CASE e.state = "used"
  <2>1. e.count \in Nat /\ e \in IcmpEntry /\ e.ring \in [0 .. IcmpQsiz - 1 -> Packet]
    BY IcmpParts DEF RingFits
  <2> HIDE DEF R
  <2>2. R[0] = n /\ \A k \in 1 .. e.count : R[k] = IcmpTake(R[k - 1], s)
    BY <2>1, IcmpEmptiedDef DEF R
  <2>3. Draining(n, s, 0, n)
    BY <2>1 DEF Draining, AllBut
  <2> DEFINE T == {k \in Nat : k <= e.count => Draining(n, s, k, R[k])}
  <2>4. 0 \in T
    BY <2>2, <2>3
  <2>5. \A k \in Nat : k \in T => k + 1 \in T
    <3> SUFFICES ASSUME NEW k \in Nat, k \in T, k + 1 <= e.count
                 PROVE  Draining(n, s, k + 1, R[k + 1])
      OBVIOUS
    <3>1. k < e.count /\ k + 1 \in 1 .. e.count /\ (k + 1) - 1 = k /\ Draining(n, s, k, R[k])
      BY <2>1
    <3>2. R[k + 1] = IcmpTake(R[k], s)
      BY <2>2, <3>1
    <3> HIDE DEF e
    <3> QED
      BY <3>1, <3>2, DrainStep DEF e
  <2> HIDE DEF T
  <2>6. Nat \subseteq T
    BY <2>4, <2>5, Induct
  <2>7. Draining(n, s, e.count, a)
    BY <2>1, <2>6 DEF T
  <2>8. /\ a \in Net /\ AllBut({"icmp", "free", "ruined"}, n, a)
        /\ \A r \in IcmpSlot \ {s} : a.icmp[r] = n.icmp[r]
        /\ RingFits(d)
        /\ RingSound(e) /\ e.head + e.count <= IcmpQsiz =>
             /\ RingSound(d) /\ d.count = e.count - e.count
             /\ a.ruined = n.ruined /\ a.free + InRing(d.ring) = n.free + InRing(e.ring)
    BY <2>7 DEF Draining
  <2>9. m = SetIcmp(a, s, g)
    BY <1>2 DEF IcmpRelease, SetIcmp, R
  <2> HIDE DEF a
  <2>10. d \in IcmpEntry /\ d.ring \in [0 .. IcmpQsiz - 1 -> Packet] /\ a.free \in Int /\ n.free \in Int
    BY <2>8, IcmpParts, NetParts
  <2> HIDE DEF d, e
  <2>11. g \in IcmpEntry /\ g.state = "free" /\ g.count = d.count /\ g.ring = d.ring
    BY <2>10 DEF IcmpEntry
  <2> HIDE DEF g, m
  <2>12. /\ m \in Net /\ AllBut({"icmp"}, a, m) /\ m.icmp[s] = g
         /\ \A r \in IcmpSlot \ {s} : m.icmp[r] = a.icmp[r]
    BY <2>8, <2>9, <2>11, SetFacts
  <2>13. AllBut({"icmp", "free", "ruined"}, n, m) /\ m.free = a.free /\ m.ruined = a.ruined
    BY <2>8, <2>12 DEF AllBut
  <2>14. RingFits(g)
    BY <2>8, <2>11 DEF RingFits
  <2>15. ASSUME RingSound(e) /\ e.head + e.count <= IcmpQsiz
         PROVE  m.ruined = n.ruined /\ m.free = n.free + InRing(e.ring) /\ InRing(g.ring) = 0
    <3>1. RingSound(d) /\ d.count = 0 /\ a.ruined = n.ruined /\ a.free + InRing(d.ring) = n.free + InRing(e.ring)
      BY <2>1, <2>8, <2>15
    <3>2. d.head \in Nat /\ 0 \in 0 .. IcmpQsiz
      BY <2>10, NetConst DEF IcmpEntry
    <3>3. Places(d.head, 0) = {}
      BY <3>2, PlacesFacts
    <3>4. {i \in DOMAIN d.ring : d.ring[i] # NoPacket} = {}
      BY <2>10, <3>1, <3>3 DEF RingSound
    <3>5. InRing(d.ring) = 0
      BY <3>4, FS_EmptySet DEF InRing
    <3>6. InRing(e.ring) \in Nat
      <4>1. 0 \in 0 .. IcmpQsiz - 1 /\ NoPacket \in Packet
        BY NetConst, Members
      <4> QED
        BY <2>1, <4>1, RingCount
    <3> QED
      BY <2>10, <2>11, <2>13, <3>1, <3>5, <3>6
  <2> QED
    BY <1>2, <2>8, <2>11, <2>12, <2>13, <2>14, <2>15 DEF m, e
<1> QED
  BY <1>1, <1>2

-------------------------------------------------------------------------------
(* The ARP cache *)

LEMMA ArpSlotFacts ==
  ASSUME NEW c, NEW addr
  PROVE  /\ ArpFind(c, addr) = -1 => \A s \in ArpSlot : ~(c[s].state # "free" /\ c[s].addr = addr)
         /\ ArpFind(c, addr) # -1 => /\ ArpFind(c, addr) \in ArpSlot
                                     /\ c[ArpFind(c, addr)].state # "free"
                                     /\ c[ArpFind(c, addr)].addr = addr
         /\ ArpVictim(c) # -1 => /\ ArpVictim(c) \in ArpSlot
                                 /\ c[ArpVictim(c)].state \in {"free", "resolved"}
<1> DEFINE S == {s \in ArpSlot : c[s].state # "free" /\ c[s].addr = addr}
           F == {s \in ArpSlot : c[s].state = "free"}
           V == IF F # {} THEN F ELSE {s \in ArpSlot : c[s].state = "resolved"}
<1>1. ArpFind(c, addr) = First(S) /\ ArpVictim(c) = First(V)
  BY DEF ArpFind, ArpVictim
<1>2. S \in SUBSET Nat /\ V \in SUBSET Nat
  BY NetConst DEF ArpSlot
<1>3. V \subseteq {s \in ArpSlot : c[s].state \in {"free", "resolved"}}
  OBVIOUS
<1> HIDE DEF V
<1>4. S # {} => First(S) \in S
  <2> HIDE DEF S
  <2> QED
    BY <1>2, FirstFacts
<1>5. V # {} => First(V) \in V
  BY <1>2, FirstFacts
<1>6. S = {} => First(S) = -1
  <2> HIDE DEF S
  <2> QED
    BY <1>2, FirstFacts
<1>7. V = {} => First(V) = -1
  BY <1>2, FirstFacts
<1>8. S # {} => First(S) # -1
  <2> HIDE DEF S
  <2> QED
    BY <1>2, FirstFacts
<1>9. ArpFind(c, addr) = -1 => S = {}
  BY <1>1, <1>8
<1>10. ArpFind(c, addr) # -1 => ArpFind(c, addr) \in S
  BY <1>1, <1>4, <1>6
<1>11. ArpVictim(c) # -1 => ArpVictim(c) \in V
  BY <1>1, <1>5, <1>7
<1> QED
  BY <1>3, <1>9, <1>10, <1>11

\* arp_resolve
LEMMA ArpAskFacts ==
  ASSUME NEW n \in Net, NEW p \in Proc, NEW hop \in Host
  PROVE  LET ask == ArpAsk(n, p, hop) s == ask.slot m == ask.net IN
         \/ ask.did = "resolved" /\ s \in ArpSlot /\ n.arp[s].state = "resolved" /\ n.arp[s].addr = hop
         \/ ask.did = "fail"
         \/ /\ ask.did = "wait" /\ s = ArpVictim(n.arp) /\ s \in ArpSlot
            /\ n.arp[s].state \in {"free", "resolved"}
            /\ m \in Net /\ AllBut({"arp", "mail"}, n, m)
            /\ m.arp[s].state = "pending" /\ m.arp[s].pid = p /\ m.arp[s].addr = hop
            /\ \A r \in ArpSlot \ {s} : m.arp[r] = n.arp[r]
            /\ m.mail[p] = NoMail /\ \A q \in Proc \ {p} : m.mail[q] = n.mail[q]
<1> DEFINE s == ArpFind(n.arp, hop)
           v == ArpVictim(n.arp)
           g == [NoEntry EXCEPT !.state = "pending", !.addr = hop, !.pid = p]
           a == Cleared(n, p)
           m == SetArp(a, v, g)
           ask == ArpAsk(n, p, hop)
<1>1. /\ s # -1 => s \in ArpSlot /\ n.arp[s].state # "free" /\ n.arp[s].addr = hop
      /\ v # -1 => v \in ArpSlot /\ n.arp[v].state \in {"free", "resolved"}
  BY ArpSlotFacts
<1>2. CASE s # -1 /\ n.arp[s].state = "resolved"
  <2>1. ask.did = "resolved" /\ ask.slot = s
    BY <1>2 DEF ArpAsk
  <2> QED
    BY <1>1, <1>2, <2>1
<1>3. CASE ~(s # -1 /\ n.arp[s].state = "resolved") /\ (s # -1 \/ v = -1)
  <2>1. ask.did = "fail"
    BY <1>3 DEF ArpAsk
  <2> QED
    BY <2>1
<1>4. CASE ~(s # -1 /\ n.arp[s].state = "resolved") /\ ~(s # -1 \/ v = -1)
  <2>1. a.arp = n.arp
    BY DEF Cleared
  <2>2. ask.did = "wait" /\ ask.slot = v /\ ask.net = m
    <3> DEFINE x == [Cleared(n, p) EXCEPT !.arp[v] = g]
    <3>1. ask = [did |-> "wait", slot |-> v, net |-> x]
      BY <1>4 DEF ArpAsk
    <3>2. x = m
      BY <2>1 DEF SetArp
    <3> HIDE DEF x, m, ask
    <3> QED
      BY <3>1, <3>2
  <2>3. g \in ArpEntry /\ g.state = "pending" /\ g.pid = p /\ g.addr = hop
    BY Members DEF NoEntry, ArpEntry
  <2>4. /\ a \in Net /\ AllBut({"mail"}, n, a) /\ a.mail = [n.mail EXCEPT ![p] = NoMail]
        /\ n.mail \in [Proc -> {NoMail, "ok", "other", "syserr"}]
    BY MailFacts, NetParts
  <2>5. v \in ArpSlot /\ n.arp[v].state \in {"free", "resolved"}
    BY <1>1, <1>4
  <2> HIDE DEF a, g, s
  <2>6. /\ m \in Net /\ AllBut({"arp"}, a, m) /\ m.arp[v] = g
        /\ \A r \in ArpSlot \ {v} : m.arp[r] = a.arp[r]
    <3> HIDE DEF v
    <3> QED
      BY <2>3, <2>4, <2>5, SetFacts
  <2> HIDE DEF m, ask
  <2>7. AllBut({"arp", "mail"}, n, m) /\ m.mail = a.mail
    BY <2>4, <2>6 DEF AllBut
  <2>8. m.mail[p] = NoMail /\ \A q \in Proc \ {p} : m.mail[q] = n.mail[q]
    BY <2>4, <2>7
  <2>9. \A r \in ArpSlot \ {v} : m.arp[r] = n.arp[r]
    BY <2>1, <2>6
  <2> HIDE DEF v
  <2>10. /\ ask.did = "wait" /\ ask.slot = v /\ v \in ArpSlot
         /\ n.arp[v].state \in {"free", "resolved"}
         /\ m \in Net /\ AllBut({"arp", "mail"}, n, m)
         /\ m.arp[v].state = "pending" /\ m.arp[v].pid = p /\ m.arp[v].addr = hop
    BY <2>2, <2>3, <2>5, <2>6, <2>7
  <2> QED
    BY <2>2, <2>8, <2>9, <2>10 DEF ask, v
<1> QED
  BY <1>2, <1>3, <1>4

\* arp_resolve, when it gives up.
LEMMA ArpExpireFacts ==
  ASSUME NEW n \in Net, NEW s \in ArpSlot
  PROVE  LET m == ArpExpire(n, s) IN
         /\ m \in Net /\ AllBut({"arp"}, n, m) /\ m.arp[s].state = "free"
         /\ \A r \in ArpSlot \ {s} : m.arp[r] = n.arp[r]
<1> DEFINE e == n.arp[s]
           g == [e EXCEPT !.state = "free"]
           m == ArpExpire(n, s)
<1>1. m = SetArp(n, s, g)
  BY DEF ArpExpire, SetArp
<1>2. e \in ArpEntry
  BY ArpParts
<1> HIDE DEF e
<1>3. g \in ArpEntry /\ g.state = "free"
  BY <1>2 DEF ArpEntry
<1> HIDE DEF g, m
<1>4. /\ m \in Net /\ AllBut({"arp"}, n, m) /\ m.arp[s] = g
      /\ \A r \in ArpSlot \ {s} : m.arp[r] = n.arp[r]
  BY <1>1, <1>3, SetFacts
<1> QED
  BY <1>3, <1>4 DEF m

\* arp_in: the entry of the sender is brought up to date.
LEMMA ArpHearFacts ==
  ASSUME NEW n \in Net, NEW f \in ArpFrames
  PROVE  LET s == ArpFind(n.arp, f.snd) m == ArpHear(n, f) e == n.arp[s] IN
         /\ s = -1 => m = n
         /\ s # -1 =>
              /\ m \in Net /\ AllBut({"arp", "mail"}, n, m)
              /\ s \in ArpSlot /\ e.state # "free" /\ e.addr = f.snd
              /\ m.arp[s].state = "resolved" /\ m.arp[s].addr = f.snd /\ m.arp[s].hw = f.snd
              /\ \A r \in ArpSlot \ {s} : m.arp[r] = n.arp[r]
              /\ \A q \in Proc : m.mail[q] = IF e.state = "pending" /\ q = e.pid /\ n.mail[q] = NoMail
                                             THEN "ok" ELSE n.mail[q]
<1> DEFINE s == ArpFind(n.arp, f.snd)
           e == n.arp[s]
           m == ArpHear(n, f)
<1>1. CASE s = -1
  BY <1>1 DEF ArpHear
<1>2. CASE s # -1
  <2>1. s \in ArpSlot /\ e.state # "free" /\ e.addr = f.snd
    BY <1>2, ArpSlotFacts
  <2>2. f.snd \in Host
    BY Members
  <2>3. CASE e.state = "pending"
    <3> DEFINE g == [e EXCEPT !.hw = f.snd, !.state = "resolved"]
               a == SetArp(n, s, g)
    <3>1. m = Sent(a, e.pid, "ok")
      <4>1. a = [n EXCEPT !.arp[s] = [@ EXCEPT !.hw = f.snd, !.state = "resolved"]]
        BY DEF SetArp
      <4> HIDE DEF a
      <4> QED
        BY <1>2, <2>3, <4>1 DEF ArpHear
    <3> HIDE DEF s
    <3>2. e \in ArpEntry /\ e.pid \in Proc \cup {NoPid}
      BY <2>1, ArpParts
    <3> HIDE DEF e
    <3>3. g \in ArpEntry /\ g.state = "resolved" /\ g.addr = f.snd /\ g.hw = f.snd
      BY <2>1, <2>2, <3>2 DEF ArpEntry
    <3> HIDE DEF g
    <3>4. /\ a \in Net /\ AllBut({"arp"}, n, a) /\ a.arp[s] = g
          /\ \A r \in ArpSlot \ {s} : a.arp[r] = n.arp[r]
      BY <2>1, <3>3, SetFacts
    <3> HIDE DEF a, m
    <3>5. /\ m \in Net /\ AllBut({"mail"}, a, m)
          /\ \A q \in Proc : m.mail[q] = IF q = e.pid /\ a.mail[e.pid] = NoMail THEN "ok" ELSE a.mail[q]
      <4> DEFINE w == e.pid b == Sent(a, w, "ok")
      <4>1. m = b /\ w \in Proc \cup {NoPid} /\ a \in Net
        BY <3>1, <3>2, <3>4
      <4> HIDE DEF w
      <4>2. /\ b \in Net /\ AllBut({"mail"}, a, b)
            /\ \A q \in Proc : b.mail[q] = IF q = w /\ a.mail[w] = NoMail THEN "ok" ELSE a.mail[q]
        BY <4>1, MailFacts
      <4> HIDE DEF b
      <4> QED
        BY <4>1, <4>2 DEF w
    <3>6. AllBut({"arp", "mail"}, n, m) /\ m.arp = a.arp /\ a.mail = n.mail
      BY <3>4, <3>5 DEF AllBut
    <3>7. \A q \in Proc : m.mail[q] = IF e.state = "pending" /\ q = e.pid /\ n.mail[q] = NoMail
                                      THEN "ok" ELSE n.mail[q]
      BY <2>3, <3>5, <3>6
    <3> QED
      BY <1>2, <2>1, <3>3, <3>4, <3>5, <3>6, <3>7 DEF m, s, e
  <2>4. CASE e.state # "pending"
    <3> DEFINE g == [e EXCEPT !.hw = f.snd]
    <3>1. m = SetArp(n, s, g)
      BY <1>2, <2>4 DEF ArpHear, SetArp
    <3> HIDE DEF s
    <3>2. e \in ArpEntry /\ e.state = "resolved"
      BY <2>1, <2>4, ArpParts
    <3> HIDE DEF e
    <3>3. g \in ArpEntry /\ g.state = "resolved" /\ g.addr = f.snd /\ g.hw = f.snd
      BY <2>1, <2>2, <3>2 DEF ArpEntry
    <3> HIDE DEF g, m
    <3>4. /\ m \in Net /\ AllBut({"arp"}, n, m) /\ m.arp[s] = g
          /\ \A r \in ArpSlot \ {s} : m.arp[r] = n.arp[r]
      BY <2>1, <3>1, <3>3, SetFacts
    <3>5. AllBut({"arp", "mail"}, n, m) /\ m.mail = n.mail
      BY <3>4 DEF AllBut
    <3>6. \A q \in Proc : m.mail[q] = IF e.state = "pending" /\ q = e.pid /\ n.mail[q] = NoMail
                                      THEN "ok" ELSE n.mail[q]
      BY <2>4, <3>5
    <3> QED
      BY <1>2, <2>1, <3>3, <3>4, <3>5, <3>6 DEF m, s, e
  <2> QED
    BY <2>3, <2>4
<1> QED
  BY <1>1, <1>2

\* arp_in: it brings an entry up to date, or learns a new one.
LEMMA ArpInFacts ==
  ASSUME NEW n \in Net, NEW f \in ArpFrames
  PROVE  LET m == ArpIn(n, f) v == ArpVictim(n.arp) IN
         \/ m = ArpHear(n, f)
         \/ /\ ArpLearns(n, f) /\ v \in ArpSlot /\ n.arp[v].state \in {"free", "resolved"}
            /\ m \in Net /\ AllBut({"arp"}, n, m)
            /\ m.arp[v].state = "resolved" /\ m.arp[v].hw = m.arp[v].addr
            /\ \A r \in ArpSlot \ {v} : m.arp[r] = n.arp[r]
<1> DEFINE a == ArpHear(n, f)
           v == ArpVictim(a.arp)
           s == ArpFind(n.arp, f.snd)
           g == [state |-> "resolved", addr |-> f.snd, hw |-> f.snd, pid |-> NoPid]
           m == ArpIn(n, f)
<1>1. CASE ~(ArpLearns(a, f) /\ v # -1)
  BY <1>1 DEF ArpIn
<1>2. CASE ArpLearns(a, f) /\ v # -1
  <2>1. s = -1
    <3> SUFFICES ASSUME s # -1
                 PROVE  FALSE
      OBVIOUS
    <3>1. s \in ArpSlot /\ a.arp[s].state = "resolved" /\ a.arp[s].addr = f.snd
      BY ArpHearFacts
    <3>2. ArpFind(a.arp, f.snd) = -1
      BY <1>2 DEF ArpLearns
    <3> HIDE DEF a, s
    <3> QED
      BY <3>1, <3>2, ArpSlotFacts
  <2>2. a = n
    BY <2>1, ArpHearFacts
  <2>3. m = SetArp(n, v, g)
    BY <1>2, <2>2 DEF ArpIn, SetArp
  <2>4. ArpLearns(n, f) /\ v = ArpVictim(n.arp) /\ v # -1
    BY <1>2, <2>2
  <2>5. v \in ArpSlot /\ n.arp[v].state \in {"free", "resolved"}
    <3> HIDE DEF v, a
    <3> QED
      BY <2>4, ArpSlotFacts
  <2>6. g \in ArpEntry /\ g.state = "resolved" /\ g.hw = g.addr
    BY Members DEF ArpEntry
  <2> HIDE DEF g, m, v, a
  <2>7. /\ m \in Net /\ AllBut({"arp"}, n, m) /\ m.arp[v] = g
        /\ \A r \in ArpSlot \ {v} : m.arp[r] = n.arp[r]
    BY <2>3, <2>5, <2>6, SetFacts
  <2> QED
    BY <2>4, <2>5, <2>6, <2>7 DEF m
<1> QED
  BY <1>1, <1>2

-------------------------------------------------------------------------------
(* The invariant *)

Replies == {pkt \in Pings : pkt.type = "reply"}

\* What a call refers to is there.
CallFits(c) ==
  /\ c.op \in {"send", "sendto"} => c.slot \in UdpSlot /\ c.pkt \in Datagrams
  /\ c.op = "ping" => c.pkt \in Pings
  /\ c.op = "echo" => c.pkt.proto = "icmp"
  /\ c.op = "udp" => c.slot \in UdpSlot
  /\ c.op = "icmp" => c.slot \in IcmpSlot
  /\ c.op = "arp" => c.slot \in ArpSlot

NetTypes(n) ==
  /\ n \in Net
  /\ \A p \in Proc : CallFits(n.call[p])
  /\ \A s \in IcmpSlot : RingFits(n.icmp[s])
  /\ CallFits(n.netin) /\ n.netin.op \in {"getbuf", "read", "echo"}
  /\ n.call[IpOut].op \in {"none", "arp"}
  /\ n.oq \in Seq(Replies)

\* The three tables in which a process waits: a slot that says that somebody
\* waits for it, who, whether there is something for it, and who is in it.
Table == {"udp", "icmp", "arp"}
SlotOf(t) == CASE t = "udp" -> UdpSlot [] t = "icmp" -> IcmpSlot [] t = "arp" -> ArpSlot
Open(n, t, s) == CASE t = "udp" -> n.udp[s].state = "recv"
                   [] t = "icmp" -> n.icmp[s].state = "recv"
                   [] t = "arp" -> n.arp[s].state = "pending"
Owner(n, t, s) == CASE t = "udp" -> n.udp[s].pid
                    [] t = "icmp" -> n.icmp[s].pid
                    [] t = "arp" -> n.arp[s].pid
Full(n, t, s) == CASE t = "udp" -> n.udp[s].state # "free" /\ n.udp[s].q # <<>>
                   [] t = "icmp" -> n.icmp[s].state # "free" /\ n.icmp[s].count > 0
                   [] t = "arp" -> n.arp[s].state = "resolved"
In(n, p, t, s) == n.call[p].op = t /\ n.call[p].slot = s

MarkedAt(n, t, s) ==
  Open(n, t, s) => LET p == Owner(n, t, s) IN p \in Proc /\ In(n, p, t, s) /\ n.mail[p] = NoMail
AgreedAt(n, t, s) ==
  \A p \in Proc : In(n, p, t, s) =>
    /\ n.mail[p] = NoMail => Open(n, t, s) /\ Owner(n, t, s) = p /\ ~Full(n, t, s)
    /\ n.mail[p] # NoMail => Full(n, t, s)
    /\ \A q \in Proc : In(n, q, t, s) => q = p

\* The hazards that must be left out: for a slot to be marked by who waits, for
\* who waits in a table to agree with it, and for the buffers to be accounted for.
Marks == "stray" \notin NetHazards
Agrees(t) == /\ "stray" \notin NetHazards
             /\ IF t = "arp" THEN "recycle" \notin NetHazards
                ELSE "share" \notin NetHazards /\ "release" \notin NetHazards
Accounts == NetHazards \subseteq {"recycle"}

WaitersFit(n) ==
  /\ Marks => \A t \in Table : \A s \in SlotOf(t) : MarkedAt(n, t, s)
  /\ \A t \in Table : Agrees(t) => \A s \in SlotOf(t) : AgreedAt(n, t, s)

\* A resolved entry has the hardware address of its own address, and who waits
\* for an entry that of its hop.
Heard(n) == /\ \A s \in ArpSlot : n.arp[s].state = "resolved" => n.arp[s].hw = n.arp[s].addr
            /\ n.frame.hw = n.frame.hop
Asked(n) == \A p \in Proc : n.call[p].op = "arp" => n.arp[n.call[p].slot].addr = n.call[p].hop

\* The rings of the ICMP slots and the queues of the free ones.
Rings(n) ==
  /\ \A s \in IcmpSlot : IF n.icmp[s].state = "free" THEN InRing(n.icmp[s].ring) = 0
                         ELSE RingSound(n.icmp[s])
  /\ \A s \in UdpSlot : n.udp[s].state = "free" => n.udp[s].q = <<>>
  /\ \A p \in Proc : n.call[p].op = "icmp" => n.icmp[n.call[p].slot].head < IcmpQsiz

NetGood(n) ==
  /\ NetTypes(n)
  /\ WaitersFit(n)
  /\ Agrees("arp") => Heard(n) /\ Asked(n)
  /\ Accounts => Rings(n)

\* The buffers that are somewhere.
CallSum(n) == SumFunctionOnSet([p \in DOMAIN n.call |-> HeldBy(n.call[p])], DOMAIN n.call)
UdpSum(n) == SumFunctionOnSet([s \in UdpSlot |-> Len(n.udp[s].q)], UdpSlot)
IcmpSum(n) == SumFunctionOnSet([s \in IcmpSlot |-> InRing(n.icmp[s].ring)], IcmpSlot)
Total(n) == n.free + Len(n.oq) + HeldBy(n.netin) + CallSum(n) + UdpSum(n) + IcmpSum(n)

\* Tables m that a handler makes of n, which puts back d of the buffers that its
\* caller has in hand.
Gives(n, m, d) == NetGood(m) /\ (Accounts => m.ruined = n.ruined /\ Total(m) = Total(n) + d)

NetInv == NetGood(nw) /\ (Accounts => ~nw.ruined /\ NetBufs = Total(nw))

-------------------------------------------------------------------------------
(* The sums *)

LEMMA SlotSets ==
  /\ IsFiniteSet(UdpSlot) /\ IsFiniteSet(IcmpSlot) /\ IsFiniteSet(ArpSlot)
<1>1. \A k \in Int : IsFiniteSet(0 .. k)
  BY FS_Interval
<1> QED
  BY <1>1, NetConst DEF UdpSlot, IcmpSlot, ArpSlot

LEMMA HeldIs ==
  ASSUME NEW c
  PROVE  /\ HeldBy(c) \in Int
         /\ c.op \in {"read", "echo", "arp"} => HeldBy(c) = 1
         /\ c.op \notin {"read", "echo", "arp"} => HeldBy(c) = 0
  BY DEF HeldBy

LEMMA RingIs ==
  ASSUME NEW n \in Net, NEW s \in IcmpSlot
  PROVE  InRing(n.icmp[s].ring) \in Int
<1> DEFINE r == n.icmp[s].ring
<1>1. r \in [0 .. IcmpQsiz - 1 -> Packet]
  BY IcmpParts
<1> HIDE DEF r
<1>2. 0 \in 0 .. IcmpQsiz - 1 /\ NoPacket \in Packet
  BY NetConst, Members
<1>3. InRing(r) \in Nat
  BY <1>1, <1>2, RingCount
<1> QED
  BY <1>3 DEF r

LEMMA SumsAre ==
  ASSUME NEW n \in Net
  PROVE  /\ CallSum(n) \in Int /\ UdpSum(n) \in Int /\ IcmpSum(n) \in Int
         /\ Len(n.oq) \in Int /\ n.free \in Int /\ Total(n) \in Int
<1>1. ASSUME NEW f, NEW T, IsFiniteSet(T), \A x \in T : f[x] \in Int
      PROVE  SumFunctionOnSet(f, T) \in Int
  BY <1>1, SumSplit
<1>2. CallSum(n) \in Int
  <2> DEFINE f == [p \in DOMAIN n.call |-> HeldBy(n.call[p])]
  <2>1. IsFiniteSet(DOMAIN n.call)
    BY NetConst, NetParts
  <2>2. \A p \in DOMAIN n.call : f[p] \in Int
    BY HeldIs
  <2> HIDE DEF f
  <2> QED
    BY <1>1, <2>1, <2>2 DEF CallSum, f
<1>3. UdpSum(n) \in Int
  <2> DEFINE f == [s \in UdpSlot |-> Len(n.udp[s].q)]
  <2>1. \A s \in UdpSlot : f[s] \in Int
    BY UdpParts
  <2> HIDE DEF f
  <2> QED
    BY <1>1, <2>1, SlotSets DEF UdpSum, f
<1>4. IcmpSum(n) \in Int
  <2> DEFINE f == [s \in IcmpSlot |-> InRing(n.icmp[s].ring)]
  <2>1. \A s \in IcmpSlot : f[s] \in Int
    BY RingIs
  <2> HIDE DEF f
  <2> QED
    BY <1>1, <2>1, SlotSets DEF IcmpSum, f
<1>5. Len(n.oq) \in Int /\ n.free \in Int /\ HeldBy(n.netin) \in Int
  BY NetParts, HeldIs
<1> HIDE DEF CallSum, UdpSum, IcmpSum
<1> QED
  BY <1>2, <1>3, <1>4, <1>5 DEF Total

\* One call, one endpoint or one ring has changed.
LEMMA CallSumFacts ==
  ASSUME NEW n \in Net, NEW m \in Net
  PROVE  /\ m.call = n.call => CallSum(m) = CallSum(n)
         /\ \A p \in Proc : (\A q \in Proc \ {p} : m.call[q] = n.call[q]) =>
              CallSum(m) = CallSum(n) - HeldBy(n.call[p]) + HeldBy(m.call[p])
<1>1. m.call = n.call => CallSum(m) = CallSum(n)
  BY DEF CallSum
<1>2. ASSUME NEW p \in Proc, \A q \in Proc \ {p} : m.call[q] = n.call[q]
      PROVE  CallSum(m) = CallSum(n) - HeldBy(n.call[p]) + HeldBy(m.call[p])
  <2> DEFINE f == [q \in Proc |-> HeldBy(n.call[q])]
             h == [q \in Proc |-> HeldBy(m.call[q])]
  <2>1. CallSum(n) = SumFunctionOnSet(f, Proc) /\ CallSum(m) = SumFunctionOnSet(h, Proc)
    BY NetParts DEF CallSum
  <2>2. \A q \in Proc : f[q] \in Int /\ h[q] \in Int
    BY HeldIs
  <2>3. \A q \in Proc \ {p} : h[q] = f[q]
    BY <1>2
  <2>4. f[p] = HeldBy(n.call[p]) /\ h[p] = HeldBy(m.call[p])
    OBVIOUS
  <2> HIDE DEF f, h
  <2>5. SumFunctionOnSet(h, Proc) = SumFunctionOnSet(f, Proc) - f[p] + h[p]
    BY <2>2, <2>3, NetConst, SumChange
  <2> QED
    BY <2>1, <2>4, <2>5
<1> QED
  BY <1>1, <1>2

LEMMA UdpSumFacts ==
  ASSUME NEW n \in Net, NEW m \in Net
  PROVE  /\ m.udp = n.udp => UdpSum(m) = UdpSum(n)
         /\ \A s \in UdpSlot : (\A r \in UdpSlot \ {s} : m.udp[r] = n.udp[r]) =>
              UdpSum(m) = UdpSum(n) - Len(n.udp[s].q) + Len(m.udp[s].q)
<1>1. m.udp = n.udp => UdpSum(m) = UdpSum(n)
  BY DEF UdpSum
<1>2. ASSUME NEW s \in UdpSlot, \A r \in UdpSlot \ {s} : m.udp[r] = n.udp[r]
      PROVE  UdpSum(m) = UdpSum(n) - Len(n.udp[s].q) + Len(m.udp[s].q)
  <2> DEFINE f == [r \in UdpSlot |-> Len(n.udp[r].q)]
             h == [r \in UdpSlot |-> Len(m.udp[r].q)]
  <2>1. UdpSum(n) = SumFunctionOnSet(f, UdpSlot) /\ UdpSum(m) = SumFunctionOnSet(h, UdpSlot)
    BY DEF UdpSum
  <2>2. \A r \in UdpSlot : f[r] \in Int /\ h[r] \in Int
    BY UdpParts
  <2>3. \A r \in UdpSlot \ {s} : h[r] = f[r]
    BY <1>2
  <2>4. f[s] = Len(n.udp[s].q) /\ h[s] = Len(m.udp[s].q)
    OBVIOUS
  <2> HIDE DEF f, h
  <2>5. SumFunctionOnSet(h, UdpSlot) = SumFunctionOnSet(f, UdpSlot) - f[s] + h[s]
    BY <2>2, <2>3, SlotSets, SumChange
  <2> QED
    BY <2>1, <2>4, <2>5
<1> QED
  BY <1>1, <1>2

LEMMA IcmpSumFacts ==
  ASSUME NEW n \in Net, NEW m \in Net
  PROVE  /\ m.icmp = n.icmp => IcmpSum(m) = IcmpSum(n)
         /\ \A s \in IcmpSlot : (\A r \in IcmpSlot \ {s} : m.icmp[r] = n.icmp[r]) =>
              IcmpSum(m) = IcmpSum(n) - InRing(n.icmp[s].ring) + InRing(m.icmp[s].ring)
<1>1. m.icmp = n.icmp => IcmpSum(m) = IcmpSum(n)
  BY DEF IcmpSum
<1>2. ASSUME NEW s \in IcmpSlot, \A r \in IcmpSlot \ {s} : m.icmp[r] = n.icmp[r]
      PROVE  IcmpSum(m) = IcmpSum(n) - InRing(n.icmp[s].ring) + InRing(m.icmp[s].ring)
  <2> DEFINE f == [r \in IcmpSlot |-> InRing(n.icmp[r].ring)]
             h == [r \in IcmpSlot |-> InRing(m.icmp[r].ring)]
  <2>1. IcmpSum(n) = SumFunctionOnSet(f, IcmpSlot) /\ IcmpSum(m) = SumFunctionOnSet(h, IcmpSlot)
    BY DEF IcmpSum
  <2>2. \A r \in IcmpSlot : f[r] \in Int /\ h[r] \in Int
    BY RingIs
  <2>3. \A r \in IcmpSlot \ {s} : h[r] = f[r]
    BY <1>2
  <2>4. f[s] = InRing(n.icmp[s].ring) /\ h[s] = InRing(m.icmp[s].ring)
    OBVIOUS
  <2> HIDE DEF f, h
  <2>5. SumFunctionOnSet(h, IcmpSlot) = SumFunctionOnSet(f, IcmpSlot) - f[s] + h[s]
    BY <2>2, <2>3, SlotSets, SumChange
  <2> QED
    BY <2>1, <2>4, <2>5
<1> QED
  BY <1>1, <1>2

-------------------------------------------------------------------------------
(* Who waits *)

LEMMA TableFacts ==
  /\ "udp" \in Table /\ "icmp" \in Table /\ "arp" \in Table
  /\ SlotOf("udp") = UdpSlot /\ SlotOf("icmp") = IcmpSlot /\ SlotOf("arp") = ArpSlot
  /\ \A t \in Table : t = "udp" \/ t = "icmp" \/ t = "arp"
  /\ \A t \in Table : Agrees(t) => Marks
  /\ Accounts => Agrees("udp") /\ Agrees("icmp") /\ Marks
  BY DEF Table, SlotOf, Agrees, Marks, Accounts

LEMMA EntryIs ==
  ASSUME NEW n, NEW s
  PROVE  /\ Open(n, "udp", s) <=> n.udp[s].state = "recv"
         /\ Open(n, "icmp", s) <=> n.icmp[s].state = "recv"
         /\ Open(n, "arp", s) <=> n.arp[s].state = "pending"
         /\ Owner(n, "udp", s) = n.udp[s].pid
         /\ Owner(n, "icmp", s) = n.icmp[s].pid
         /\ Owner(n, "arp", s) = n.arp[s].pid
         /\ Full(n, "udp", s) <=> n.udp[s].state # "free" /\ n.udp[s].q # <<>>
         /\ Full(n, "icmp", s) <=> n.icmp[s].state # "free" /\ n.icmp[s].count > 0
         /\ Full(n, "arp", s) <=> n.arp[s].state = "resolved"
<1>1. /\ Open(n, "udp", s) <=> n.udp[s].state = "recv"
      /\ Open(n, "icmp", s) <=> n.icmp[s].state = "recv"
      /\ Open(n, "arp", s) <=> n.arp[s].state = "pending"
  BY DEF Open
<1>2. /\ Owner(n, "udp", s) = n.udp[s].pid
      /\ Owner(n, "icmp", s) = n.icmp[s].pid
      /\ Owner(n, "arp", s) = n.arp[s].pid
  BY DEF Owner
<1>3. /\ Full(n, "udp", s) <=> n.udp[s].state # "free" /\ n.udp[s].q # <<>>
      /\ Full(n, "icmp", s) <=> n.icmp[s].state # "free" /\ n.icmp[s].count > 0
      /\ Full(n, "arp", s) <=> n.arp[s].state = "resolved"
  BY DEF Full
<1> QED
  BY <1>1, <1>2, <1>3

\* A slot looks the same, and a change of one slot and of the processes in it.
Same(n, m, t, s) ==
  /\ Open(m, t, s) <=> Open(n, t, s)
  /\ Owner(m, t, s) = Owner(n, t, s)
  /\ Full(m, t, s) <=> Full(n, t, s)
Touches(n, m, t, s, P) ==
  /\ \A u \in Table : \A r \in SlotOf(u) : u # t \/ r # s => Same(n, m, u, r)
  /\ \A q \in Proc \ P : /\ m.mail[q] = n.mail[q]
                         /\ \A u \in Table : \A r \in SlotOf(u) : In(m, q, u, r) <=> In(n, q, u, r)
  /\ \A q \in P : \A u \in Table : \A r \in SlotOf(u) : In(n, q, u, r) \/ In(m, q, u, r) => u = t /\ r = s

LEMMA SameSlots ==
  ASSUME NEW n \in Net, NEW m \in Net
  PROVE  /\ \A r \in UdpSlot : m.udp[r] = n.udp[r] => Same(n, m, "udp", r)
         /\ \A r \in IcmpSlot : m.icmp[r] = n.icmp[r] => Same(n, m, "icmp", r)
         /\ \A r \in ArpSlot : m.arp[r] = n.arp[r] => Same(n, m, "arp", r)
<1>1. ASSUME NEW r \in UdpSlot, m.udp[r] = n.udp[r]
      PROVE  Same(n, m, "udp", r)
  BY <1>1, EntryIs DEF Same
<1>2. ASSUME NEW r \in IcmpSlot, m.icmp[r] = n.icmp[r]
      PROVE  Same(n, m, "icmp", r)
  BY <1>2, EntryIs DEF Same
<1>3. ASSUME NEW r \in ArpSlot, m.arp[r] = n.arp[r]
      PROVE  Same(n, m, "arp", r)
  BY <1>3, EntryIs DEF Same
<1> QED
  BY <1>1, <1>2, <1>3

LEMMA OneSlotChanges ==
  ASSUME NEW n \in Net, NEW m \in Net
  PROVE  /\ \A s \in UdpSlot :
              m.icmp = n.icmp /\ m.arp = n.arp /\ (\A r \in UdpSlot \ {s} : m.udp[r] = n.udp[r])
              => \A u \in Table : \A r \in SlotOf(u) : u # "udp" \/ r # s => Same(n, m, u, r)
         /\ \A s \in IcmpSlot :
              m.udp = n.udp /\ m.arp = n.arp /\ (\A r \in IcmpSlot \ {s} : m.icmp[r] = n.icmp[r])
              => \A u \in Table : \A r \in SlotOf(u) : u # "icmp" \/ r # s => Same(n, m, u, r)
         /\ \A s \in ArpSlot :
              m.udp = n.udp /\ m.icmp = n.icmp /\ (\A r \in ArpSlot \ {s} : m.arp[r] = n.arp[r])
              => \A u \in Table : \A r \in SlotOf(u) : u # "arp" \/ r # s => Same(n, m, u, r)
  BY SameSlots, TableFacts

LEMMA TouchKeeps ==
  ASSUME NEW n, NEW m, WaitersFit(n), NEW t \in Table, NEW s \in SlotOf(t), NEW P \in SUBSET Proc,
         Touches(n, m, t, s, P), Marks => MarkedAt(m, t, s), Agrees(t) => AgreedAt(m, t, s)
  PROVE  WaitersFit(m)
<1>1. ASSUME Marks, NEW u \in Table, NEW r \in SlotOf(u), u # t \/ r # s
      PROVE  MarkedAt(m, u, r)
  <2> SUFFICES ASSUME Open(m, u, r)
               PROVE  LET p == Owner(m, u, r) IN p \in Proc /\ In(m, p, u, r) /\ m.mail[p] = NoMail
    BY DEF MarkedAt
  <2> DEFINE p == Owner(n, u, r)
  <2>1. Open(n, u, r) /\ Owner(m, u, r) = p
    BY <1>1 DEF Touches, Same
  <2>2. p \in Proc /\ In(n, p, u, r) /\ n.mail[p] = NoMail
    BY <1>1, <2>1 DEF WaitersFit, MarkedAt
  <2> HIDE DEF p
  <2>3. p \notin P
    BY <1>1, <2>2 DEF Touches
  <2>4. In(m, p, u, r) /\ m.mail[p] = NoMail
    BY <2>2, <2>3 DEF Touches
  <2> QED
    BY <2>1, <2>2, <2>4
<1>2. ASSUME NEW u \in Table, Agrees(u), NEW r \in SlotOf(u), u # t \/ r # s
      PROVE  AgreedAt(m, u, r)
  <2>1. AgreedAt(n, u, r) /\ Same(n, m, u, r)
    BY <1>2 DEF WaitersFit, Touches
  <2>2. ASSUME NEW p \in Proc, In(m, p, u, r)
        PROVE  In(n, p, u, r) /\ m.mail[p] = n.mail[p]
    <3>1. p \notin P
      BY <1>2, <2>2 DEF Touches
    <3> QED
      BY <2>2, <3>1 DEF Touches
  <2> SUFFICES ASSUME NEW p \in Proc, In(m, p, u, r)
               PROVE  /\ m.mail[p] = NoMail => Open(m, u, r) /\ Owner(m, u, r) = p /\ ~Full(m, u, r)
                      /\ m.mail[p] # NoMail => Full(m, u, r)
                      /\ \A q \in Proc : In(m, q, u, r) => q = p
    BY DEF AgreedAt
  <2>3. In(n, p, u, r) /\ m.mail[p] = n.mail[p]
    BY <2>2
  <2>4. /\ n.mail[p] = NoMail => Open(n, u, r) /\ Owner(n, u, r) = p /\ ~Full(n, u, r)
        /\ n.mail[p] # NoMail => Full(n, u, r)
        /\ \A q \in Proc : In(n, q, u, r) => q = p
    BY <2>1, <2>3 DEF AgreedAt
  <2> QED
    BY <2>1, <2>2, <2>3, <2>4 DEF Same
<1>3. Marks => \A u \in Table : \A r \in SlotOf(u) : MarkedAt(m, u, r)
  BY <1>1
<1>4. \A u \in Table : Agrees(u) => \A r \in SlotOf(u) : AgreedAt(m, u, r)
  BY <1>2
<1> QED
  BY <1>3, <1>4 DEF WaitersFit

\* Nothing of it changes.
LEMMA QuietKeeps ==
  ASSUME NEW n \in Net, NEW m \in Net, WaitersFit(n),
         m.arp = n.arp, m.udp = n.udp, m.icmp = n.icmp, m.mail = n.mail,
         \A p \in Proc : \A t \in Table : \A s \in SlotOf(t) : In(m, p, t, s) <=> In(n, p, t, s)
  PROVE  WaitersFit(m)
<1>1. \A t \in Table : \A s \in SlotOf(t) : Same(n, m, t, s)
  BY SameSlots, TableFacts
<1>2. \A t \in Table : \A s \in SlotOf(t) : MarkedAt(n, t, s) => MarkedAt(m, t, s)
  BY <1>1 DEF MarkedAt, Same
<1>3. \A t \in Table : \A s \in SlotOf(t) : AgreedAt(n, t, s) => AgreedAt(m, t, s)
  BY <1>1 DEF AgreedAt, Same
<1> QED
  BY <1>2, <1>3 DEF WaitersFit

-------------------------------------------------------------------------------
(* What keeps the invariant *)

LEMMA ArpKept ==
  ASSUME NEW n, NEW m, Heard(n), Asked(n), m.arp = n.arp, m.frame.hw = m.frame.hop,
         \A p \in Proc : m.call[p].op = "arp" => m.call[p] = n.call[p]
  PROVE  Heard(m) /\ Asked(m)
  BY DEF Heard, Asked

LEMMA RingsKept ==
  ASSUME NEW n, NEW m, Rings(n), m.icmp = n.icmp,
         \A s \in UdpSlot : m.udp[s].state = "free" => m.udp[s].q = <<>>,
         \A p \in Proc : m.call[p].op = "icmp" => m.call[p] = n.call[p]
  PROVE  Rings(m)
  BY DEF Rings

\* Neither a table nor a call changes.
LEMMA QuietGood ==
  ASSUME NEW n, NetGood(n), NEW m \in Net,
         AllBut({"free", "valid", "oq", "netin", "frame", "ruined"}, n, m),
         m.oq \in Seq(Replies), CallFits(m.netin), m.netin.op \in {"getbuf", "read", "echo"},
         Agrees("arp") => m.frame.hw = m.frame.hop
  PROVE  /\ NetGood(m)
         /\ Total(m) = Total(n) + (m.free - n.free) + (Len(m.oq) - Len(n.oq))
                       + (HeldBy(m.netin) - HeldBy(n.netin))
         /\ m.oq = n.oq /\ m.netin = n.netin => Total(m) = Total(n) + (m.free - n.free)
         /\ m.free = n.free /\ m.netin = n.netin => Total(m) = Total(n) + (Len(m.oq) - Len(n.oq))
         /\ m.free = n.free /\ m.oq = n.oq => Total(m) = Total(n) + (HeldBy(m.netin) - HeldBy(n.netin))
         /\ m.free = n.free /\ m.oq = n.oq /\ m.netin = n.netin => Total(m) = Total(n) + 0
<1>1. n \in Net
  BY DEF NetGood, NetTypes
<1>2. m.arp = n.arp /\ m.udp = n.udp /\ m.icmp = n.icmp /\ m.mail = n.mail /\ m.call = n.call
  BY DEF AllBut
<1>3. NetTypes(m)
  BY <1>2 DEF NetGood, NetTypes
<1>4. WaitersFit(m)
  <2>1. WaitersFit(n) /\ \A p \in Proc : \A t \in Table : \A s \in SlotOf(t) : In(m, p, t, s) <=> In(n, p, t, s)
    BY <1>2 DEF NetGood, In
  <2> QED
    BY <1>1, <1>2, <2>1, QuietKeeps
<1>5. Agrees("arp") => Heard(m) /\ Asked(m)
  BY <1>2, ArpKept DEF NetGood
<1>6. Accounts => Rings(m)
  <2>1. ASSUME Rings(n)
        PROVE  Rings(m)
    BY <1>2, <2>1 DEF Rings
  <2> QED
    BY <2>1 DEF NetGood
<1>7. CallSum(m) = CallSum(n) /\ UdpSum(m) = UdpSum(n) /\ IcmpSum(m) = IcmpSum(n)
  BY <1>1, <1>2, CallSumFacts, UdpSumFacts, IcmpSumFacts
<1>8. /\ Total(m) = m.free + Len(m.oq) + HeldBy(m.netin) + CallSum(n) + UdpSum(n) + IcmpSum(n)
      /\ Total(n) = n.free + Len(n.oq) + HeldBy(n.netin) + CallSum(n) + UdpSum(n) + IcmpSum(n)
  BY <1>7 DEF Total
<1>9. /\ CallSum(n) \in Int /\ UdpSum(n) \in Int /\ IcmpSum(n) \in Int
      /\ Len(n.oq) \in Int /\ n.free \in Int /\ HeldBy(n.netin) \in Int
      /\ Len(m.oq) \in Int /\ m.free \in Int /\ HeldBy(m.netin) \in Int
  BY <1>1, SumsAre, HeldIs
<1>10. /\ Total(m) = Total(n) + (m.free - n.free) + (Len(m.oq) - Len(n.oq))
                       + (HeldBy(m.netin) - HeldBy(n.netin))
       /\ m.oq = n.oq /\ m.netin = n.netin => Total(m) = Total(n) + (m.free - n.free)
       /\ m.free = n.free /\ m.netin = n.netin => Total(m) = Total(n) + (Len(m.oq) - Len(n.oq))
       /\ m.free = n.free /\ m.oq = n.oq => Total(m) = Total(n) + (HeldBy(m.netin) - HeldBy(n.netin))
       /\ m.free = n.free /\ m.oq = n.oq /\ m.netin = n.netin => Total(m) = Total(n) + 0
  <2> DEFINE a == n.free b == Len(n.oq) c == HeldBy(n.netin)
             x == m.free y == Len(m.oq) z == HeldBy(m.netin)
             u == CallSum(n) v == UdpSum(n) w == IcmpSum(n)
             T == Total(m) S == Total(n)
  <2>1. /\ a \in Int /\ b \in Int /\ c \in Int /\ x \in Int /\ y \in Int /\ z \in Int
        /\ u \in Int /\ v \in Int /\ w \in Int
    BY <1>9
  <2>2. T = x + y + z + u + v + w /\ S = a + b + c + u + v + w
    BY <1>8
  <2>3. (m.free = n.free => x = a) /\ (m.oq = n.oq => y = b) /\ (m.netin = n.netin => z = c)
    OBVIOUS
  <2> HIDE DEF a, b, c, x, y, z, u, v, w, T, S
  <2>4. /\ T = S + (x - a) + (y - b) + (z - c)
        /\ y = b /\ z = c => T = S + (x - a)
        /\ x = a /\ z = c => T = S + (y - b)
        /\ x = a /\ y = b => T = S + (z - c)
        /\ x = a /\ y = b /\ z = c => T = S + 0
    BY <2>1, <2>2
  <2>5. /\ T = S + (x - a) + (y - b) + (z - c)
        /\ m.oq = n.oq /\ m.netin = n.netin => T = S + (x - a)
        /\ m.free = n.free /\ m.netin = n.netin => T = S + (y - b)
        /\ m.free = n.free /\ m.oq = n.oq => T = S + (z - c)
        /\ m.free = n.free /\ m.oq = n.oq /\ m.netin = n.netin => T = S + 0
    BY <2>3, <2>4
  <2> QED
    BY <2>5 DEF a, b, c, x, y, z, T, S
<1>11. NetGood(m)
  BY <1>3, <1>4, <1>5, <1>6 DEF NetGood
<1> QED
  BY <1>10, <1>11

\* One slot changes, and what the processes P, who are in that slot or in none, wait in.
Within(c, t, s) == c.op \in Table => c.op = t /\ c.slot = s
LEMMA SlotGood ==
  ASSUME NEW n, NetGood(n), NEW m \in Net, NEW t \in Table, NEW s \in SlotOf(t), NEW P \in SUBSET Proc,
         AllBut({"arp", "udp", "icmp", "mail", "call", "free", "ruined"}, n, m),
         \A u \in Table : \A r \in SlotOf(u) : u # t \/ r # s => Same(n, m, u, r),
         \A q \in Proc \ P : m.mail[q] = n.mail[q] /\ m.call[q] = n.call[q],
         Marks => \A q \in P : Within(n.call[q], t, s) /\ Within(m.call[q], t, s),
         \A q \in P : CallFits(m.call[q]),
         IpOut \in P => m.call[IpOut].op \in {"none", "arp"},
         Marks => MarkedAt(m, t, s), Agrees(t) => AgreedAt(m, t, s),
         \A r \in IcmpSlot : RingFits(m.icmp[r]),
         Agrees("arp") => Heard(m) /\ Asked(m), Accounts => Rings(m)
  PROVE  NetGood(m)
<1>1. NetTypes(m)
  <2>1. /\ \A p \in Proc : CallFits(n.call[p])
        /\ CallFits(n.netin) /\ n.netin.op \in {"getbuf", "read", "echo"}
        /\ n.call[IpOut].op \in {"none", "arp"} /\ n.oq \in Seq(Replies)
    BY DEF NetGood, NetTypes
  <2>2. m.netin = n.netin /\ m.oq = n.oq
    BY DEF AllBut
  <2>3. \A p \in Proc : CallFits(m.call[p])
    BY <2>1
  <2>4. m.call[IpOut].op \in {"none", "arp"}
    BY <2>1, NetConst
  <2> QED
    BY <2>1, <2>2, <2>3, <2>4 DEF NetTypes
<1>2. Marks => Touches(n, m, t, s, P)
  <2>1. \A q \in Proc \ P : \A u \in Table : \A r \in SlotOf(u) : In(m, q, u, r) <=> In(n, q, u, r)
    BY DEF In
  <2>2. Marks => \A q \in P : \A u \in Table : \A r \in SlotOf(u) :
          In(n, q, u, r) \/ In(m, q, u, r) => u = t /\ r = s
    BY DEF In, Within
  <2> QED
    BY <2>1, <2>2 DEF Touches
<1>3. WaitersFit(m)
  <2>1. WaitersFit(n)
    BY DEF NetGood
  <2>2. CASE Marks
    BY <1>2, <2>1, <2>2, TouchKeeps
  <2>3. CASE ~Marks
    BY <2>3, TableFacts DEF WaitersFit
  <2> QED
    BY <2>2, <2>3
<1> QED
  BY <1>1, <1>3 DEF NetGood

\* The call of a process that does not wait in a table, before or after.
LEMMA CallGood ==
  ASSUME NEW n, NetGood(n), NEW m \in Net, NEW p \in Proc, AllBut({"call"}, n, m),
         \A q \in Proc \ {p} : m.call[q] = n.call[q],
         n.call[p].op \notin Table, m.call[p].op \notin Table, CallFits(m.call[p]),
         p = IpOut => m.call[p].op = "none"
  PROVE  NetGood(m) /\ Total(m) = Total(n) - HeldBy(n.call[p]) + HeldBy(m.call[p])
<1>1. n \in Net
  BY DEF NetGood, NetTypes
<1>2. /\ m.arp = n.arp /\ m.udp = n.udp /\ m.icmp = n.icmp /\ m.mail = n.mail /\ m.free = n.free
      /\ m.oq = n.oq /\ m.netin = n.netin /\ m.frame = n.frame /\ m.ruined = n.ruined
  BY DEF AllBut
<1>3. NetTypes(m)
  <2>1. \A q \in Proc : CallFits(m.call[q])
    BY DEF NetGood, NetTypes
  <2>2. m.call[IpOut].op \in {"none", "arp"}
    BY NetConst DEF NetGood, NetTypes
  <2> QED
    BY <1>2, <2>1, <2>2 DEF NetGood, NetTypes
<1>4. WaitersFit(m)
  <2>1. WaitersFit(n) /\ \A q \in Proc : \A t \in Table : \A s \in SlotOf(t) : In(m, q, t, s) <=> In(n, q, t, s)
    BY DEF NetGood, In
  <2> QED
    BY <1>1, <1>2, <2>1, QuietKeeps
<1>5. Agrees("arp") => Heard(m) /\ Asked(m)
  <2>1. \A q \in Proc : m.call[q].op = "arp" => m.call[q] = n.call[q]
    BY TableFacts
  <2>2. ASSUME Heard(n), Asked(n)
        PROVE  Heard(m) /\ Asked(m)
    <3>1. m.frame.hw = m.frame.hop
      BY <1>2, <2>2 DEF Heard
    <3> QED
      BY <1>2, <2>1, <2>2, <3>1, ArpKept
  <2> QED
    BY <2>2 DEF NetGood
<1>6. Accounts => Rings(m)
  <2>1. \A q \in Proc : m.call[q].op = "icmp" => m.call[q] = n.call[q]
    BY TableFacts
  <2>2. ASSUME Rings(n)
        PROVE  Rings(m)
    <3>1. \A s \in UdpSlot : m.udp[s].state = "free" => m.udp[s].q = <<>>
      BY <1>2, <2>2 DEF Rings
    <3> QED
      BY <1>2, <2>1, <2>2, <3>1, RingsKept
  <2> QED
    BY <2>2 DEF NetGood
<1>7. /\ CallSum(m) = CallSum(n) - HeldBy(n.call[p]) + HeldBy(m.call[p])
      /\ UdpSum(m) = UdpSum(n) /\ IcmpSum(m) = IcmpSum(n)
  BY <1>1, <1>2, CallSumFacts, UdpSumFacts, IcmpSumFacts
<1>8. /\ CallSum(n) \in Int /\ UdpSum(n) \in Int /\ IcmpSum(n) \in Int
      /\ Len(n.oq) \in Int /\ n.free \in Int /\ HeldBy(n.netin) \in Int
      /\ HeldBy(n.call[p]) \in Int /\ HeldBy(m.call[p]) \in Int
  BY <1>1, SumsAre, HeldIs
<1>9. Total(m) = Total(n) - HeldBy(n.call[p]) + HeldBy(m.call[p])
  <2> DEFINE f == n.free l == Len(n.oq) h == HeldBy(n.netin) u == UdpSum(n) i == IcmpSum(n)
             c == CallSum(n) d == CallSum(m) a == HeldBy(n.call[p]) b == HeldBy(m.call[p])
  <2>1. Total(n) = f + l + h + c + u + i
    BY DEF Total
  <2>2. Total(m) = f + l + h + d + u + i
    BY <1>2, <1>7 DEF Total
  <2>3. /\ f \in Int /\ l \in Int /\ h \in Int /\ u \in Int /\ i \in Int
        /\ a \in Int /\ b \in Int /\ c \in Int /\ d = c - a + b
    BY <1>7, <1>8
  <2> HIDE DEF f, l, h, u, i, a, b, c, d
  <2>4. f + l + h + d + u + i = (f + l + h + c + u + i) - a + b
    BY <2>3
  <2>5. Total(m) = Total(n) - a + b
    BY <2>1, <2>2, <2>4
  <2> QED
    BY <2>5 DEF a, b
<1>10. NetGood(m)
  BY <1>3, <1>4, <1>5, <1>6 DEF NetGood
<1> QED
  BY <1>9, <1>10

\* One handler after another.
LEMMA GivesBoth ==
  ASSUME NEW n, NEW m, NEW l, NEW d \in Int, NEW e \in Int, n \in Net, Gives(n, m, d), Gives(m, l, e)
  PROVE  Gives(n, l, d + e)
<1>1. Total(n) \in Int
  BY SumsAre
<1>2. Accounts => /\ l.ruined = n.ruined /\ Total(m) = Total(n) + d /\ Total(l) = Total(m) + e
  BY DEF Gives
<1>3. Accounts => Total(l) = Total(n) + (d + e)
  BY <1>1, <1>2
<1> QED
  BY <1>2, <1>3 DEF Gives

LEMMA GoodNet ==
  ASSUME NEW n, NetGood(n)
  PROVE  /\ n \in Net /\ n.oq \in Seq(Replies) /\ CallFits(n.netin) /\ n.netin.op \in {"getbuf", "read", "echo"}
         /\ \A p \in Proc : CallFits(n.call[p]) /\ n.call[p] \in NetCalls
         /\ \A s \in IcmpSlot : RingFits(n.icmp[s])
         /\ Agrees("arp") => n.frame.hw = n.frame.hop
         /\ n.call[IpOut].op \in {"none", "arp"}
<1>1. n \in Net
  BY DEF NetGood, NetTypes
<1>2. \A p \in Proc : n.call[p] \in NetCalls
  BY <1>1, NetParts
<1> QED
  BY <1>1, <1>2 DEF NetGood, NetTypes, Heard

-------------------------------------------------------------------------------
(* The handlers that leave the tables alone *)

LEMMA BufferGood ==
  ASSUME NEW n, NetGood(n)
  PROVE  Gives(n, Freed(n), 1) /\ Gives(n, Taken(n), -1)
<1>1. n \in Net
  BY GoodNet
<1>2. /\ Freed(n) \in Net /\ AllBut({"free"}, n, Freed(n)) /\ Freed(n).free = n.free + 1
      /\ Taken(n) \in Net /\ AllBut({"free"}, n, Taken(n)) /\ Taken(n).free = n.free - 1
  BY <1>1, BufferFacts
<1>3. ASSUME NEW m \in Net, AllBut({"free"}, n, m)
      PROVE  NetGood(m) /\ Total(m) = Total(n) + (m.free - n.free) /\ m.ruined = n.ruined
  <2>1. AllBut({"free", "valid", "oq", "netin", "frame", "ruined"}, n, m)
    BY <1>3 DEF AllBut
  <2>2. m.oq = n.oq /\ m.netin = n.netin /\ m.frame = n.frame /\ m.ruined = n.ruined
    BY <1>3 DEF AllBut
  <2>3. NetGood(m) /\ Total(m) = Total(n) + (m.free - n.free)
    BY <1>3, <2>1, <2>2, GoodNet, QuietGood
  <2> QED
    BY <2>2, <2>3
<1> DEFINE f == Freed(n)
           k == Taken(n)
<1>4. /\ NetGood(f) /\ Total(f) = Total(n) + (f.free - n.free) /\ f.ruined = n.ruined
      /\ NetGood(k) /\ Total(k) = Total(n) + (k.free - n.free) /\ k.ruined = n.ruined
  BY <1>2, <1>3
<1>5. f.free = n.free + 1 /\ k.free = n.free - 1 /\ n.free \in Int /\ Total(n) \in Int
  BY <1>1, <1>2, SumsAre
<1> HIDE DEF f, k
<1>6. Total(f) = Total(n) + 1 /\ Total(k) = Total(n) + (-1)
  <2> DEFINE x == f.free y == k.free
  <2> HIDE DEF x, y
  <2>1. x - n.free = 1 /\ y - n.free = -1
    BY <1>5 DEF x, y
  <2> QED
    BY <1>4, <1>5, <2>1 DEF x, y
<1>7. Gives(n, f, 1) /\ Gives(n, k, -1)
  BY <1>4, <1>6 DEF Gives
<1> QED
  BY <1>7 DEF f, k

\* What netin waits for, the address, and the queue of ipout without its first packet.
LEMMA NetinGood ==
  ASSUME NEW n, NetGood(n), NEW c \in NetCalls, CallFits(c), c.op \in {"getbuf", "read", "echo"}
  PROVE  /\ Gives(n, [n EXCEPT !.netin = c], HeldBy(c) - HeldBy(n.netin))
         /\ AllBut({"netin"}, n, [n EXCEPT !.netin = c])
         /\ [n EXCEPT !.netin = c].netin = c
<1> DEFINE m == [n EXCEPT !.netin = c]
<1>1. n \in Net
  BY GoodNet
<1>2. m \in Net /\ AllBut({"netin"}, n, m) /\ m.netin = c
  BY <1>1, PartFacts
<1> HIDE DEF m
<1>3. AllBut({"free", "valid", "oq", "netin", "frame", "ruined"}, n, m)
  BY <1>2 DEF AllBut
<1>4. m.oq = n.oq /\ m.free = n.free /\ m.frame = n.frame /\ m.ruined = n.ruined
  BY <1>2 DEF AllBut
<1>5. NetGood(m) /\ Total(m) = Total(n) + (HeldBy(m.netin) - HeldBy(n.netin))
  BY <1>2, <1>3, <1>4, GoodNet, QuietGood
<1>8. Total(m) = Total(n) + (HeldBy(c) - HeldBy(n.netin))
  BY <1>2, <1>5
<1>9. Gives(n, m, HeldBy(c) - HeldBy(n.netin))
  BY <1>4, <1>5, <1>8 DEF Gives
<1> QED
  BY <1>2, <1>9 DEF m

LEMMA ValidGood ==
  ASSUME NEW n, NetGood(n)
  PROVE  Gives(n, [n EXCEPT !.valid = TRUE], 0)
<1> DEFINE m == [n EXCEPT !.valid = TRUE]
<1>1. n \in Net
  BY GoodNet
<1>2. m \in Net /\ AllBut({"valid"}, n, m)
  BY <1>1, PartFacts
<1> HIDE DEF m
<1>3. AllBut({"free", "valid", "oq", "netin", "frame", "ruined"}, n, m)
  BY <1>2 DEF AllBut
<1>4. m.oq = n.oq /\ m.free = n.free /\ m.frame = n.frame /\ m.ruined = n.ruined /\ m.netin = n.netin
  BY <1>2 DEF AllBut
<1>5. NetGood(m) /\ Total(m) = Total(n) + 0
  BY <1>2, <1>3, <1>4, GoodNet, QuietGood
<1>9. Gives(n, m, 0)
  BY <1>4, <1>5 DEF Gives
<1> QED
  BY <1>9 DEF m

LEMMA OutQueueGood ==
  ASSUME NEW n, NetGood(n)
  PROVE  /\ \A v \in Seq(Replies) :
              /\ Gives(n, [n EXCEPT !.oq = v], Len(v) - Len(n.oq))
              /\ AllBut({"oq"}, n, [n EXCEPT !.oq = v])
<1> SUFFICES ASSUME NEW v \in Seq(Replies)
             PROVE  /\ Gives(n, [n EXCEPT !.oq = v], Len(v) - Len(n.oq))
                    /\ AllBut({"oq"}, n, [n EXCEPT !.oq = v])
  OBVIOUS
<1> DEFINE m == [n EXCEPT !.oq = v]
<1>1. n \in Net
  BY GoodNet
<1>2. m \in Net /\ AllBut({"oq"}, n, m) /\ m.oq = v
  <2>1. v \in Seq(Packet)
    BY Members DEF Replies
  <2> QED
    BY <1>1, <2>1, PartFacts
<1> HIDE DEF m
<1>3. AllBut({"free", "valid", "oq", "netin", "frame", "ruined"}, n, m)
  BY <1>2 DEF AllBut
<1>4. m.free = n.free /\ m.frame = n.frame /\ m.ruined = n.ruined /\ m.netin = n.netin
  BY <1>2 DEF AllBut
<1>5. NetGood(m) /\ Total(m) = Total(n) + (Len(m.oq) - Len(n.oq))
  BY <1>2, <1>3, <1>4, GoodNet, QuietGood
<1>8. Total(m) = Total(n) + (Len(v) - Len(n.oq))
  BY <1>2, <1>5
<1>9. Gives(n, m, Len(v) - Len(n.oq))
  BY <1>4, <1>5, <1>8 DEF Gives
<1> QED
  BY <1>2, <1>9 DEF m

\* A buffer is lost: only where the hazards that lose one are admitted.
LEMMA RuinedGood ==
  ASSUME NEW n, NetGood(n), NEW d \in Int, ~Accounts
  PROVE  Gives(n, [n EXCEPT !.ruined = TRUE], d)
<1> DEFINE m == [n EXCEPT !.ruined = TRUE]
<1>1. n \in Net
  BY GoodNet
<1>2. m \in Net /\ AllBut({"ruined"}, n, m)
  BY <1>1, PartFacts
<1> HIDE DEF m
<1>3. AllBut({"free", "valid", "oq", "netin", "frame", "ruined"}, n, m)
  BY <1>2 DEF AllBut
<1>4. m.oq = n.oq /\ m.frame = n.frame /\ m.netin = n.netin
  BY <1>2 DEF AllBut
<1>5. NetGood(m)
  BY <1>2, <1>3, <1>4, GoodNet, QuietGood
<1> QED
  BY <1>5 DEF Gives, m

\* ip_enqueue
LEMMA IpEnqueueGood ==
  ASSUME NEW n, NetGood(n), NEW pkt \in Replies, "urgent" \in NetHazards \/ ~Overtakes(n)
  PROVE  Gives(n, IpEnqueue(n, pkt), 1)
<1>1. n \in Net /\ n.oq \in Seq(Replies) /\ Len(n.oq) \in Nat
  BY GoodNet
<1>2. CASE OutCount(n) >= IpOqsiz
  BY <1>2, BufferGood DEF IpEnqueue
<1>3. CASE ~(OutCount(n) >= IpOqsiz) /\ Len(n.oq) = IpOqsiz
  <2>1. IpEnqueue(n, pkt) = [n EXCEPT !.ruined = TRUE]
    BY <1>3 DEF IpEnqueue
  <2>2. n.call[IpOut].op = "none"
    <3> SUFFICES ASSUME n.call[IpOut].op # "none"
                 PROVE  FALSE
      OBVIOUS
    <3>1. OutCount(n) = IpOqsiz
      BY <1>3, NetConst DEF OutCount
    <3> QED
      BY <1>3, <3>1, NetConst
  <2>3. "urgent" \in NetHazards
    BY <1>3, <2>2 DEF Overtakes
  <2>4. ~Accounts
    BY <2>3 DEF Accounts
  <2> QED
    BY <2>1, <2>4, RuinedGood
<1>4. CASE ~(OutCount(n) >= IpOqsiz) /\ Len(n.oq) # IpOqsiz
  <2> DEFINE v == Append(n.oq, pkt)
  <2>1. IpEnqueue(n, pkt) = [n EXCEPT !.oq = v]
    BY <1>4 DEF IpEnqueue
  <2>2. v \in Seq(Replies) /\ Len(v) = Len(n.oq) + 1
    BY <1>1
  <2> HIDE DEF v
  <2>3. Gives(n, [n EXCEPT !.oq = v], Len(v) - Len(n.oq))
    BY <2>2, OutQueueGood
  <2>4. Len(v) - Len(n.oq) = 1
    BY <1>1, <2>2
  <2> QED
    BY <2>1, <2>3, <2>4
<1> QED
  BY <1>2, <1>3, <1>4

\* The answer to an echo request.
LEMMA PacketFacts ==
  ASSUME NEW pkt \in Packet, pkt.proto = "icmp"
  PROVE  pkt.src \in Host /\ pkt.ident \in Ident /\ pkt # NoPacket
<1>1. pkt # NoPacket
  BY DEF NoPacket
<1>2. pkt \notin Datagrams
  BY DEF Datagrams
<1>3. pkt \in IpPackets \/ pkt \in Pings
  BY <1>1, <1>2 DEF Packet
<1> QED
  BY <1>1, <1>3, Members

LEMMA EchoGood ==
  ASSUME NEW n, NetGood(n), NEW pkt \in Packet, pkt.proto = "icmp",
         "urgent" \in NetHazards \/ ~Overtakes(n)
  PROVE  Gives(n, Echo(n, pkt), 1)
<1> DEFINE r == EchoReply(n, pkt)
           a == Taken(n)
           b == IpEnqueue(a, r)
<1>1. r \in Replies
  <2>1. Self(n) \in Host /\ pkt.src \in Host /\ pkt.ident \in Ident
    BY Members, PacketFacts DEF Self
  <2> QED
    BY <2>1 DEF EchoReply, IcmpPacket, Replies, Pings
<1>2. n \in Net /\ Gives(n, a, -1) /\ NetGood(a)
  BY GoodNet, BufferGood DEF Gives
<1>3. Overtakes(a) <=> Overtakes(n)
  BY <1>2, BufferFacts DEF Overtakes, AllBut
<1> HIDE DEF r, a
<1>4. Gives(a, b, 1)
  BY <1>1, <1>2, <1>3, IpEnqueueGood
<1> HIDE DEF b
<1>5. NetGood(b)
  BY <1>4 DEF Gives
<1>6. Gives(b, Freed(b), 1)
  BY <1>5, BufferGood
<1>7. a \in Net
  BY <1>2, GoodNet
<1>8. Gives(a, Freed(b), 2)
  <2>1. Gives(a, Freed(b), 1 + 1)
    BY <1>4, <1>6, <1>7, GivesBoth
  <2> QED
    BY <2>1
<1>9. Gives(n, Freed(b), 1)
  <2>1. Gives(n, Freed(b), (-1) + 2)
    BY <1>2, <1>8, GivesBoth
  <2> QED
    BY <2>1
<1> QED
  BY <1>9 DEF Echo, a, b, r

\* ip_out
LEMMA IpFrameGood ==
  ASSUME NEW n, NetGood(n), NEW hop \in Host, NEW hw \in Host, Agrees("arp") => hw = hop
  PROVE  Gives(n, IpFrame(n, hop, hw), 1)
<1> DEFINE v == [hop |-> hop, hw |-> hw]
           a == [n EXCEPT !.frame = v]
<1>1. n \in Net
  BY GoodNet
<1>2. v \in [hop : Host, hw : Host] /\ (Agrees("arp") => v.hw = v.hop)
  OBVIOUS
<1>3. IpFrame(n, hop, hw) = Freed(a)
  BY DEF IpFrame
<1> HIDE DEF v
<1>4. a \in Net /\ AllBut({"frame"}, n, a) /\ a.frame = v
  BY <1>1, <1>2, PartFacts
<1> HIDE DEF a
<1>5. AllBut({"free", "valid", "oq", "netin", "frame", "ruined"}, n, a)
  BY <1>4 DEF AllBut
<1>6. a.oq = n.oq /\ a.free = n.free /\ a.ruined = n.ruined /\ a.netin = n.netin
  BY <1>4 DEF AllBut
<1>7. NetGood(a) /\ Total(a) = Total(n) + 0
  BY <1>2, <1>4, <1>5, <1>6, GoodNet, QuietGood
<1>11. Gives(n, a, 0)
  BY <1>6, <1>7 DEF Gives
<1>12. Gives(a, Freed(a), 1)
  BY <1>7, BufferGood
<1>13. Gives(n, Freed(a), 0 + 1)
  BY <1>1, <1>11, <1>12, GivesBoth
<1> QED
  BY <1>3, <1>13

\* The end of a call, and the beginning of one that waits for a buffer.
LEMMA EndedGood ==
  ASSUME NEW n, NetGood(n), NEW p \in Proc, n.call[p].op \notin Table
  PROVE  Gives(n, Ended(n, p), 0 - HeldBy(n.call[p]))
<1> DEFINE m == Ended(n, p)
<1>1. n \in Net /\ n.call[p] \in NetCalls
  BY GoodNet
<1>2. /\ m \in Net /\ AllBut({"call"}, n, m) /\ m.call[p] = NetIdle
      /\ \A q \in Proc \ {p} : m.call[q] = n.call[q]
  BY <1>1, CallFacts
<1> HIDE DEF m
<1>3. NetIdle.op = "none" /\ NetIdle.op \notin Table /\ CallFits(NetIdle) /\ HeldBy(NetIdle) = 0
  BY DEF NetIdle, Table, CallFits, HeldBy
<1>4. NetGood(m) /\ Total(m) = Total(n) - HeldBy(n.call[p]) + HeldBy(m.call[p])
  BY <1>2, <1>3, CallGood
<1>5. Total(n) \in Int /\ HeldBy(n.call[p]) \in Int
  BY <1>1, SumsAre, HeldIs
<1>6. Total(m) = Total(n) + (0 - HeldBy(n.call[p])) /\ m.ruined = n.ruined
  <2>1. HeldBy(m.call[p]) = 0
    BY <1>2, <1>3
  <2>2. m.ruined = n.ruined
    BY <1>2 DEF AllBut
  <2> QED
    BY <1>4, <1>5, <2>1, <2>2
<1> QED
  BY <1>4, <1>6 DEF Gives, m

LEMMA WaitingGood ==
  ASSUME NEW n, NetGood(n), NEW p \in NetProc, n.call[p].op = "none",
         NEW c \in NetCalls, CallFits(c), c.op \notin Table
  PROVE  Gives(n, Waiting(n, p, c), HeldBy(c))
<1> DEFINE m == Waiting(n, p, c)
<1>1. n \in Net /\ p \in Proc /\ p # IpOut
  BY GoodNet, NetConst DEF Proc
<1>2. /\ m \in Net /\ AllBut({"call"}, n, m) /\ m.call[p] = c
      /\ \A q \in Proc \ {p} : m.call[q] = n.call[q]
  BY <1>1, CallFacts
<1> HIDE DEF m
<1>3. n.call[p].op \notin Table
  BY DEF Table
<1>4. NetGood(m) /\ Total(m) = Total(n) - HeldBy(n.call[p]) + HeldBy(m.call[p])
  BY <1>1, <1>2, <1>3, CallGood
<1>5. Total(n) \in Int /\ HeldBy(n.call[p]) = 0 /\ HeldBy(c) \in Int
  BY <1>1, SumsAre, HeldIs
<1>6. Total(m) = Total(n) + HeldBy(c) /\ m.ruined = n.ruined
  <2>1. HeldBy(m.call[p]) = HeldBy(c)
    BY <1>2
  <2>2. m.ruined = n.ruined
    BY <1>2 DEF AllBut
  <2> QED
    BY <1>4, <1>5, <2>1, <2>2
<1> QED
  BY <1>4, <1>6 DEF Gives, m

-------------------------------------------------------------------------------
(* The handlers of an incoming packet *)

\* The buffers of one endpoint, of one ring, or of the calls have changed.
LEMMA TotalMoves ==
  ASSUME NEW n \in Net, NEW m \in Net, AllBut({"arp", "udp", "icmp", "mail", "call", "free", "ruined"}, n, m)
  PROVE  /\ \A s \in UdpSlot :
              m.icmp = n.icmp /\ CallSum(m) = CallSum(n) /\ (\A r \in UdpSlot \ {s} : m.udp[r] = n.udp[r])
              => Total(m) = Total(n) + (m.free - n.free) + (Len(m.udp[s].q) - Len(n.udp[s].q))
         /\ \A s \in IcmpSlot :
              m.udp = n.udp /\ CallSum(m) = CallSum(n) /\ (\A r \in IcmpSlot \ {s} : m.icmp[r] = n.icmp[r])
              => Total(m) = Total(n) + (m.free - n.free) + (InRing(m.icmp[s].ring) - InRing(n.icmp[s].ring))
         /\ m.udp = n.udp /\ m.icmp = n.icmp
              => Total(m) = Total(n) + (m.free - n.free) + (CallSum(m) - CallSum(n))
<1> DEFINE a == n.free b == Len(n.oq) + HeldBy(n.netin) c == CallSum(n) u == UdpSum(n) i == IcmpSum(n)
           aa == m.free cc == CallSum(m) uu == UdpSum(m) ii == IcmpSum(m)
           T == Total(m) S == Total(n)
<1>1. /\ a \in Int /\ b \in Int /\ c \in Int /\ u \in Int /\ i \in Int
      /\ aa \in Int /\ cc \in Int /\ uu \in Int /\ ii \in Int
  <2>1. Len(n.oq) \in Int /\ HeldBy(n.netin) \in Int
    BY SumsAre, HeldIs
  <2>2. b \in Int
    BY <2>1
  <2> HIDE DEF b
  <2> QED
    BY <2>2, SumsAre
<1>2. T = aa + b + cc + uu + ii /\ S = a + b + c + u + i
  <2>1. m.oq = n.oq /\ m.netin = n.netin
    BY DEF AllBut
  <2>2. T = aa + Len(n.oq) + HeldBy(n.netin) + cc + uu + ii /\ S = a + Len(n.oq) + HeldBy(n.netin) + c + u + i
    BY <2>1 DEF Total
  <2> DEFINE x == Len(n.oq) y == HeldBy(n.netin)
  <2>3. x \in Int /\ y \in Int /\ b = x + y
    BY SumsAre, HeldIs
  <2>4. T = aa + x + y + cc + uu + ii /\ S = a + x + y + c + u + i
    BY <2>2
  <2> HIDE DEF a, b, c, u, i, aa, cc, uu, ii, T, S, x, y
  <2> QED
    BY <1>1, <2>3, <2>4
<1>3. ASSUME NEW s \in UdpSlot, m.icmp = n.icmp, CallSum(m) = CallSum(n),
             \A r \in UdpSlot \ {s} : m.udp[r] = n.udp[r]
      PROVE  Total(m) = Total(n) + (m.free - n.free) + (Len(m.udp[s].q) - Len(n.udp[s].q))
  <2> DEFINE x == Len(n.udp[s].q) y == Len(m.udp[s].q)
  <2>1. x \in Int /\ y \in Int
    BY UdpParts
  <2>2. uu = u - x + y /\ ii = i /\ cc = c
    BY <1>3, UdpSumFacts, IcmpSumFacts
  <2> HIDE DEF a, b, c, u, i, aa, cc, uu, ii, T, S, x, y
  <2>3. T = S + (aa - a) + (y - x)
    BY <1>1, <1>2, <2>1, <2>2
  <2> QED
    BY <2>3 DEF T, S, aa, a, x, y
<1>4. ASSUME NEW s \in IcmpSlot, m.udp = n.udp, CallSum(m) = CallSum(n),
             \A r \in IcmpSlot \ {s} : m.icmp[r] = n.icmp[r]
      PROVE  Total(m) = Total(n) + (m.free - n.free) + (InRing(m.icmp[s].ring) - InRing(n.icmp[s].ring))
  <2> DEFINE x == InRing(n.icmp[s].ring) y == InRing(m.icmp[s].ring)
  <2>1. x \in Int /\ y \in Int
    BY RingIs
  <2>2. ii = i - x + y /\ uu = u /\ cc = c
    BY <1>4, UdpSumFacts, IcmpSumFacts
  <2> HIDE DEF a, b, c, u, i, aa, cc, uu, ii, T, S, x, y
  <2>3. T = S + (aa - a) + (y - x)
    BY <1>1, <1>2, <2>1, <2>2
  <2> QED
    BY <2>3 DEF T, S, aa, a, x, y
<1>5. ASSUME m.udp = n.udp, m.icmp = n.icmp
      PROVE  Total(m) = Total(n) + (m.free - n.free) + (CallSum(m) - CallSum(n))
  <2>1. ii = i /\ uu = u
    BY <1>5, UdpSumFacts, IcmpSumFacts
  <2> HIDE DEF a, b, c, u, i, aa, cc, uu, ii, T, S
  <2>2. T = S + (aa - a) + (cc - c)
    BY <1>1, <1>2, <2>1
  <2> QED
    BY <2>2 DEF T, S, aa, a, cc, c
<1> QED
  BY <1>3, <1>4, <1>5

\* A slot is filled, and its owner, if it is open, is told.
LEMMA WakesGood ==
  ASSUME NEW n, NetGood(n), NEW m \in Net, NEW t \in Table, NEW s \in SlotOf(t),
         AllBut({"arp", "udp", "icmp", "mail"}, n, m),
         \A u \in Table : \A r \in SlotOf(u) : u # t \/ r # s => Same(n, m, u, r),
         \A q \in Proc : m.mail[q] = IF Open(n, t, s) /\ q = Owner(n, t, s) /\ n.mail[q] = NoMail
                                     THEN "ok" ELSE n.mail[q],
         ~Open(m, t, s), Full(m, t, s),
         \A r \in IcmpSlot : RingFits(m.icmp[r]),
         Agrees("arp") => Heard(m) /\ Asked(m), Accounts => Rings(m)
  PROVE  NetGood(m)
<1> DEFINE P == {q \in Proc : Open(n, t, s) /\ q = Owner(n, t, s)}
<1>1. m.call = n.call
  BY DEF AllBut
<1>2. Marks => \A q \in P : Within(n.call[q], t, s) /\ Within(m.call[q], t, s)
  <2> SUFFICES ASSUME Marks, NEW q \in P
               PROVE  Within(n.call[q], t, s) /\ Within(m.call[q], t, s)
    OBVIOUS
  <2>1. MarkedAt(n, t, s)
    BY DEF NetGood, WaitersFit
  <2>2. In(n, q, t, s)
    BY <2>1 DEF MarkedAt
  <2> QED
    BY <1>1, <2>2 DEF In, Within
<1>3. Agrees(t) => AgreedAt(m, t, s)
  <2> SUFFICES ASSUME Agrees(t), NEW p \in Proc, In(m, p, t, s)
               PROVE  m.mail[p] # NoMail /\ \A q \in Proc : In(m, q, t, s) => q = p
    BY DEF AgreedAt
  <2>1. AgreedAt(n, t, s) /\ \A q \in Proc : In(m, q, t, s) <=> In(n, q, t, s)
    BY <1>1 DEF NetGood, WaitersFit, In
  <2>2. /\ n.mail[p] = NoMail => Open(n, t, s) /\ Owner(n, t, s) = p
        /\ \A q \in Proc : In(n, q, t, s) => q = p
    BY <2>1 DEF AgreedAt
  <2>3. m.mail[p] # NoMail
    BY <2>2 DEF NoMail
  <2> QED
    BY <2>1, <2>2, <2>3
<1>4. Marks => MarkedAt(m, t, s)
  BY DEF MarkedAt
<1>5. \A q \in Proc \ P : m.mail[q] = n.mail[q] /\ m.call[q] = n.call[q]
  BY <1>1
<1>6. P \in SUBSET Proc /\ AllBut({"arp", "udp", "icmp", "mail", "call", "free", "ruined"}, n, m)
  BY DEF AllBut
<1>7. (\A q \in P : CallFits(m.call[q])) /\ m.call[IpOut].op \in {"none", "arp"}
  BY <1>1, GoodNet
<1> HIDE DEF P
<1> QED
  BY <1>2, <1>3, <1>4, <1>5, <1>6, <1>7, SlotGood

\* udp_in
LEMMA UdpInGood ==
  ASSUME NEW n, NetGood(n), NEW pkt \in Packet
  PROVE  Gives(n, UdpIn(n, pkt), 1)
<1> DEFINE s == Min(UdpTakers(n, pkt))
           e == n.udp[s]
           m == UdpIn(n, pkt)
<1>1. n \in Net
  BY GoodNet
<1>2. CASE UdpTakers(n, pkt) = {}
  <2>1. UdpIn(n, pkt) = Freed(n)
    BY <1>1, <1>2, UdpInFacts
  <2> QED
    BY <2>1, BufferGood
<1>3. CASE UdpTakers(n, pkt) # {}
  <2>1. /\ m \in Net /\ AllBut({"udp", "mail"}, n, m)
        /\ s \in UdpSlot /\ e.state # "free"
        /\ m.udp[s].state = "used" /\ m.udp[s].q = Append(e.q, pkt)
        /\ \A r \in UdpSlot \ {s} : m.udp[r] = n.udp[r]
        /\ \A q \in Proc : m.mail[q] = IF e.state = "recv" /\ q = e.pid /\ n.mail[q] = NoMail
                                       THEN "ok" ELSE n.mail[q]
    BY <1>1, <1>3, UdpInFacts
  <2> HIDE DEF s, m
  <2>2. AllBut({"arp", "udp", "icmp", "mail"}, n, m) /\ m.icmp = n.icmp /\ m.arp = n.arp /\ m.call = n.call
        /\ m.frame = n.frame /\ m.free = n.free /\ m.ruined = n.ruined
    BY <2>1 DEF AllBut
  <2>3. \A u \in Table : \A r \in SlotOf(u) : u # "udp" \/ r # s => Same(n, m, u, r)
    BY <1>1, <2>1, <2>2, OneSlotChanges
  <2>4. Len(m.udp[s].q) = Len(e.q) + 1 /\ Len(e.q) \in Nat /\ m.udp[s].q # <<>>
    <3>1. e.q \in Seq(Packet) /\ Len(e.q) \in Nat
      BY <1>1, <2>1, UdpParts
    <3> HIDE DEF e
    <3>2. Len(Append(e.q, pkt)) = Len(e.q) + 1 /\ Append(e.q, pkt) # <<>>
      BY <3>1
    <3> QED
      BY <2>1, <3>1, <3>2
  <2>5. /\ ~Open(m, "udp", s) /\ Full(m, "udp", s)
        /\ Open(n, "udp", s) <=> e.state = "recv"
        /\ Owner(n, "udp", s) = e.pid
    BY <2>1, <2>4, EntryIs
  <2>6. Agrees("arp") => Heard(m) /\ Asked(m)
    <3>1. ASSUME Heard(n), Asked(n)
          PROVE  Heard(m) /\ Asked(m)
      BY <2>2, <3>1 DEF Heard, Asked
    <3> QED
      BY <3>1 DEF NetGood
  <2>7. Accounts => Rings(m)
    <3>1. ASSUME Rings(n)
          PROVE  Rings(m)
      <4>1. \A r \in UdpSlot : m.udp[r].state = "free" => m.udp[r].q = <<>>
        BY <2>1, <3>1 DEF Rings
      <4> QED
        BY <2>2, <3>1, <4>1, RingsKept
    <3> QED
      BY <3>1 DEF NetGood
  <2>8. \A r \in IcmpSlot : RingFits(m.icmp[r])
    BY <2>2, GoodNet
  <2>9. NetGood(m)
    <3>1. \A q \in Proc : m.mail[q] = IF Open(n, "udp", s) /\ q = Owner(n, "udp", s) /\ n.mail[q] = NoMail
                                      THEN "ok" ELSE n.mail[q]
      BY <2>1, <2>5
    <3> DEFINE t == "udp"
    <3>2. t \in Table /\ s \in SlotOf(t)
      BY <2>1, TableFacts
    <3>3. /\ \A u \in Table : \A r \in SlotOf(u) : u # t \/ r # s => Same(n, m, u, r)
          /\ \A q \in Proc : m.mail[q] = IF Open(n, t, s) /\ q = Owner(n, t, s) /\ n.mail[q] = NoMail
                                         THEN "ok" ELSE n.mail[q]
          /\ ~Open(m, t, s) /\ Full(m, t, s)
      BY <2>3, <2>5, <3>1
    <3> HIDE DEF t
    <3> QED
      BY <2>1, <2>2, <2>6, <2>7, <2>8, <3>2, <3>3, WakesGood
  <2>10. Total(m) = Total(n) + 1
    <3>1. AllBut({"arp", "udp", "icmp", "mail", "call", "free", "ruined"}, n, m)
      BY <2>2 DEF AllBut
    <3>2. CallSum(m) = CallSum(n)
      BY <1>1, <2>1, <2>2, CallSumFacts
    <3>3. Total(m) = Total(n) + (m.free - n.free) + (Len(m.udp[s].q) - Len(n.udp[s].q))
      BY <1>1, <2>1, <2>2, <3>1, <3>2, TotalMoves
    <3> DEFINE x == Len(m.udp[s].q) y == Len(n.udp[s].q) f == n.free T == Total(m) S == Total(n)
    <3>4. x \in Int /\ x = y + 1 /\ y \in Nat /\ f \in Int /\ S \in Int
      BY <1>1, <2>4, SumsAre
    <3>5. T = S + (f - f) + (x - y)
      BY <2>2, <3>3
    <3> HIDE DEF x, y, f, T, S
    <3>6. T = S + 1
      BY <3>4, <3>5
    <3> QED
      BY <3>6 DEF T, S
  <2> QED
    BY <2>2, <2>9, <2>10 DEF Gives, m
<1> QED
  BY <1>2, <1>3

\* icmp_in, for an echo reply.
LEMMA IcmpReplyGood ==
  ASSUME NEW n, NetGood(n), NEW pkt \in Packet, pkt.proto = "icmp", pkt.type = "reply",
         "flood" \in NetHazards \/ ~Floods(n, pkt)
  PROVE  Gives(n, IcmpReply(n, pkt), 1)
<1> DEFINE s == pkt.ident
           e == n.icmp[s]
           m == IcmpReply(n, pkt)
<1>1. n \in Net
  BY GoodNet
<1>2. CASE ~IcmpWanted(n, pkt)
  <2>1. IcmpReply(n, pkt) = Freed(n)
    BY <1>1, <1>2, IcmpReplyFacts
  <2> QED
    BY <2>1, BufferGood
<1>3. CASE IcmpWanted(n, pkt)
  <2>1. /\ m \in Net /\ AllBut({"icmp", "mail"}, n, m)
        /\ s \in IcmpSlot /\ e.state # "free" /\ m.icmp[s] = Got(e, pkt)
        /\ \A r \in IcmpSlot \ {s} : m.icmp[r] = n.icmp[r]
        /\ \A q \in Proc : m.mail[q] = IF e.state = "recv" /\ q = e.pid /\ n.mail[q] = NoMail
                                       THEN "ok" ELSE n.mail[q]
    BY <1>1, <1>3, IcmpReplyFacts
  <2>2. pkt # NoPacket
    BY PacketFacts
  <2>3. e \in IcmpEntry /\ RingFits(e) /\ e.count \in Nat /\ (Accounts => RingSound(e))
    <3>1. Accounts => RingSound(e)
      BY <2>1 DEF NetGood, Rings
    <3> QED
      BY <1>1, <2>1, <3>1, IcmpParts, GoodNet DEF RingFits
  <2>4. Accounts => e.count < IcmpQsiz
    <3> SUFFICES ASSUME Accounts
                 PROVE  e.count < IcmpQsiz
      OBVIOUS
    <3>1. ~Floods(n, pkt)
      BY DEF Accounts
    <3>2. e.count # IcmpQsiz
      BY <1>3, <3>1 DEF Floods
    <3>3. e.count \in 0 .. IcmpQsiz
      BY <2>3 DEF RingSound
    <3> HIDE DEF e
    <3> QED
      BY <3>2, <3>3, NetConst
  <2> HIDE DEF s, m, e
  <2> DEFINE g == Got(e, pkt)
  <2>5. /\ g.state = "used" /\ g.count = e.count + 1 /\ g.head = e.head /\ RingFits(g)
        /\ Accounts => RingSound(g) /\ InRing(g.ring) = InRing(e.ring) + 1
    BY <2>2, <2>3, <2>4, GotFacts
  <2>6. m.icmp[s] = g
    BY <2>1
  <2> HIDE DEF g
  <2>7. /\ AllBut({"arp", "udp", "icmp", "mail"}, n, m) /\ m.udp = n.udp /\ m.arp = n.arp /\ m.call = n.call
        /\ m.frame = n.frame /\ m.free = n.free /\ m.ruined = n.ruined
    BY <2>1 DEF AllBut
  <2>8. \A u \in Table : \A r \in SlotOf(u) : u # "icmp" \/ r # s => Same(n, m, u, r)
    BY <1>1, <2>1, <2>7, OneSlotChanges
  <2>9. /\ ~Open(m, "icmp", s) /\ Full(m, "icmp", s)
        /\ Open(n, "icmp", s) <=> e.state = "recv"
        /\ Owner(n, "icmp", s) = e.pid
    <3>1. g.count > 0
      BY <2>3, <2>5
    <3> QED
      BY <2>5, <2>6, <3>1, EntryIs DEF e
  <2>10. Agrees("arp") => Heard(m) /\ Asked(m)
    <3>1. ASSUME Heard(n), Asked(n)
          PROVE  Heard(m) /\ Asked(m)
      BY <2>7, <3>1 DEF Heard, Asked
    <3> QED
      BY <3>1 DEF NetGood
  <2>11. \A r \in IcmpSlot : RingFits(m.icmp[r])
    BY <2>1, <2>5, <2>6, GoodNet
  <2>12. Accounts => Rings(m)
    <3> SUFFICES ASSUME Accounts
                 PROVE  Rings(m)
      OBVIOUS
    <3>1. Rings(n)
      BY DEF NetGood
    <3>2. ASSUME NEW p \in Proc, m.call[p].op = "icmp"
          PROVE  m.icmp[m.call[p].slot].head < IcmpQsiz
      <4>1. n.icmp[n.call[p].slot].head < IcmpQsiz
        BY <2>7, <3>1, <3>2 DEF Rings
      <4>2. n.call[p].slot \in IcmpSlot
        BY <2>7, <3>2, GoodNet DEF CallFits
      <4> QED
        BY <2>1, <2>5, <2>6, <2>7, <4>1, <4>2 DEF e
    <3> QED
      BY <2>1, <2>5, <2>6, <2>7, <3>1, <3>2 DEF Rings
  <2>13. NetGood(m)
    <3> DEFINE t == "icmp"
    <3>1. t \in Table /\ s \in SlotOf(t)
      BY <2>1, TableFacts
    <3>2. /\ \A u \in Table : \A r \in SlotOf(u) : u # t \/ r # s => Same(n, m, u, r)
          /\ \A q \in Proc : m.mail[q] = IF Open(n, t, s) /\ q = Owner(n, t, s) /\ n.mail[q] = NoMail
                                         THEN "ok" ELSE n.mail[q]
          /\ ~Open(m, t, s) /\ Full(m, t, s)
      BY <2>1, <2>8, <2>9
    <3> HIDE DEF t
    <3> QED
      BY <2>1, <2>7, <2>10, <2>11, <2>12, <3>1, <3>2, WakesGood
  <2>14. Accounts => Total(m) = Total(n) + 1
    <3> SUFFICES ASSUME Accounts
                 PROVE  Total(m) = Total(n) + 1
      OBVIOUS
    <3>1. AllBut({"arp", "udp", "icmp", "mail", "call", "free", "ruined"}, n, m)
      BY <2>7 DEF AllBut
    <3>2. CallSum(m) = CallSum(n)
      BY <1>1, <2>1, <2>7, CallSumFacts
    <3>3. Total(m) = Total(n) + (m.free - n.free) + (InRing(m.icmp[s].ring) - InRing(n.icmp[s].ring))
      BY <1>1, <2>1, <2>7, <3>1, <3>2, TotalMoves
    <3> DEFINE x == InRing(m.icmp[s].ring) y == InRing(n.icmp[s].ring) f == n.free T == Total(m) S == Total(n)
    <3>4. x \in Int /\ x = y + 1 /\ y \in Int /\ f \in Int /\ S \in Int
      BY <1>1, <2>1, <2>5, <2>6, SumsAre, RingIs DEF e
    <3>5. T = S + (f - f) + (x - y)
      BY <2>7, <3>3
    <3> HIDE DEF x, y, f, T, S
    <3>6. T = S + 1
      BY <3>4, <3>5
    <3> QED
      BY <3>6 DEF T, S
  <2> QED
    BY <2>7, <2>13, <2>14 DEF Gives, m
<1> QED
  BY <1>2, <1>3

\* ip_local
LEMMA IpLocalGood ==
  ASSUME NEW n, NetGood(n), NEW pkt \in Packet, ~Excluded(n, pkt) \/
           (("flood" \in NetHazards \/ ~Floods(n, pkt)) /\ pkt \in Replies)
  PROVE  Gives(n, IpLocal(n, pkt), 1)
<1>1. "flood" \in NetHazards \/ ~Floods(n, pkt)
  BY DEF Excluded
<1>2. CASE pkt.proto = "udp"
  <2>1. IpLocal(n, pkt) = UdpIn(n, pkt)
    BY <1>2 DEF IpLocal
  <2> QED
    BY <2>1, UdpInGood
<1>3. CASE pkt.proto = "icmp" /\ pkt.type = "request"
  <2>1. IpLocal(n, pkt) = Echo(n, pkt)
    BY <1>3 DEF IpLocal
  <2>2. "urgent" \in NetHazards \/ ~Overtakes(n)
    BY <1>3 DEF Excluded, Replies
  <2> QED
    BY <1>3, <2>1, <2>2, EchoGood
<1>4. CASE pkt.proto = "icmp" /\ pkt.type = "reply"
  <2>1. IpLocal(n, pkt) = IcmpReply(n, pkt)
    BY <1>4 DEF IpLocal
  <2> QED
    BY <1>1, <1>4, <2>1, IcmpReplyGood
<1>5. CASE ~(pkt.proto = "udp") /\ ~(pkt.proto = "icmp" /\ pkt.type = "request")
           /\ ~(pkt.proto = "icmp" /\ pkt.type = "reply")
  <2>1. IpLocal(n, pkt) = Freed(n)
    BY <1>5 DEF IpLocal
  <2> QED
    BY <2>1, BufferGood
<1> QED
  BY <1>2, <1>3, <1>4, <1>5

-------------------------------------------------------------------------------
(* The handlers of a packet that is sent *)

LEMMA NewCall ==
  ASSUME NEW op \in {"none", "udp", "icmp", "arp", "send", "sendto", "ping", "echo", "getbuf", "read"},
         NEW slot \in Int, NEW pkt \in Packet
  PROVE  LET c == NetCall(op, slot, pkt) IN
         /\ c \in NetCalls /\ c.op = op /\ c.slot = slot /\ c.pkt = pkt
<1>1. NoAddr \in Host /\ NoPacket \in Packet
  BY Members
<1> DEFINE i == -1
           idle == [op |-> "none", slot |-> i, pkt |-> NoPacket, hop |-> NoAddr, tries |-> 0]
<1>3. NetCall(op, slot, pkt) = [idle EXCEPT !.op = op, !.slot = slot, !.pkt = pkt]
  BY DEF NetCall, NetIdle
<1> HIDE DEF i
<1>2. NetCall(op, slot, pkt) = [op |-> op, slot |-> slot, pkt |-> pkt, hop |-> NoAddr, tries |-> 0]
  BY <1>3
<1> QED
  BY <1>1, <1>2 DEF NetCalls

\* A process begins to wait for an entry of the ARP cache.
LEMMA ArpStartGood ==
  ASSUME NEW n, NetGood(n), NEW p \in Proc, n.call[p].op = "none",
         "recycle" \in NetHazards \/ ~Recycles(n),
         NEW s \in ArpSlot, s = ArpVictim(n.arp), NEW hop \in Host, NEW k \in Net,
         AllBut({"arp", "mail"}, n, k),
         k.arp[s].state = "pending", k.arp[s].pid = p, k.arp[s].addr = hop,
         \A r \in ArpSlot \ {s} : k.arp[r] = n.arp[r],
         k.mail[p] = NoMail, \A q \in Proc \ {p} : k.mail[q] = n.mail[q],
         NEW c \in NetCalls, c.op = "arp", c.slot = s, c.hop = hop
  PROVE  Gives(n, Waiting(k, p, c), 1)
<1> DEFINE m == Waiting(k, p, c)
<1>1. n \in Net
  BY GoodNet
<1>2. /\ m \in Net /\ AllBut({"call"}, k, m) /\ m.call[p] = c
      /\ \A q \in Proc \ {p} : m.call[q] = k.call[q]
  BY CallFacts
<1> HIDE DEF m
<1>3. /\ m.arp = k.arp /\ m.udp = n.udp /\ m.icmp = n.icmp /\ m.mail = k.mail /\ m.free = n.free
      /\ m.frame = n.frame /\ m.ruined = n.ruined /\ k.call = n.call
      /\ AllBut({"arp", "udp", "icmp", "mail", "call", "free", "ruined"}, n, m)
  BY <1>2 DEF AllBut
<1>4. \A q \in Proc \ {p} : m.call[q] = n.call[q] /\ m.mail[q] = n.mail[q]
  BY <1>2, <1>3
<1>5. \A u \in Table : \A r \in SlotOf(u) : u # "arp" \/ r # s => Same(n, m, u, r)
  <2>1. \A r \in ArpSlot \ {s} : m.arp[r] = n.arp[r]
    BY <1>3
  <2> QED
    BY <1>1, <1>2, <1>3, <2>1, OneSlotChanges
<1>6. Open(m, "arp", s) /\ Owner(m, "arp", s) = p /\ ~Full(m, "arp", s)
  BY <1>3, EntryIs
<1>7. In(m, p, "arp", s) /\ m.mail[p] = NoMail
  BY <1>2, <1>3 DEF In
<1>8. MarkedAt(m, "arp", s)
  BY <1>6, <1>7 DEF MarkedAt
<1>9. Agrees("arp") => \A q \in Proc \ {p} : n.call[q].op = "arp" => n.call[q].slot # s
  <2>1. DOMAIN n.call = Proc
    BY <1>1, NetParts
  <2> QED
    BY <2>1 DEF Agrees, Recycles
<1>10. Agrees("arp") => AgreedAt(m, "arp", s)
  <2> SUFFICES ASSUME Agrees("arp"), NEW q \in Proc, In(m, q, "arp", s)
               PROVE  q = p
    BY <1>6, <1>7 DEF AgreedAt
  <2> QED
    BY <1>4, <1>9 DEF In
<1>11. Agrees("arp") => Heard(m) /\ Asked(m)
  <2> SUFFICES ASSUME Agrees("arp")
               PROVE  Heard(m) /\ Asked(m)
    OBVIOUS
  <2>1. Heard(n) /\ Asked(n)
    BY DEF NetGood
  <2>2. Heard(m)
    BY <1>3, <2>1 DEF Heard
  <2>3. ASSUME NEW q \in Proc, m.call[q].op = "arp"
        PROVE  m.arp[m.call[q].slot].addr = m.call[q].hop
    <3>1. CASE q = p
      BY <1>2, <1>3, <3>1
    <3>2. CASE q # p
      <4>1. n.call[q].op = "arp" /\ n.call[q].slot # s /\ m.call[q] = n.call[q]
        BY <1>4, <1>9, <2>3, <3>2
      <4>2. n.call[q].slot \in ArpSlot
        BY <4>1, GoodNet DEF CallFits
      <4>3. m.arp[n.call[q].slot] = n.arp[n.call[q].slot]
        BY <1>3, <4>1, <4>2
      <4> QED
        BY <2>1, <4>1, <4>3 DEF Asked
    <3> QED
      BY <3>1, <3>2
  <2> QED
    BY <2>2, <2>3 DEF Asked
<1>12. Accounts => Rings(m)
  <2>1. ASSUME Rings(n)
        PROVE  Rings(m)
    <3>1. \A q \in Proc : m.call[q].op = "icmp" => m.call[q] = n.call[q]
      BY <1>2, <1>4
    <3>2. \A r \in UdpSlot : m.udp[r].state = "free" => m.udp[r].q = <<>>
      BY <1>3, <2>1 DEF Rings
    <3> QED
      BY <1>3, <2>1, <3>1, <3>2, RingsKept
  <2> QED
    BY <2>1 DEF NetGood
<1>13. NetGood(m)
  <2> DEFINE t == "arp"
             P == {p}
  <2>1. t \in Table /\ s \in SlotOf(t) /\ P \in SUBSET Proc
    BY TableFacts
  <2>2. \A q \in P : Within(n.call[q], t, s) /\ Within(m.call[q], t, s) /\ CallFits(m.call[q])
    <3>1. Within(n.call[p], t, s) /\ Within(m.call[p], t, s) /\ CallFits(m.call[p])
      BY <1>2 DEF Within, Table, CallFits
    <3> QED
      BY <3>1
  <2>3. m.call[p].op \in {"none", "arp"}
    BY <1>2
  <2>4. /\ \A q \in Proc \ P : m.mail[q] = n.mail[q] /\ m.call[q] = n.call[q]
        /\ IpOut \in P => m.call[IpOut].op \in {"none", "arp"}
        /\ \A r \in IcmpSlot : RingFits(m.icmp[r])
        /\ MarkedAt(m, t, s) /\ (Agrees(t) => AgreedAt(m, t, s))
        /\ \A u \in Table : \A r \in SlotOf(u) : u # t \/ r # s => Same(n, m, u, r)
    BY <1>3, <1>4, <1>5, <1>8, <1>10, <2>3, GoodNet
  <2> HIDE DEF t, P
  <2> QED
    BY <1>2, <1>3, <1>11, <1>12, <2>1, <2>2, <2>4, SlotGood
<1>14. Total(m) = Total(n) + 1
  <2>1. CallSum(m) = CallSum(n) - HeldBy(n.call[p]) + HeldBy(m.call[p])
    BY <1>1, <1>2, <1>4, CallSumFacts
  <2>2. HeldBy(n.call[p]) = 0 /\ HeldBy(m.call[p]) = 1
    BY <1>2, HeldIs
  <2>3. Total(m) = Total(n) + (m.free - n.free) + (CallSum(m) - CallSum(n))
    BY <1>1, <1>2, <1>3, TotalMoves
  <2> DEFINE x == CallSum(m) y == CallSum(n) f == n.free T == Total(m) S == Total(n)
  <2>4. x \in Int /\ x = y - 0 + 1 /\ y \in Int /\ f \in Int /\ S \in Int
    BY <1>1, <1>2, <2>1, <2>2, SumsAre
  <2>5. T = S + (f - f) + (x - y)
    BY <1>3, <2>3
  <2> HIDE DEF x, y, f, T, S
  <2>6. T = S + 1
    BY <2>4, <2>5
  <2> QED
    BY <2>6 DEF T, S
<1> QED
  BY <1>3, <1>13, <1>14 DEF Gives, m

\* The end of ip_send, and of a turn of ipout.
LEMMA IpRouteGood ==
  ASSUME NEW n, NetGood(n), NEW p \in Proc, n.call[p].op = "none", NEW pkt \in Datagrams \cup Pings,
         "recycle" \in NetHazards \/ ~Recycles(n)
  PROVE  Gives(n, IpRoute(n, p, pkt), 1)
<1> DEFINE hop == NextHop(n, pkt.dst)
           ask == ArpAsk(n, p, hop)
           s == ask.slot
           k == ask.net
<1>1. n \in Net
  BY GoodNet
<1>2. hop \in Host
  BY Members DEF NextHop
<1> HIDE DEF hop
<1>3. CASE hop = NoAddr
  <2>1. IpRoute(n, p, pkt) = Freed(n)
    BY <1>3 DEF IpRoute, hop
  <2> QED
    BY <2>1, BufferGood
<1>4. CASE hop # NoAddr
  <2>1. \/ ask.did = "resolved" /\ s \in ArpSlot /\ n.arp[s].state = "resolved" /\ n.arp[s].addr = hop
        \/ ask.did = "fail"
        \/ /\ ask.did = "wait" /\ s = ArpVictim(n.arp) /\ s \in ArpSlot
           /\ k \in Net /\ AllBut({"arp", "mail"}, n, k)
           /\ k.arp[s].state = "pending" /\ k.arp[s].pid = p /\ k.arp[s].addr = hop
           /\ \A r \in ArpSlot \ {s} : k.arp[r] = n.arp[r]
           /\ k.mail[p] = NoMail /\ \A q \in Proc \ {p} : k.mail[q] = n.mail[q]
    BY <1>1, <1>2, ArpAskFacts
  <2>2. IpRoute(n, p, pkt) =
          CASE ask.did = "resolved" -> IpFrame(n, hop, n.arp[s].hw)
            [] ask.did = "fail" -> Freed(n)
            [] ask.did = "wait" ->
                 Waiting(k, p, [NetCall("arp", s, pkt) EXCEPT !.hop = hop, !.tries = 1])
    BY <1>4 DEF IpRoute, hop
  <2> HIDE DEF ask
  <2>3. CASE ask.did = "resolved"
    <3>1. s \in ArpSlot /\ n.arp[s].state = "resolved" /\ n.arp[s].addr = hop
      BY <2>1, <2>3
    <3> HIDE DEF s
    <3>2. IpRoute(n, p, pkt) = IpFrame(n, hop, n.arp[s].hw)
      BY <2>2, <2>3
    <3>3. n.arp[s].hw \in Host
      BY <1>1, <3>1, ArpParts
    <3>4. Agrees("arp") => n.arp[s].hw = hop
      BY <3>1 DEF NetGood, Heard
    <3> QED
      BY <1>2, <3>2, <3>3, <3>4, IpFrameGood
  <2>4. CASE ask.did = "fail"
    <3>1. IpRoute(n, p, pkt) = Freed(n)
      BY <2>2, <2>4
    <3> QED
      BY <3>1, BufferGood
  <2>5. CASE ask.did = "wait"
    <3> DEFINE c == [NetCall("arp", s, pkt) EXCEPT !.hop = hop, !.tries = 1]
    <3>1. /\ s = ArpVictim(n.arp) /\ s \in ArpSlot
          /\ k \in Net /\ AllBut({"arp", "mail"}, n, k)
          /\ k.arp[s].state = "pending" /\ k.arp[s].pid = p /\ k.arp[s].addr = hop
          /\ \A r \in ArpSlot \ {s} : k.arp[r] = n.arp[r]
          /\ k.mail[p] = NoMail /\ \A q \in Proc \ {p} : k.mail[q] = n.mail[q]
      BY <2>1, <2>5
    <3> HIDE DEF s, k
    <3>2. IpRoute(n, p, pkt) = Waiting(k, p, c)
      BY <2>2, <2>5
    <3>3. c \in NetCalls /\ c.op = "arp" /\ c.slot = s /\ c.hop = hop
      <4>1. s \in Int /\ pkt \in Packet /\ NoAddr \in Host
        BY <3>1, Members, NetConst DEF ArpSlot
      <4> QED
        BY <1>2, <4>1 DEF NetCall, NetIdle, NetCalls
    <3> HIDE DEF c
    <3> QED
      BY <1>2, <3>1, <3>2, <3>3, ArpStartGood
  <2> QED
    BY <2>1, <2>3, <2>4, <2>5
<1> QED
  BY <1>3, <1>4

\* ip_send
LEMMA IpSendGood ==
  ASSUME NEW n, NetGood(n), NEW p \in NetProc, n.call[p].op = "none", NEW pkt \in Datagrams \cup Pings,
         ~Excluded(n, pkt)
  PROVE  Gives(n, IpSend(n, p, pkt), 1)
<1>1. p \in Proc /\ pkt \in Packet
  BY Members DEF Proc
<1>2. CASE pkt.dst \in {Loop, Self(n)} /\ LocalWaits(n, pkt)
  <2> DEFINE c == NetCall("echo", -1, pkt)
  <2>1. IpSend(n, p, pkt) = Waiting(n, p, c)
    BY <1>2 DEF IpSend
  <2>2. c \in NetCalls /\ c.op = "echo" /\ c.pkt = pkt
    <3>1. -1 \in Int
      OBVIOUS
    <3> QED
      BY <1>1, <3>1, NewCall
  <2> HIDE DEF c
  <2>3. CallFits(c) /\ HeldBy(c) = 1 /\ c.op \notin Table
    BY <1>2, <2>2 DEF CallFits, LocalWaits, HeldBy, Table
  <2>4. Gives(n, Waiting(n, p, c), HeldBy(c))
    BY <2>2, <2>3, WaitingGood
  <2> QED
    BY <2>1, <2>3, <2>4
<1>3. CASE pkt.dst \in {Loop, Self(n)} /\ ~LocalWaits(n, pkt)
  <2>1. IpSend(n, p, pkt) = IpLocal(n, pkt)
    BY <1>3 DEF IpSend
  <2> QED
    BY <1>1, <2>1, IpLocalGood
<1>4. CASE pkt.dst \notin {Loop, Self(n)} /\ pkt.dst = Bcast
  <2>1. IpSend(n, p, pkt) = IpFrame(n, Bcast, Bcast)
    BY <1>4 DEF IpSend
  <2> QED
    BY <2>1, Members, IpFrameGood
<1>5. CASE pkt.dst \notin {Loop, Self(n)} /\ pkt.dst # Bcast
  <2>1. IpSend(n, p, pkt) = IpRoute(n, p, pkt)
    BY <1>5 DEF IpSend
  <2>2. "recycle" \in NetHazards \/ ~Recycles(n)
    BY DEF Excluded
  <2> QED
    BY <1>1, <2>1, <2>2, IpRouteGood
<1> QED
  BY <1>2, <1>3, <1>4, <1>5

-------------------------------------------------------------------------------
(* The calls on an endpoint *)

\* One endpoint changes, and what the processes P wait in.
LEMMA UdpSlotGood ==
  ASSUME NEW n, NetGood(n), NEW m \in Net, NEW s \in UdpSlot, NEW P \in SUBSET NetProc,
         AllBut({"udp", "mail", "call", "free", "ruined"}, n, m),
         \A r \in UdpSlot \ {s} : m.udp[r] = n.udp[r],
         \A q \in Proc \ P : m.mail[q] = n.mail[q] /\ m.call[q] = n.call[q],
         Marks => \A q \in P : Within(n.call[q], "udp", s) /\ Within(m.call[q], "udp", s),
         \A q \in P : CallFits(m.call[q]) /\ m.call[q].op \notin {"icmp", "arp"},
         Marks => MarkedAt(m, "udp", s), Agrees("udp") => AgreedAt(m, "udp", s),
         Accounts => (m.udp[s].state = "free" => m.udp[s].q = <<>>)
  PROVE  NetGood(m)
<1>1. n \in Net
  BY GoodNet
<1>2. m.icmp = n.icmp /\ m.arp = n.arp /\ m.frame = n.frame
  BY DEF AllBut
<1>3. P \in SUBSET Proc /\ IpOut \notin P
  BY NetConst DEF Proc
<1>4. AllBut({"arp", "udp", "icmp", "mail", "call", "free", "ruined"}, n, m)
  BY DEF AllBut
<1>5. \A u \in Table : \A r \in SlotOf(u) : u # "udp" \/ r # s => Same(n, m, u, r)
  BY <1>1, <1>2, OneSlotChanges
<1>6. \A r \in IcmpSlot : RingFits(m.icmp[r])
  BY <1>2, GoodNet
<1>7. Agrees("arp") => Heard(m) /\ Asked(m)
  <2>1. ASSUME Heard(n), Asked(n)
        PROVE  Heard(m) /\ Asked(m)
    <3>1. \A q \in Proc : m.call[q].op = "arp" => m.call[q] = n.call[q]
      BY <1>3
    <3>2. m.frame.hw = m.frame.hop
      BY <1>2, <2>1 DEF Heard
    <3> QED
      BY <1>2, <2>1, <3>1, <3>2, ArpKept
  <2> QED
    BY <2>1 DEF NetGood
<1>8. Accounts => Rings(m)
  <2>1. ASSUME Accounts, Rings(n)
        PROVE  Rings(m)
    <3>1. \A q \in Proc : m.call[q].op = "icmp" => m.call[q] = n.call[q]
      BY <1>3
    <3>2. \A r \in UdpSlot : m.udp[r].state = "free" => m.udp[r].q = <<>>
      BY <2>1 DEF Rings
    <3> QED
      BY <1>2, <2>1, <3>1, <3>2, RingsKept
  <2> QED
    BY <2>1 DEF NetGood
<1> DEFINE t == "udp"
<1>9. /\ t \in Table /\ s \in SlotOf(t)
      /\ \A u \in Table : \A r \in SlotOf(u) : u # t \/ r # s => Same(n, m, u, r)
      /\ Marks => \A q \in P : Within(n.call[q], t, s) /\ Within(m.call[q], t, s)
      /\ Marks => MarkedAt(m, t, s)
      /\ Agrees(t) => AgreedAt(m, t, s)
  BY <1>5, TableFacts
<1> HIDE DEF t
<1> QED
  BY <1>3, <1>4, <1>6, <1>7, <1>8, <1>9, SlotGood

\* The buffers of an endpoint, when no call holds one.
LEMMA UdpTotal ==
  ASSUME NEW n \in Net, NEW m \in Net, NEW s \in UdpSlot,
         AllBut({"udp", "mail", "call", "free", "ruined"}, n, m),
         \A r \in UdpSlot \ {s} : m.udp[r] = n.udp[r], CallSum(m) = CallSum(n),
         m.free + Len(m.udp[s].q) = n.free + Len(n.udp[s].q)
  PROVE  Total(m) = Total(n) + 0
<1>1. AllBut({"arp", "udp", "icmp", "mail", "call", "free", "ruined"}, n, m) /\ m.icmp = n.icmp
  BY DEF AllBut
<1>2. Total(m) = Total(n) + (m.free - n.free) + (Len(m.udp[s].q) - Len(n.udp[s].q))
  BY <1>1, TotalMoves
<1> DEFINE x == Len(m.udp[s].q) y == Len(n.udp[s].q) f == n.free g == m.free T == Total(m) S == Total(n)
<1>3. x \in Int /\ y \in Int /\ f \in Int /\ g \in Int /\ S \in Int /\ g + x = f + y
  BY SumsAre, UdpParts
<1>4. T = S + (g - f) + (x - y)
  BY <1>2
<1> HIDE DEF x, y, f, g, T, S
<1>5. T = S + 0
  BY <1>3, <1>4
<1> QED
  BY <1>5 DEF T, S

\* One process goes to or comes from a call that holds no buffer.
LEMMA CallHoldsNone ==
  ASSUME NEW n \in Net, NEW m \in Net, NEW p \in Proc, \A q \in Proc \ {p} : m.call[q] = n.call[q],
         n.call[p].op \notin {"read", "echo", "arp"}, m.call[p].op \notin {"read", "echo", "arp"}
  PROVE  CallSum(m) = CallSum(n)
<1>1. HeldBy(n.call[p]) = 0 /\ HeldBy(m.call[p]) = 0
  BY HeldIs
<1>2. CallSum(m) = CallSum(n) - 0 + 0 /\ CallSum(n) \in Int
  BY <1>1, CallSumFacts, SumsAre
<1> QED
  BY <1>2

\* Nobody is in a slot.
Nobody(n, t, s) == \A p \in Proc : ~In(n, p, t, s)

\* udp_register
LEMMA UdpRegisterGood ==
  ASSUME NEW n, NetGood(n), NEW remip \in Host, NEW remport \in PortNo, NEW locport \in PortNo
  PROVE  Gives(n, UdpRegister(n, remip, remport, locport), 0)
<1> DEFINE m == UdpRegister(n, remip, remport, locport)
<1>1. n \in Net /\ Total(n) \in Int
  BY GoodNet, SumsAre
<1>2. CASE m = n
  BY <1>1, <1>2 DEF Gives
<1>3. CASE m # n
  <2>1. PICK s \in UdpSlot :
          /\ m \in Net /\ AllBut({"udp"}, n, m)
          /\ n.udp[s].state = "free" /\ m.udp[s].state = "used" /\ m.udp[s].q = <<>>
          /\ \A r \in UdpSlot \ {s} : m.udp[r] = n.udp[r]
    BY <1>1, <1>3, UdpRegisterFacts
  <2> HIDE DEF m
  <2>2. /\ AllBut({"udp", "mail", "call", "free", "ruined"}, n, m) /\ m.call = n.call /\ m.mail = n.mail
        /\ m.free = n.free /\ m.ruined = n.ruined
    BY <2>1 DEF AllBut
  <2>3. Agrees("udp") => Nobody(m, "udp", s)
    <3> SUFFICES ASSUME Agrees("udp"), NEW p \in Proc, In(m, p, "udp", s)
                 PROVE  FALSE
      BY DEF Nobody
    <3>1. In(n, p, "udp", s) /\ AgreedAt(n, "udp", s)
      BY <2>2, TableFacts DEF In, NetGood, WaitersFit
    <3>2. ~Open(n, "udp", s) /\ ~Full(n, "udp", s)
      BY <2>1, EntryIs
    <3> QED
      BY <3>1, <3>2 DEF AgreedAt
  <2>4. ~Open(m, "udp", s)
    BY <2>1, EntryIs
  <2>5. NetGood(m)
    <3>1. MarkedAt(m, "udp", s) /\ (Agrees("udp") => AgreedAt(m, "udp", s))
      BY <2>3, <2>4 DEF MarkedAt, AgreedAt, Nobody
    <3> DEFINE P == {}
    <3>2. /\ P \in SUBSET NetProc
          /\ \A q \in Proc \ P : m.mail[q] = n.mail[q] /\ m.call[q] = n.call[q]
          /\ \A q \in P : FALSE
      BY <2>2
    <3> HIDE DEF P
    <3> QED
      BY <2>1, <2>2, <3>1, <3>2, UdpSlotGood
  <2>6. Accounts => Total(m) = Total(n) + 0
    <3> SUFFICES ASSUME Accounts
                 PROVE  Total(m) = Total(n) + 0
      OBVIOUS
    <3>1. n.udp[s].q = <<>>
      BY <2>1 DEF NetGood, Rings
    <3>2. m.free + Len(m.udp[s].q) = n.free + Len(n.udp[s].q)
      BY <2>1, <2>2, <3>1
    <3>3. CallSum(m) = CallSum(n)
      BY <1>1, <2>1, <2>2, CallSumFacts
    <3> QED
      BY <1>1, <2>1, <2>2, <3>2, <3>3, UdpTotal
  <2> QED
    BY <2>2, <2>5, <2>6 DEF Gives, m
<1> QED
  BY <1>2, <1>3

\* udp_recv, when there is a packet.
LEMMA UdpTakeGood ==
  ASSUME NEW n, NetGood(n), NEW s \in UdpSlot, n.udp[s].state = "used", n.udp[s].q # <<>>,
         "share" \in NetHazards \/ Nobody(n, "udp", s)
  PROVE  Gives(n, UdpTake(n, s), 0)
<1> DEFINE m == UdpTake(n, s)
<1>1. n \in Net
  BY GoodNet
<1>2. /\ m \in Net /\ AllBut({"udp", "free", "ruined"}, n, m)
      /\ m.udp[s].state = "used" /\ \A r \in UdpSlot \ {s} : m.udp[r] = n.udp[r]
      /\ m.ruined = n.ruined /\ m.free = n.free + 1 /\ Len(m.udp[s].q) = Len(n.udp[s].q) - 1
  BY <1>1, UdpTakeFacts
<1> HIDE DEF m
<1>3. AllBut({"udp", "mail", "call", "free", "ruined"}, n, m) /\ m.call = n.call /\ m.mail = n.mail
  BY <1>2 DEF AllBut
<1>4. NetGood(m)
  <2>1. MarkedAt(m, "udp", s)
    BY <1>2, EntryIs DEF MarkedAt
  <2>2. Agrees("udp") => AgreedAt(m, "udp", s)
    BY <1>3 DEF Agrees, AgreedAt, Nobody, In
  <2> DEFINE P == {}
  <2>3. /\ P \in SUBSET NetProc
        /\ \A q \in Proc \ P : m.mail[q] = n.mail[q] /\ m.call[q] = n.call[q]
        /\ \A q \in P : FALSE
    BY <1>3
  <2> HIDE DEF P
  <2> QED
    BY <1>2, <1>3, <2>1, <2>2, <2>3, UdpSlotGood
<1>5. Total(m) = Total(n) + 0
  <2>1. m.free + Len(m.udp[s].q) = n.free + Len(n.udp[s].q)
    <3> DEFINE x == Len(m.udp[s].q) y == Len(n.udp[s].q) f == n.free g == m.free
    <3>1. x = y - 1 /\ g = f + 1 /\ y \in Nat /\ f \in Int
      BY <1>1, <1>2, SumsAre, UdpParts
    <3> HIDE DEF x, y, f, g
    <3>2. g + x = f + y
      BY <3>1
    <3> QED
      BY <3>2 DEF x, y, f, g
  <2>2. CallSum(m) = CallSum(n)
    BY <1>1, <1>2, <1>3, CallSumFacts
  <2> QED
    BY <1>1, <1>2, <1>3, <2>1, <2>2, UdpTotal
<1> QED
  BY <1>2, <1>4, <1>5 DEF Gives, m

\* udp_recv, when there is none.
LEMMA UdpAwaitGood ==
  ASSUME NEW n, NetGood(n), NEW p \in NetProc, n.call[p].op = "none", NEW s \in UdpSlot,
         n.udp[s].q = <<>>, "share" \in NetHazards \/ Nobody(n, "udp", s)
  PROVE  Gives(n, Waiting(UdpAwait(n, p, s), p, NetCall("udp", s, NoPacket)), 0)
<1> DEFINE c == NetCall("udp", s, NoPacket)
           k == UdpAwait(n, p, s)
           m == Waiting(k, p, c)
<1>1. n \in Net /\ p \in Proc
  BY GoodNet DEF Proc
<1>2. c \in NetCalls /\ c.op = "udp" /\ c.slot = s
  BY NewCall, Members, NetConst DEF UdpSlot
<1>3. /\ k \in Net /\ AllBut({"udp", "mail"}, n, k)
      /\ k.udp[s].state = "recv" /\ k.udp[s].pid = p /\ k.udp[s].q = n.udp[s].q
      /\ \A r \in UdpSlot \ {s} : k.udp[r] = n.udp[r]
      /\ k.mail[p] = NoMail /\ \A q \in Proc \ {p} : k.mail[q] = n.mail[q]
  BY <1>1, UdpAwaitFacts
<1> HIDE DEF c, k
<1>4. /\ m \in Net /\ AllBut({"call"}, k, m) /\ m.call[p] = c
      /\ \A q \in Proc \ {p} : m.call[q] = k.call[q]
  BY <1>1, <1>2, <1>3, CallFacts
<1> HIDE DEF m
<1>5. /\ AllBut({"udp", "mail", "call", "free", "ruined"}, n, m)
      /\ m.udp = k.udp /\ m.mail = k.mail /\ k.call = n.call /\ m.free = n.free /\ m.ruined = n.ruined
  BY <1>3, <1>4 DEF AllBut
<1>6. \A q \in Proc \ {p} : m.call[q] = n.call[q] /\ m.mail[q] = n.mail[q]
  BY <1>3, <1>4, <1>5
<1>7. /\ Open(m, "udp", s) /\ Owner(m, "udp", s) = p /\ ~Full(m, "udp", s)
      /\ In(m, p, "udp", s) /\ m.mail[p] = NoMail
  BY <1>2, <1>3, <1>4, <1>5, EntryIs DEF In
<1>8. MarkedAt(m, "udp", s)
  BY <1>1, <1>7 DEF MarkedAt
<1>9. Agrees("udp") => AgreedAt(m, "udp", s)
  <2> SUFFICES ASSUME Agrees("udp"), NEW q \in Proc, In(m, q, "udp", s)
               PROVE  q = p
    BY <1>7 DEF AgreedAt
  <2> QED
    BY <1>6 DEF In, Agrees, Nobody
<1>10. NetGood(m)
  <2> DEFINE P == {p}
  <2>1. /\ P \in SUBSET NetProc
        /\ \A q \in Proc \ P : m.mail[q] = n.mail[q] /\ m.call[q] = n.call[q]
        /\ \A q \in P : q = p
    BY <1>6
  <2>2. /\ Within(n.call[p], "udp", s) /\ Within(m.call[p], "udp", s)
        /\ CallFits(m.call[p]) /\ m.call[p].op \notin {"icmp", "arp"}
    BY <1>2, <1>4 DEF Within, Table, CallFits
  <2>3. m.udp[s].state # "free"
    BY <1>3, <1>5
  <2>4. \A r \in UdpSlot \ {s} : m.udp[r] = n.udp[r]
    BY <1>3, <1>5
  <2> HIDE DEF P
  <2> QED
    BY <1>4, <1>5, <1>8, <1>9, <2>1, <2>2, <2>3, <2>4, UdpSlotGood
<1>11. Total(m) = Total(n) + 0
  <2>1. CallSum(m) = CallSum(n)
    BY <1>1, <1>2, <1>4, <1>6, CallHoldsNone
  <2>2. \A r \in UdpSlot \ {s} : m.udp[r] = n.udp[r]
    BY <1>3, <1>5
  <2>3. m.free + Len(m.udp[s].q) = n.free + Len(n.udp[s].q)
    BY <1>3, <1>5
  <2> QED
    BY <1>1, <1>4, <1>5, <2>1, <2>2, <2>3, UdpTotal
<1> QED
  BY <1>5, <1>10, <1>11 DEF Gives, m, k, c

\* udp_recv, when it wakes up.
LEMMA UdpReturnsGood ==
  ASSUME NEW n, NetGood(n), NEW p \in NetProc, n.call[p].op = "udp"
  PROVE  Gives(n, Ended(UdpWoken(n, p, n.call[p].slot), p), 0)
<1> DEFINE s == n.call[p].slot
           k == UdpWoken(n, p, s)
           m == Ended(k, p)
<1>1. n \in Net /\ p \in Proc /\ s \in UdpSlot /\ n.call[p] \in NetCalls
  BY GoodNet DEF Proc, CallFits
<1>2. In(n, p, "udp", s)
  BY DEF In
<1> HIDE DEF s
<1>3. /\ k \in Net /\ AllBut({"udp", "mail", "free", "ruined"}, n, k)
      /\ k.udp[s].state = "used"
      /\ \A r \in UdpSlot \ {s} : k.udp[r] = n.udp[r]
      /\ \A q \in Proc \ {p} : k.mail[q] = n.mail[q]
      /\ n.mail[p] # "ok" => k.ruined = n.ruined /\ k.free = n.free /\ k.udp[s].q = n.udp[s].q
      /\ n.mail[p] = "ok" /\ n.udp[s].q # <<>> =>
           /\ k.ruined = n.ruined /\ k.free = n.free + 1 /\ Len(k.udp[s].q) = Len(n.udp[s].q) - 1
  BY <1>1, UdpWokenFacts
<1> HIDE DEF k
<1>4. /\ m \in Net /\ AllBut({"call"}, k, m) /\ m.call[p] = NetIdle
      /\ \A q \in Proc \ {p} : m.call[q] = k.call[q]
  BY <1>1, <1>3, CallFacts
<1> HIDE DEF m
<1>5. /\ AllBut({"udp", "mail", "call", "free", "ruined"}, n, m)
      /\ m.udp = k.udp /\ m.mail = k.mail /\ k.call = n.call /\ m.free = k.free /\ m.ruined = k.ruined
  BY <1>3, <1>4 DEF AllBut
<1>6. \A q \in Proc \ {p} : m.call[q] = n.call[q] /\ m.mail[q] = n.mail[q]
  BY <1>3, <1>4, <1>5
<1>7. MarkedAt(m, "udp", s)
  BY <1>3, <1>5, EntryIs DEF MarkedAt
<1>8. NetIdle.op = "none"
  BY DEF NetIdle
<1>9. Agrees("udp") => AgreedAt(n, "udp", s)
  BY <1>1, TableFacts DEF NetGood, WaitersFit
<1>10. Agrees("udp") => AgreedAt(m, "udp", s)
  <2> SUFFICES ASSUME Agrees("udp"), NEW q \in Proc, In(m, q, "udp", s)
               PROVE  FALSE
    BY DEF AgreedAt
  <2>1. q # p
    BY <1>4, <1>8 DEF In
  <2>2. In(n, q, "udp", s)
    BY <1>6, <2>1 DEF In
  <2> QED
    BY <1>1, <1>2, <1>9, <2>1, <2>2 DEF AgreedAt
<1>11. \A r \in UdpSlot \ {s} : m.udp[r] = n.udp[r]
  BY <1>3, <1>5
<1>12. NetGood(m)
  <2> DEFINE P == {p}
  <2>1. /\ P \in SUBSET NetProc
        /\ \A q \in Proc \ P : m.mail[q] = n.mail[q] /\ m.call[q] = n.call[q]
        /\ \A q \in P : q = p
    BY <1>6
  <2>2. /\ Within(n.call[p], "udp", s) /\ Within(m.call[p], "udp", s)
        /\ CallFits(m.call[p]) /\ m.call[p].op \notin {"icmp", "arp"}
    BY <1>2, <1>4, <1>8 DEF Within, Table, CallFits, In
  <2>3. m.udp[s].state # "free"
    BY <1>3, <1>5
  <2> HIDE DEF P
  <2> QED
    BY <1>1, <1>4, <1>5, <1>7, <1>10, <1>11, <2>1, <2>2, <2>3, UdpSlotGood
<1>13. Accounts => m.ruined = n.ruined /\ Total(m) = Total(n) + 0
  <2> SUFFICES ASSUME Accounts
               PROVE  m.ruined = n.ruined /\ Total(m) = Total(n) + 0
    OBVIOUS
  <2>1. n.mail[p] = "ok" => n.udp[s].q # <<>>
    <3>1. AgreedAt(n, "udp", s)
      BY <1>9, TableFacts
    <3>2. n.mail[p] = "ok" => Full(n, "udp", s)
      BY <1>1, <1>2, <3>1 DEF AgreedAt, NoMail
    <3> QED
      BY <3>2, EntryIs
  <2>2. m.ruined = n.ruined
    BY <1>3, <1>5, <2>1
  <2>3. CallSum(m) = CallSum(n)
    BY <1>1, <1>4, <1>6, <1>8, CallHoldsNone
  <2>4. m.free + Len(m.udp[s].q) = n.free + Len(n.udp[s].q)
    <3> DEFINE x == Len(m.udp[s].q) y == Len(n.udp[s].q) f == n.free g == m.free
    <3>1. y \in Nat /\ f \in Int
      BY <1>1, SumsAre, UdpParts
    <3>2. (x = y /\ g = f) \/ (x = y - 1 /\ g = f + 1)
      BY <1>3, <1>5, <2>1
    <3> HIDE DEF x, y, f, g
    <3>3. g + x = f + y
      BY <3>1, <3>2
    <3> QED
      BY <3>3 DEF x, y, f, g
  <2> QED
    BY <1>1, <1>4, <1>5, <1>11, <2>2, <2>3, <2>4, UdpTotal
<1> QED
  BY <1>12, <1>13 DEF Gives, m, k, s

\* udp_release
LEMMA UdpReleaseGood ==
  ASSUME NEW n, NetGood(n), NEW s \in UdpSlot, "release" \in NetHazards \/ Nobody(n, "udp", s)
  PROVE  Gives(n, UdpRelease(n, s), 0)
<1> DEFINE m == UdpRelease(n, s)
<1>1. n \in Net /\ Total(n) \in Int
  BY GoodNet, SumsAre
<1>2. CASE m = n
  BY <1>1, <1>2 DEF Gives
<1>3. CASE m # n
  <2>1. /\ m \in Net /\ AllBut({"udp", "free"}, n, m)
        /\ m.udp[s].state = "free" /\ m.udp[s].q = <<>>
        /\ \A r \in UdpSlot \ {s} : m.udp[r] = n.udp[r]
        /\ m.free = n.free + Len(n.udp[s].q)
    BY <1>1, <1>3, UdpReleaseFacts
  <2> HIDE DEF m
  <2>2. /\ AllBut({"udp", "mail", "call", "free", "ruined"}, n, m) /\ m.call = n.call /\ m.mail = n.mail
        /\ m.ruined = n.ruined
    BY <2>1 DEF AllBut
  <2>3. NetGood(m)
    <3>1. MarkedAt(m, "udp", s)
      BY <2>1, EntryIs DEF MarkedAt
    <3>2. Agrees("udp") => AgreedAt(m, "udp", s)
      BY <2>2 DEF Agrees, AgreedAt, Nobody, In
    <3> DEFINE P == {}
    <3>3. /\ P \in SUBSET NetProc
          /\ \A q \in Proc \ P : m.mail[q] = n.mail[q] /\ m.call[q] = n.call[q]
          /\ \A q \in P : FALSE
      BY <2>2
    <3> HIDE DEF P
    <3> QED
      BY <2>1, <2>2, <3>1, <3>2, <3>3, UdpSlotGood
  <2>4. Total(m) = Total(n) + 0
    <3>1. m.free + Len(m.udp[s].q) = n.free + Len(n.udp[s].q)
      <4> DEFINE x == Len(m.udp[s].q) y == Len(n.udp[s].q) f == n.free g == m.free
      <4>1. x = 0 /\ g = f + y /\ y \in Nat /\ f \in Int
        BY <1>1, <2>1, SumsAre, UdpParts
      <4> HIDE DEF x, y, f, g
      <4>2. g + x = f + y
        BY <4>1
      <4> QED
        BY <4>2 DEF x, y, f, g
    <3>2. CallSum(m) = CallSum(n)
      BY <1>1, <2>1, <2>2, CallSumFacts
    <3> QED
      BY <1>1, <2>1, <2>2, <3>1, <3>2, UdpTotal
  <2> QED
    BY <2>2, <2>3, <2>4 DEF Gives, m
<1> QED
  BY <1>2, <1>3

-------------------------------------------------------------------------------
(* The calls on an ICMP slot *)

\* One slot changes, and what the processes P wait in.
LEMMA IcmpSlotGood ==
  ASSUME NEW n, NetGood(n), NEW m \in Net, NEW s \in IcmpSlot, NEW P \in SUBSET NetProc,
         AllBut({"icmp", "mail", "call", "free", "ruined"}, n, m),
         \A r \in IcmpSlot \ {s} : m.icmp[r] = n.icmp[r],
         \A q \in Proc \ P : m.mail[q] = n.mail[q] /\ m.call[q] = n.call[q],
         Marks => \A q \in P : Within(n.call[q], "icmp", s) /\ Within(m.call[q], "icmp", s),
         \A q \in P : CallFits(m.call[q]) /\ m.call[q].op # "arp",
         \A q \in P : m.call[q].op = "icmp" => m.call[q].slot = s,
         Marks => MarkedAt(m, "icmp", s), Agrees("icmp") => AgreedAt(m, "icmp", s),
         RingFits(m.icmp[s]),
         Accounts => IF m.icmp[s].state = "free" THEN InRing(m.icmp[s].ring) = 0
                     ELSE RingSound(m.icmp[s]),
         Accounts => Nobody(m, "icmp", s) \/ m.icmp[s].head < IcmpQsiz
  PROVE  NetGood(m)
<1>1. n \in Net
  BY GoodNet
<1>2. m.udp = n.udp /\ m.arp = n.arp /\ m.frame = n.frame
  BY DEF AllBut
<1>3. P \in SUBSET Proc /\ IpOut \notin P
  BY NetConst DEF Proc
<1>4. AllBut({"arp", "udp", "icmp", "mail", "call", "free", "ruined"}, n, m)
  BY DEF AllBut
<1>5. \A u \in Table : \A r \in SlotOf(u) : u # "icmp" \/ r # s => Same(n, m, u, r)
  BY <1>1, <1>2, OneSlotChanges
<1>6. \A r \in IcmpSlot : RingFits(m.icmp[r])
  BY GoodNet
<1>7. Agrees("arp") => Heard(m) /\ Asked(m)
  <2>1. ASSUME Heard(n), Asked(n)
        PROVE  Heard(m) /\ Asked(m)
    <3>1. \A q \in Proc : m.call[q].op = "arp" => m.call[q] = n.call[q]
      BY <1>3
    <3>2. m.frame.hw = m.frame.hop
      BY <1>2, <2>1 DEF Heard
    <3> QED
      BY <1>2, <2>1, <3>1, <3>2, ArpKept
  <2> QED
    BY <2>1 DEF NetGood
<1>8. Accounts => Rings(m)
  <2>1. ASSUME Accounts, Rings(n)
        PROVE  Rings(m)
    <3>1. ASSUME NEW q \in Proc, m.call[q].op = "icmp"
          PROVE  m.icmp[m.call[q].slot].head < IcmpQsiz
      <4>1. CASE m.call[q].slot = s
        <5>1. In(m, q, "icmp", s)
          BY <3>1, <4>1 DEF In
        <5> QED
          BY <2>1, <4>1, <5>1 DEF Nobody
      <4>2. CASE m.call[q].slot # s
        <5>1. q \in Proc \ P
          BY <3>1, <4>2
        <5>2. m.call[q] = n.call[q]
          BY <5>1
        <5>3. n.icmp[n.call[q].slot].head < IcmpQsiz /\ n.call[q].slot \in IcmpSlot
          BY <2>1, <3>1, <5>2, GoodNet DEF Rings, CallFits
        <5> QED
          BY <4>2, <5>2, <5>3
      <4> QED
        BY <4>1, <4>2
    <3>2. \A r \in IcmpSlot : IF m.icmp[r].state = "free" THEN InRing(m.icmp[r].ring) = 0
                              ELSE RingSound(m.icmp[r])
      BY <2>1 DEF Rings
    <3> QED
      BY <1>2, <2>1, <3>1, <3>2 DEF Rings
  <2> QED
    BY <2>1 DEF NetGood
<1> DEFINE t == "icmp"
<1>9. /\ t \in Table /\ s \in SlotOf(t)
      /\ \A u \in Table : \A r \in SlotOf(u) : u # t \/ r # s => Same(n, m, u, r)
      /\ Marks => \A q \in P : Within(n.call[q], t, s) /\ Within(m.call[q], t, s)
      /\ Marks => MarkedAt(m, t, s)
      /\ Agrees(t) => AgreedAt(m, t, s)
  BY <1>5, TableFacts
<1> HIDE DEF t
<1> QED
  BY <1>3, <1>4, <1>6, <1>7, <1>8, <1>9, SlotGood

\* The buffers of a slot, when no call holds one.
LEMMA IcmpTotal ==
  ASSUME NEW n \in Net, NEW m \in Net, NEW s \in IcmpSlot,
         AllBut({"icmp", "mail", "call", "free", "ruined"}, n, m),
         \A r \in IcmpSlot \ {s} : m.icmp[r] = n.icmp[r], CallSum(m) = CallSum(n),
         m.free + InRing(m.icmp[s].ring) = n.free + InRing(n.icmp[s].ring)
  PROVE  Total(m) = Total(n) + 0
<1>1. AllBut({"arp", "udp", "icmp", "mail", "call", "free", "ruined"}, n, m) /\ m.udp = n.udp
  BY DEF AllBut
<1>2. Total(m) = Total(n) + (m.free - n.free) + (InRing(m.icmp[s].ring) - InRing(n.icmp[s].ring))
  BY <1>1, TotalMoves
<1> DEFINE x == InRing(m.icmp[s].ring) y == InRing(n.icmp[s].ring) f == n.free g == m.free
           T == Total(m) S == Total(n)
<1>3. x \in Int /\ y \in Int /\ f \in Int /\ g \in Int /\ S \in Int /\ g + x = f + y
  BY SumsAre, RingIs
<1>4. T = S + (g - f) + (x - y)
  BY <1>2
<1> HIDE DEF x, y, f, g, T, S
<1>5. T = S + 0
  BY <1>3, <1>4
<1> QED
  BY <1>5 DEF T, S

\* Slots whose rings are the same.
LEMMA RingSame ==
  ASSUME NEW e, NEW d, d.count = e.count, d.head = e.head, d.tail = e.tail, d.ring = e.ring
  PROVE  /\ RingFits(e) => RingFits(d)
         /\ RingSound(e) => RingSound(d)
         /\ HeadHolds(e) => HeadHolds(d)
  BY DEF RingFits, RingSound, HeadHolds

\* icmp_register
LEMMA IcmpRegisterGood ==
  ASSUME NEW n, NetGood(n), NEW remip \in Host
  PROVE  Gives(n, IcmpRegister(n, remip), 0)
<1>1. n \in Net /\ Total(n) \in Int
  BY GoodNet, SumsAre
<1>4. LET m == IcmpRegister(n, remip) IN
      m = n \/ \E s \in IcmpSlot :
        /\ m \in Net /\ AllBut({"icmp"}, n, m)
        /\ n.icmp[s].state = "free"
        /\ m.icmp[s] = [IcmpFree EXCEPT !.state = "used", !.remip = remip]
        /\ \A r \in IcmpSlot \ {s} : m.icmp[r] = n.icmp[r]
  <2>1. n \in Net
    BY <1>1
  <2> QED
    BY ONLY <2>1, IcmpRegisterFacts, remip \in Host
<1> DEFINE m == IcmpRegister(n, remip)
           g == [IcmpFree EXCEPT !.state = "used", !.remip = remip]
<1>2. CASE m = n
  BY <1>1, <1>2 DEF Gives
<1>3. CASE m # n
  <2>3. m = n \/ \E s \in IcmpSlot :
          /\ m \in Net /\ AllBut({"icmp"}, n, m)
          /\ n.icmp[s].state = "free" /\ m.icmp[s] = g
          /\ \A r \in IcmpSlot \ {s} : m.icmp[r] = n.icmp[r]
    BY ONLY <1>4
  <2>2. /\ g.state = "used" /\ g.head = 0 /\ RingFits(g) /\ RingSound(g) /\ InRing(g.ring) = 0
    BY IcmpFreeFacts
  <2> HIDE DEF m, g
  <2>1. PICK s \in IcmpSlot :
          /\ m \in Net /\ AllBut({"icmp"}, n, m)
          /\ n.icmp[s].state = "free" /\ m.icmp[s] = g
          /\ \A r \in IcmpSlot \ {s} : m.icmp[r] = n.icmp[r]
    BY <1>3, <2>3
  <2>7. /\ AllBut({"icmp", "mail", "call", "free", "ruined"}, n, m) /\ m.call = n.call /\ m.mail = n.mail
        /\ m.free = n.free /\ m.ruined = n.ruined
    BY <2>1 DEF AllBut
  <2>4. Agrees("icmp") => Nobody(m, "icmp", s)
    <3> SUFFICES ASSUME Agrees("icmp"), NEW p \in Proc, In(m, p, "icmp", s)
                 PROVE  FALSE
      BY DEF Nobody
    <3>1. In(n, p, "icmp", s) /\ AgreedAt(n, "icmp", s)
      BY <2>7, TableFacts DEF In, NetGood, WaitersFit
    <3>2. ~Open(n, "icmp", s) /\ ~Full(n, "icmp", s)
      BY <2>1, EntryIs
    <3> QED
      BY <3>1, <3>2 DEF AgreedAt
  <2>5. NetGood(m)
    <3>1. MarkedAt(m, "icmp", s)
      BY <2>1, <2>2, EntryIs DEF MarkedAt
    <3>2. Agrees("icmp") => AgreedAt(m, "icmp", s)
      BY <2>4 DEF AgreedAt, Nobody
    <3> DEFINE P == {}
    <3>3. /\ P \in SUBSET NetProc
          /\ \A q \in Proc \ P : m.mail[q] = n.mail[q] /\ m.call[q] = n.call[q]
          /\ \A q \in P : FALSE
      BY <2>7
    <3>4. m.icmp[s].head < IcmpQsiz
      BY <2>1, <2>2, NetConst
    <3> HIDE DEF P
    <3> QED
      BY <2>1, <2>2, <2>7, <3>1, <3>2, <3>3, <3>4, IcmpSlotGood
  <2>6. Accounts => Total(m) = Total(n) + 0
    <3> SUFFICES ASSUME Accounts
                 PROVE  Total(m) = Total(n) + 0
      OBVIOUS
    <3>1. InRing(n.icmp[s].ring) = 0
      BY <2>1 DEF NetGood, Rings
    <3>2. m.free + InRing(m.icmp[s].ring) = n.free + InRing(n.icmp[s].ring)
      BY <2>1, <2>2, <2>7, <3>1
    <3>3. CallSum(m) = CallSum(n)
      BY <1>1, <2>1, <2>7, CallSumFacts
    <3> QED
      BY <1>1, <2>1, <2>7, <3>2, <3>3, IcmpTotal
  <2> QED
    BY <2>7, <2>5, <2>6 DEF Gives, m
<1> QED
  BY <1>2, <1>3

\* icmp_recv, when there is a packet.
LEMMA IcmpTakeGood ==
  ASSUME NEW n, NetGood(n), NEW s \in IcmpSlot, n.icmp[s].state = "used", n.icmp[s].count # 0,
         "share" \in NetHazards \/ Nobody(n, "icmp", s),
         "wrap" \in NetHazards \/ n.icmp[s].head < IcmpQsiz
  PROVE  Gives(n, IcmpTake(n, s), 0)
<1> DEFINE m == IcmpTake(n, s)
           e == n.icmp[s]
<1>1. n \in Net
  BY GoodNet
<1>2. /\ m \in Net /\ AllBut({"icmp", "free", "ruined"}, n, m)
      /\ \A r \in IcmpSlot \ {s} : m.icmp[r] = n.icmp[r]
      /\ HeadHolds(e) => m.icmp[s] = Took(e) /\ m.ruined = n.ruined /\ m.free = n.free + 1
      /\ ~HeadHolds(e) => m.icmp[s] = e
  BY <1>1, IcmpTakeFacts
<1>3. e \in IcmpEntry /\ RingFits(e) /\ e.state = "used" /\ e.count \in Nat /\ e.count # 0
  BY <1>1, IcmpParts, GoodNet DEF RingFits
<1> HIDE DEF m
<1>4. AllBut({"icmp", "mail", "call", "free", "ruined"}, n, m) /\ m.call = n.call /\ m.mail = n.mail
  BY <1>2 DEF AllBut
<1>5. Accounts => RingSound(e) /\ HeadHolds(e)
  <2> SUFFICES ASSUME Accounts
               PROVE  RingSound(e) /\ HeadHolds(e)
    OBVIOUS
  <2>1. RingSound(e)
    BY <1>3 DEF NetGood, Rings
  <2>2. e.head < IcmpQsiz
    BY DEF Accounts
  <2> HIDE DEF e
  <2>3. e.count > 0
    BY <1>3
  <2> QED
    BY <1>3, <2>1, <2>2, <2>3, RingHead DEF HeadHolds
<1>6. HeadHolds(e) => /\ Took(e).state = "used" /\ RingFits(Took(e)) /\ InRing(Took(e).ring) = InRing(e.ring) - 1
                      /\ RingSound(e) => RingSound(Took(e))
  <2> HIDE DEF e
  <2> QED
    BY <1>3, TookFacts DEF HeadHolds
<1>7. m.icmp[s].state = "used" /\ RingFits(m.icmp[s]) /\ (Accounts => RingSound(m.icmp[s]))
  BY <1>2, <1>3, <1>5, <1>6
<1>8. Accounts \/ Agrees("icmp") => Nobody(m, "icmp", s)
  <2>1. Accounts \/ Agrees("icmp") => Nobody(n, "icmp", s)
    BY DEF Accounts, Agrees
  <2> QED
    BY <1>4, <2>1 DEF Nobody, In
<1>9. NetGood(m)
  <2>1. MarkedAt(m, "icmp", s)
    BY <1>7, EntryIs DEF MarkedAt
  <2>2. Agrees("icmp") => AgreedAt(m, "icmp", s)
    BY <1>8 DEF AgreedAt, Nobody
  <2> DEFINE P == {}
  <2>3. /\ P \in SUBSET NetProc
        /\ \A q \in Proc \ P : m.mail[q] = n.mail[q] /\ m.call[q] = n.call[q]
        /\ \A q \in P : FALSE
    BY <1>4
  <2> HIDE DEF P
  <2> QED
    BY <1>2, <1>4, <1>7, <1>8, <2>1, <2>2, <2>3, IcmpSlotGood
<1>10. Accounts => m.ruined = n.ruined /\ Total(m) = Total(n) + 0
  <2> SUFFICES ASSUME Accounts
               PROVE  m.ruined = n.ruined /\ Total(m) = Total(n) + 0
    OBVIOUS
  <2>1. /\ m.ruined = n.ruined /\ m.free = n.free + 1
        /\ InRing(m.icmp[s].ring) = InRing(n.icmp[s].ring) - 1
    BY <1>2, <1>5, <1>6
  <2>2. m.free + InRing(m.icmp[s].ring) = n.free + InRing(n.icmp[s].ring)
    <3> DEFINE x == InRing(m.icmp[s].ring) y == InRing(n.icmp[s].ring) f == n.free g == m.free
    <3>1. x = y - 1 /\ g = f + 1 /\ y \in Int /\ f \in Int
      BY <1>1, <2>1, SumsAre, RingIs
    <3> HIDE DEF x, y, f, g
    <3>2. g + x = f + y
      BY <3>1
    <3> QED
      BY <3>2 DEF x, y, f, g
  <2>3. CallSum(m) = CallSum(n)
    BY <1>1, <1>2, <1>4, CallSumFacts
  <2> QED
    BY <1>1, <1>2, <1>4, <2>1, <2>2, <2>3, IcmpTotal
<1> QED
  BY <1>9, <1>10 DEF Gives, m

\* icmp_recv, when there is none.
LEMMA IcmpAwaitGood ==
  ASSUME NEW n, NetGood(n), NEW p \in NetProc, n.call[p].op = "none", NEW s \in IcmpSlot,
         n.icmp[s].state = "used", n.icmp[s].count = 0,
         "share" \in NetHazards \/ Nobody(n, "icmp", s),
         "wrap" \in NetHazards \/ n.icmp[s].head < IcmpQsiz
  PROVE  Gives(n, Waiting(IcmpAwait(n, p, s), p, NetCall("icmp", s, NoPacket)), 0)
<1> DEFINE c == NetCall("icmp", s, NoPacket)
           k == IcmpAwait(n, p, s)
           m == Waiting(k, p, c)
<1>1. n \in Net /\ p \in Proc
  BY GoodNet DEF Proc
<1>2. c \in NetCalls /\ c.op = "icmp" /\ c.slot = s
  BY NewCall, Members, NetConst DEF IcmpSlot
<1>3. /\ k \in Net /\ AllBut({"icmp", "mail"}, n, k)
      /\ k.icmp[s].state = "recv" /\ k.icmp[s].pid = p /\ k.icmp[s].count = n.icmp[s].count
      /\ k.icmp[s].head = n.icmp[s].head /\ k.icmp[s].ring = n.icmp[s].ring
      /\ k.icmp[s].tail = n.icmp[s].tail
      /\ \A r \in IcmpSlot \ {s} : k.icmp[r] = n.icmp[r]
      /\ k.mail[p] = NoMail /\ \A q \in Proc \ {p} : k.mail[q] = n.mail[q]
  BY <1>1, IcmpAwaitFacts
<1> HIDE DEF c, k
<1>4. /\ m \in Net /\ AllBut({"call"}, k, m) /\ m.call[p] = c
      /\ \A q \in Proc \ {p} : m.call[q] = k.call[q]
  BY <1>1, <1>2, <1>3, CallFacts
<1> HIDE DEF m
<1>5. /\ AllBut({"icmp", "mail", "call", "free", "ruined"}, n, m)
      /\ m.icmp = k.icmp /\ m.mail = k.mail /\ k.call = n.call /\ m.free = n.free /\ m.ruined = n.ruined
  BY <1>3, <1>4 DEF AllBut
<1>6. \A q \in Proc \ {p} : m.call[q] = n.call[q] /\ m.mail[q] = n.mail[q]
  BY <1>3, <1>4, <1>5
<1>7. /\ Open(m, "icmp", s) /\ Owner(m, "icmp", s) = p /\ ~Full(m, "icmp", s)
      /\ In(m, p, "icmp", s) /\ m.mail[p] = NoMail
  BY <1>2, <1>3, <1>4, <1>5, EntryIs DEF In
<1>8. MarkedAt(m, "icmp", s)
  BY <1>1, <1>7 DEF MarkedAt
<1>9. Agrees("icmp") => AgreedAt(m, "icmp", s)
  <2> SUFFICES ASSUME Agrees("icmp"), NEW q \in Proc, In(m, q, "icmp", s)
               PROVE  q = p
    BY <1>7 DEF AgreedAt
  <2> QED
    BY <1>6 DEF In, Agrees, Nobody
<1>10. /\ RingFits(m.icmp[s]) /\ (Accounts => RingSound(m.icmp[s]) /\ m.icmp[s].head < IcmpQsiz)
       /\ m.icmp[s].state = "recv"
  <2> DEFINE e == n.icmp[s]
             d == m.icmp[s]
  <2>1. d.count = e.count /\ d.head = e.head /\ d.tail = e.tail /\ d.ring = e.ring /\ d.state = "recv"
    BY <1>3, <1>5
  <2>2. RingFits(e) /\ (Accounts => RingSound(e) /\ e.head < IcmpQsiz)
    BY GoodNet DEF NetGood, Rings, Accounts
  <2> HIDE DEF d, e
  <2>3. RingFits(d) /\ (Accounts => RingSound(d) /\ d.head < IcmpQsiz)
    BY <2>1, <2>2, RingSame
  <2> QED
    BY <2>1, <2>3 DEF d
<1>11. \A r \in IcmpSlot \ {s} : m.icmp[r] = n.icmp[r]
  BY <1>3, <1>5
<1>12. NetGood(m)
  <2> DEFINE P == {p}
  <2>1. /\ P \in SUBSET NetProc
        /\ \A q \in Proc \ P : m.mail[q] = n.mail[q] /\ m.call[q] = n.call[q]
        /\ \A q \in P : q = p
    BY <1>6
  <2>2. /\ Within(n.call[p], "icmp", s) /\ Within(m.call[p], "icmp", s)
        /\ CallFits(m.call[p]) /\ m.call[p].op # "arp" /\ m.call[p].slot = s
    BY <1>2, <1>4 DEF Within, Table, CallFits
  <2> HIDE DEF P
  <2> QED
    BY <1>4, <1>5, <1>8, <1>9, <1>10, <1>11, <2>1, <2>2, IcmpSlotGood
<1>13. Total(m) = Total(n) + 0
  <2>1. CallSum(m) = CallSum(n)
    BY <1>1, <1>2, <1>4, <1>6, CallHoldsNone
  <2>2. m.free + InRing(m.icmp[s].ring) = n.free + InRing(n.icmp[s].ring)
    BY <1>3, <1>5
  <2> QED
    BY <1>1, <1>4, <1>5, <1>11, <2>1, <2>2, IcmpTotal
<1> QED
  BY <1>5, <1>12, <1>13 DEF Gives, m, k, c

\* icmp_recv, when it wakes up.
LEMMA IcmpReturnsGood ==
  ASSUME NEW n, NetGood(n), NEW p \in NetProc, n.call[p].op = "icmp"
  PROVE  Gives(n, Ended(IcmpWoken(n, p, n.call[p].slot), p), 0)
<1> DEFINE s == n.call[p].slot
           k == IcmpWoken(n, p, s)
           m == Ended(k, p)
           e == n.icmp[s]
           g == [e EXCEPT !.state = "used"]
<1>1. n \in Net /\ p \in Proc /\ s \in IcmpSlot /\ n.call[p] \in NetCalls
  BY GoodNet DEF Proc, CallFits
<1>2. In(n, p, "icmp", s) /\ (Accounts => e.head < IcmpQsiz)
  BY <1>1 DEF In, NetGood, Rings
<1> HIDE DEF s
<1>3. /\ k \in Net /\ AllBut({"icmp", "mail", "free", "ruined"}, n, k)
      /\ \A r \in IcmpSlot \ {s} : k.icmp[r] = n.icmp[r]
      /\ \A q \in Proc \ {p} : k.mail[q] = n.mail[q]
      /\ g \in IcmpEntry /\ g.state = "used" /\ g.head = e.head /\ g.count = e.count
      /\ g.ring = e.ring /\ g.tail = e.tail
      /\ n.mail[p] = "ok" /\ HeadHolds(g) =>
           k.icmp[s] = Took(g) /\ k.ruined = n.ruined /\ k.free = n.free + 1
      /\ ~(n.mail[p] = "ok" /\ HeadHolds(g)) => k.icmp[s] = g
      /\ n.mail[p] # "ok" => k.ruined = n.ruined /\ k.free = n.free
  BY <1>1, IcmpWokenFacts
<1>4. Agrees("icmp") => AgreedAt(n, "icmp", s)
  BY <1>1, TableFacts DEF NetGood, WaitersFit
<1>5. RingFits(e) /\ (Accounts => RingSound(e) /\ (n.mail[p] = "ok" => e.count > 0))
  <2>1. RingFits(e)
    BY <1>1, GoodNet
  <2> SUFFICES ASSUME Accounts
               PROVE  RingSound(e) /\ (n.mail[p] = "ok" => e.count > 0)
    BY <2>1
  <2>2. AgreedAt(n, "icmp", s)
    BY <1>4, TableFacts
  <2>3. Open(n, "icmp", s) \/ Full(n, "icmp", s)
    BY <1>1, <1>2, <2>2 DEF AgreedAt
  <2>4. e.state # "free"
    BY <2>3, EntryIs
  <2>5. n.mail[p] = "ok" => Full(n, "icmp", s)
    BY <1>1, <1>2, <2>2 DEF AgreedAt, NoMail
  <2> QED
    BY <1>1, <2>4, <2>5, EntryIs DEF NetGood, Rings
<1> HIDE DEF k, g, e
<1>6. RingFits(g) /\ (Accounts => RingSound(g) /\ (n.mail[p] = "ok" => HeadHolds(g)))
  <2>1. RingFits(g) /\ (Accounts => RingSound(g))
    BY <1>3, <1>5, RingSame
  <2>2. ASSUME Accounts, n.mail[p] = "ok"
        PROVE  HeadHolds(g)
    <3>1. RingSound(g) /\ g.count > 0 /\ g.head < IcmpQsiz
      BY <1>2, <1>3, <1>5, <2>1, <2>2
    <3> QED
      BY <1>3, <3>1, RingHead DEF HeadHolds
  <2> QED
    BY <2>1, <2>2
<1>7. HeadHolds(g) => /\ Took(g).state = "used" /\ RingFits(Took(g)) /\ InRing(Took(g).ring) = InRing(g.ring) - 1
                      /\ RingSound(g) => RingSound(Took(g))
  BY <1>3, <1>6, TookFacts DEF HeadHolds
<1>8. k.icmp[s].state = "used" /\ RingFits(k.icmp[s]) /\ (Accounts => RingSound(k.icmp[s]))
  BY <1>3, <1>6, <1>7
<1>9. /\ m \in Net /\ AllBut({"call"}, k, m) /\ m.call[p] = NetIdle
      /\ \A q \in Proc \ {p} : m.call[q] = k.call[q]
  BY <1>1, <1>3, CallFacts
<1> HIDE DEF m
<1>10. /\ AllBut({"icmp", "mail", "call", "free", "ruined"}, n, m)
       /\ m.icmp = k.icmp /\ m.mail = k.mail /\ k.call = n.call /\ m.free = k.free /\ m.ruined = k.ruined
  BY <1>3, <1>9 DEF AllBut
<1>11. \A q \in Proc \ {p} : m.call[q] = n.call[q] /\ m.mail[q] = n.mail[q]
  BY <1>3, <1>9, <1>10
<1>12. MarkedAt(m, "icmp", s)
  BY <1>8, <1>10, EntryIs DEF MarkedAt
<1>13. NetIdle.op = "none"
  BY DEF NetIdle
<1>14. Agrees("icmp") => Nobody(m, "icmp", s)
  <2> SUFFICES ASSUME Agrees("icmp"), NEW q \in Proc, In(m, q, "icmp", s)
               PROVE  FALSE
    BY DEF Nobody
  <2>1. q # p
    BY <1>9, <1>13 DEF In
  <2>2. In(n, q, "icmp", s)
    BY <1>11, <2>1 DEF In
  <2> QED
    BY <1>1, <1>2, <1>4, <2>1, <2>2 DEF AgreedAt
<1>15. \A r \in IcmpSlot \ {s} : m.icmp[r] = n.icmp[r]
  BY <1>3, <1>10
<1>16. NetGood(m)
  <2> DEFINE P == {p}
  <2>1. /\ P \in SUBSET NetProc
        /\ \A q \in Proc \ P : m.mail[q] = n.mail[q] /\ m.call[q] = n.call[q]
        /\ \A q \in P : q = p
    BY <1>11
  <2>2. /\ Within(n.call[p], "icmp", s) /\ Within(m.call[p], "icmp", s)
        /\ CallFits(m.call[p]) /\ m.call[p].op = "none"
    BY <1>2, <1>9, <1>13 DEF Within, Table, CallFits, In
  <2>3. /\ Agrees("icmp") => AgreedAt(m, "icmp", s)
        /\ Accounts => Nobody(m, "icmp", s)
    BY <1>14, TableFacts DEF AgreedAt, Nobody
  <2>4. m.icmp[s].state = "used" /\ RingFits(m.icmp[s]) /\ (Accounts => RingSound(m.icmp[s]))
    BY <1>8, <1>10
  <2> HIDE DEF P
  <2>5. /\ \A q \in P : Within(n.call[q], "icmp", s) /\ Within(m.call[q], "icmp", s)
        /\ \A q \in P : CallFits(m.call[q]) /\ m.call[q].op # "arp"
        /\ \A q \in P : m.call[q].op = "icmp" => m.call[q].slot = s
    BY <2>1, <2>2
  <2>6. /\ Accounts => IF m.icmp[s].state = "free" THEN InRing(m.icmp[s].ring) = 0
                       ELSE RingSound(m.icmp[s])
        /\ Accounts => Nobody(m, "icmp", s) \/ m.icmp[s].head < IcmpQsiz
    BY <2>3, <2>4
  <2> QED
    BY <1>1, <1>9, <1>10, <1>12, <1>15, <2>1, <2>3, <2>4, <2>5, <2>6, IcmpSlotGood
<1>17. Accounts => m.ruined = n.ruined /\ Total(m) = Total(n) + 0
  <2> SUFFICES ASSUME Accounts
               PROVE  m.ruined = n.ruined /\ Total(m) = Total(n) + 0
    OBVIOUS
  <2>1. m.ruined = n.ruined
    BY <1>3, <1>6, <1>10
  <2>2. CallSum(m) = CallSum(n)
    BY <1>1, <1>9, <1>11, <1>13, CallHoldsNone
  <2>3. m.free + InRing(m.icmp[s].ring) = n.free + InRing(n.icmp[s].ring)
    <3> DEFINE x == InRing(m.icmp[s].ring) y == InRing(n.icmp[s].ring) f == n.free h == m.free
    <3>1. y \in Int /\ f \in Int
      BY <1>1, SumsAre, RingIs
    <3>2. y = InRing(g.ring)
      BY <1>3 DEF e
    <3>3. (x = y /\ h = f) \/ (x = y - 1 /\ h = f + 1)
      BY <1>3, <1>6, <1>7, <1>10, <3>2
    <3> HIDE DEF x, y, f, h
    <3>4. h + x = f + y
      BY <3>1, <3>3
    <3> QED
      BY <3>4 DEF x, y, f, h
  <2> QED
    BY <1>1, <1>9, <1>10, <1>15, <2>1, <2>2, <2>3, IcmpTotal
<1> QED
  BY <1>16, <1>17 DEF Gives, m, k, s

\* icmp_release
LEMMA IcmpReleaseGood ==
  ASSUME NEW n, NetGood(n), NEW s \in IcmpSlot, "release" \in NetHazards \/ Nobody(n, "icmp", s),
         "wrap" \in NetHazards \/ n.icmp[s].head + n.icmp[s].count <= IcmpQsiz
  PROVE  Gives(n, IcmpRelease(n, s), 0)
<1> DEFINE m == IcmpRelease(n, s)
           e == n.icmp[s]
<1>1. n \in Net /\ Total(n) \in Int /\ RingFits(e)
  BY GoodNet, SumsAre
<1>2. CASE m = n
  BY <1>1, <1>2 DEF Gives
<1>3. CASE m # n
  <2>1. /\ m \in Net /\ AllBut({"icmp", "free", "ruined"}, n, m)
        /\ \A r \in IcmpSlot \ {s} : m.icmp[r] = n.icmp[r]
        /\ RingFits(m.icmp[s]) /\ m.icmp[s].state = "free" /\ e.state = "used"
        /\ RingSound(e) /\ e.head + e.count <= IcmpQsiz =>
             m.ruined = n.ruined /\ m.free = n.free + InRing(e.ring) /\ InRing(m.icmp[s].ring) = 0
    BY <1>1, <1>3, IcmpReleaseFacts
  <2>2. Accounts => RingSound(e) /\ e.head + e.count <= IcmpQsiz
    BY <2>1 DEF NetGood, Rings, Accounts
  <2>3. Accounts => m.ruined = n.ruined /\ m.free = n.free + InRing(e.ring) /\ InRing(m.icmp[s].ring) = 0
    BY <2>1, <2>2
  <2> HIDE DEF m
  <2>4. AllBut({"icmp", "mail", "call", "free", "ruined"}, n, m) /\ m.call = n.call /\ m.mail = n.mail
    BY <2>1 DEF AllBut
  <2>5. Accounts \/ Agrees("icmp") => Nobody(m, "icmp", s)
    <3>1. Accounts \/ Agrees("icmp") => Nobody(n, "icmp", s)
      BY DEF Accounts, Agrees
    <3> QED
      BY <2>4, <3>1 DEF Nobody, In
  <2>6. NetGood(m)
    <3>1. MarkedAt(m, "icmp", s)
      BY <2>1, EntryIs DEF MarkedAt
    <3>2. Agrees("icmp") => AgreedAt(m, "icmp", s)
      BY <2>5 DEF AgreedAt, Nobody
    <3> DEFINE P == {}
    <3>3. /\ P \in SUBSET NetProc
          /\ \A q \in Proc \ P : m.mail[q] = n.mail[q] /\ m.call[q] = n.call[q]
          /\ \A q \in P : FALSE
      BY <2>4
    <3> HIDE DEF P
    <3> QED
      BY <2>1, <2>3, <2>4, <2>5, <3>1, <3>2, <3>3, IcmpSlotGood
  <2>7. Accounts => Total(m) = Total(n) + 0
    <3> SUFFICES ASSUME Accounts
                 PROVE  Total(m) = Total(n) + 0
      OBVIOUS
    <3>1. m.free + InRing(m.icmp[s].ring) = n.free + InRing(n.icmp[s].ring)
      <4> DEFINE x == InRing(m.icmp[s].ring) y == InRing(n.icmp[s].ring) f == n.free g == m.free
      <4>1. x = 0 /\ g = f + y /\ y \in Int /\ f \in Int
        BY <1>1, <2>3, SumsAre, RingIs
      <4> HIDE DEF x, y, f, g
      <4>2. g + x = f + y
        BY <4>1
      <4> QED
        BY <4>2 DEF x, y, f, g
    <3>2. CallSum(m) = CallSum(n)
      BY <1>1, <2>1, <2>4, CallSumFacts
    <3> QED
      BY <1>1, <2>1, <2>4, <3>1, <3>2, IcmpTotal
  <2> QED
    BY <2>3, <2>6, <2>7 DEF Gives, m
<1> QED
  BY <1>2, <1>3

\* A process no longer waits for its entry of the ARP cache.
LEMMA ArpLeaveGood ==
  ASSUME NEW n, NetGood(n), NEW p \in Proc, n.call[p].op = "arp", NEW s, s = n.call[p].slot,
         NEW m \in Net, AllBut({"arp", "mail", "call"}, n, m), m.call[p] = NetIdle,
         \A q \in Proc \ {p} : m.call[q] = n.call[q] /\ m.mail[q] = n.mail[q],
         \A r \in ArpSlot \ {s} : m.arp[r] = n.arp[r],
         m.arp[s].state = "free" \/ (m.arp[s] = n.arp[s] /\ n.mail[p] # NoMail)
  PROVE  Gives(n, m, -1)
<1>1. n \in Net /\ s \in ArpSlot
  BY GoodNet DEF CallFits
<1>2. /\ m.udp = n.udp /\ m.icmp = n.icmp /\ m.free = n.free /\ m.frame = n.frame /\ m.ruined = n.ruined
      /\ AllBut({"arp", "udp", "icmp", "mail", "call", "free", "ruined"}, n, m)
  BY DEF AllBut
<1>3. m.call[p].op = "none"
  BY DEF NetIdle
<1>4. \A u \in Table : \A r \in SlotOf(u) : u # "arp" \/ r # s => Same(n, m, u, r)
  BY <1>1, <1>2, OneSlotChanges
<1>5. \A q \in Proc : In(m, q, "arp", s) => q # p /\ In(n, q, "arp", s)
  BY <1>3 DEF In
<1>6. In(n, p, "arp", s)
  BY DEF In
<1>7. Agrees("arp") => \A q \in Proc : ~In(m, q, "arp", s)
  <2> SUFFICES ASSUME Agrees("arp"), NEW q \in Proc, In(m, q, "arp", s)
               PROVE  FALSE
    OBVIOUS
  <2>1. AgreedAt(n, "arp", s)
    BY <1>1, TableFacts DEF NetGood, WaitersFit
  <2> QED
    BY <1>5, <1>6, <2>1 DEF AgreedAt
<1>8. Agrees("arp") => AgreedAt(m, "arp", s)
  BY <1>7 DEF AgreedAt
<1>9. Marks => MarkedAt(m, "arp", s)
  <2> SUFFICES ASSUME Marks, Open(m, "arp", s)
               PROVE  MarkedAt(m, "arp", s)
    BY DEF MarkedAt
  <2>1. m.arp[s] = n.arp[s] /\ n.mail[p] # NoMail
    BY EntryIs
  <2>2. Open(n, "arp", s) /\ Owner(m, "arp", s) = Owner(n, "arp", s)
    BY <2>1, EntryIs
  <2>3. MarkedAt(n, "arp", s)
    BY <1>1, TableFacts DEF NetGood, WaitersFit
  <2> DEFINE q == Owner(n, "arp", s)
  <2>4. q \in Proc /\ In(n, q, "arp", s) /\ n.mail[q] = NoMail
    BY <2>2, <2>3 DEF MarkedAt
  <2>5. q # p
    BY <2>1, <2>4
  <2>6. m.call[q] = n.call[q] /\ m.mail[q] = n.mail[q]
    BY <2>4, <2>5
  <2>7. In(m, q, "arp", s) /\ m.mail[q] = NoMail
    BY <2>4, <2>6 DEF In
  <2> QED
    BY <2>2, <2>4, <2>7 DEF MarkedAt
<1>10. Agrees("arp") => Heard(m) /\ Asked(m)
  <2> SUFFICES ASSUME Agrees("arp")
               PROVE  Heard(m) /\ Asked(m)
    OBVIOUS
  <2>1. Heard(n) /\ Asked(n)
    BY DEF NetGood
  <2>2. Heard(m)
    BY <1>1, <1>2, <2>1 DEF Heard
  <2>3. ASSUME NEW q \in Proc, m.call[q].op = "arp"
        PROVE  m.arp[m.call[q].slot].addr = m.call[q].hop
    <3>1. q # p
      BY <1>3, <2>3
    <3>2. n.call[q].op = "arp" /\ m.call[q] = n.call[q]
      BY <2>3, <3>1
    <3>3. n.call[q].slot # s
      BY <1>7, <2>3, <3>2 DEF In
    <3> DEFINE d == n.call[q]
    <3>4. d.slot \in ArpSlot
      BY <3>2, GoodNet DEF CallFits
    <3>5. m.arp[d.slot] = n.arp[d.slot]
      BY <3>3, <3>4
    <3>6. n.arp[d.slot].addr = d.hop
      BY <2>1, <3>2 DEF Asked
    <3> HIDE DEF d
    <3>7. m.arp[d.slot].addr = d.hop
      BY <3>5, <3>6
    <3> QED
      BY <3>2, <3>7 DEF d
  <2> QED
    BY <2>2, <2>3 DEF Asked
<1>11. Accounts => Rings(m)
  <2>1. ASSUME Rings(n)
        PROVE  Rings(m)
    <3>1. \A q \in Proc : m.call[q].op = "icmp" => m.call[q] = n.call[q]
      BY <1>3
    <3>2. \A r \in UdpSlot : m.udp[r].state = "free" => m.udp[r].q = <<>>
      BY <1>2, <2>1 DEF Rings
    <3> QED
      BY <1>2, <2>1, <3>1, <3>2, RingsKept
  <2> QED
    BY <2>1 DEF NetGood
<1>12. NetGood(m)
  <2> DEFINE t == "arp"
             P == {p}
  <2>1. t \in Table /\ s \in SlotOf(t) /\ P \in SUBSET Proc
    BY <1>1, TableFacts
  <2>2. \A q \in P : Within(n.call[q], t, s) /\ Within(m.call[q], t, s) /\ CallFits(m.call[q])
    <3>1. Within(n.call[p], t, s) /\ Within(m.call[p], t, s) /\ CallFits(m.call[p])
      BY <1>3 DEF Within, Table, CallFits
    <3> QED
      BY <3>1
  <2>3. /\ \A q \in Proc \ P : m.mail[q] = n.mail[q] /\ m.call[q] = n.call[q]
        /\ IpOut \in P => m.call[IpOut].op \in {"none", "arp"}
        /\ \A r \in IcmpSlot : RingFits(m.icmp[r])
        /\ (Marks => MarkedAt(m, t, s)) /\ (Agrees(t) => AgreedAt(m, t, s))
        /\ \A u \in Table : \A r \in SlotOf(u) : u # t \/ r # s => Same(n, m, u, r)
    BY <1>2, <1>3, <1>4, <1>8, <1>9, GoodNet
  <2> HIDE DEF t, P
  <2> QED
    BY <1>2, <1>10, <1>11, <2>1, <2>2, <2>3, SlotGood
<1>13. Total(m) = Total(n) + (-1)
  <2>1. CallSum(m) = CallSum(n) - HeldBy(n.call[p]) + HeldBy(m.call[p])
    BY <1>1, CallSumFacts
  <2>2. HeldBy(n.call[p]) = 1 /\ HeldBy(m.call[p]) = 0
    BY <1>3, HeldIs
  <2>3. Total(m) = Total(n) + (m.free - n.free) + (CallSum(m) - CallSum(n))
    BY <1>1, <1>2, TotalMoves
  <2> DEFINE x == CallSum(m) y == CallSum(n) f == n.free T == Total(m) S == Total(n)
  <2>4. x \in Int /\ x = y - 1 + 0 /\ y \in Int /\ f \in Int /\ S \in Int
    BY <1>1, <2>1, <2>2, SumsAre
  <2>5. T = S + (f - f) + (x - y)
    BY <1>2, <2>3
  <2> HIDE DEF x, y, f, T, S
  <2>6. T = S + (-1)
    BY <2>4, <2>5
  <2> QED
    BY <2>6 DEF T, S
<1> QED
  BY <1>2, <1>12, <1>13 DEF Gives

\* arp_resolve, once a message has come: the entry is resolved and has the
\* hardware address of the hop.
LEMMA ArpReturnsGood ==
  ASSUME NEW n, NetGood(n), NEW p \in Proc, n.call[p].op = "arp", n.mail[p] # NoMail
  PROVE  LET m == Cleared(Ended(n, p), p) c == n.call[p] IN
         /\ Gives(n, m, -1) /\ m.arp = n.arp /\ m.arp[c.slot].hw \in Host /\ c.hop \in Host
         /\ Agrees("arp") => m.arp[c.slot].hw = c.hop
<1> DEFINE c == n.call[p]
           k == Ended(n, p)
           m == Cleared(k, p)
<1>1. n \in Net /\ c \in NetCalls /\ c.slot \in ArpSlot
  BY GoodNet DEF CallFits
<1>2. k \in Net /\ AllBut({"call"}, n, k) /\ k.call[p] = NetIdle /\ \A q \in Proc \ {p} : k.call[q] = n.call[q]
  BY <1>1, CallFacts
<1> HIDE DEF k
<1>3. m \in Net /\ AllBut({"mail"}, k, m) /\ m.mail = [k.mail EXCEPT ![p] = NoMail]
  BY <1>2, MailFacts
<1>4. DOMAIN k.mail = Proc
  BY <1>2, NetParts
<1> HIDE DEF m
<1>5. AllBut({"arp", "mail", "call"}, n, m) /\ m.arp = n.arp /\ m.call = k.call /\ k.mail = n.mail
  BY <1>2, <1>3 DEF AllBut
<1>6. \A q \in Proc \ {p} : m.mail[q] = n.mail[q]
  BY <1>3, <1>4, <1>5
<1>7. Gives(n, m, -1)
  <2> DEFINE s == c.slot
  <2>1. s = n.call[p].slot
    OBVIOUS
  <2>2. /\ \A r \in ArpSlot \ {s} : m.arp[r] = n.arp[r]
        /\ m.arp[s] = n.arp[s] /\ m.call[p] = NetIdle
        /\ \A q \in Proc \ {p} : m.call[q] = n.call[q] /\ m.mail[q] = n.mail[q]
    BY <1>2, <1>5, <1>6
  <2> HIDE DEF s
  <2> QED
    BY <1>3, <1>5, <2>1, <2>2, ArpLeaveGood
<1>8. m.arp[c.slot].hw \in Host /\ c.hop \in Host
  BY <1>1, <1>5, ArpParts DEF NetCalls
<1>9. Agrees("arp") => m.arp[c.slot].hw = c.hop
  <2> SUFFICES ASSUME Agrees("arp")
               PROVE  n.arp[c.slot].hw = c.hop
    BY <1>5
  <2>1. AgreedAt(n, "arp", c.slot)
    BY <1>1, TableFacts DEF NetGood, WaitersFit
  <2>2. In(n, p, "arp", c.slot)
    BY DEF In
  <2>3. Full(n, "arp", c.slot)
    BY <2>1, <2>2 DEF AgreedAt
  <2>4. n.arp[c.slot].state = "resolved"
    BY <2>3, EntryIs
  <2>5. Heard(n) /\ Asked(n)
    BY DEF NetGood
  <2>6. n.arp[c.slot].hw = n.arp[c.slot].addr
    BY <1>1, <2>4, <2>5 DEF Heard
  <2>7. n.arp[c.slot].addr = c.hop
    BY <2>5 DEF Asked
  <2> QED
    BY <2>6, <2>7
<1> QED
  BY <1>5, <1>7, <1>8, <1>9 DEF m, k

\* arp_resolve, when it gives up.
LEMMA ArpGivesUpGood ==
  ASSUME NEW n, NetGood(n), NEW p \in Proc, n.call[p].op = "arp"
  PROVE  Gives(n, Freed(ArpExpire(Ended(n, p), n.call[p].slot)), 0)
<1> DEFINE s == n.call[p].slot
           k == Ended(n, p)
           m == ArpExpire(k, s)
<1>1. n \in Net /\ n.call[p] \in NetCalls /\ s \in ArpSlot
  BY GoodNet DEF CallFits
<1>2. k \in Net /\ AllBut({"call"}, n, k) /\ k.call[p] = NetIdle /\ \A q \in Proc \ {p} : k.call[q] = n.call[q]
  BY <1>1, CallFacts
<1> HIDE DEF k
<1>3. /\ m \in Net /\ AllBut({"arp"}, k, m) /\ m.arp[s].state = "free"
      /\ \A r \in ArpSlot \ {s} : m.arp[r] = k.arp[r]
  BY <1>1, <1>2, ArpExpireFacts
<1> HIDE DEF m
<1>4. AllBut({"arp", "mail", "call"}, n, m) /\ k.arp = n.arp /\ m.call = k.call /\ m.mail = n.mail
  BY <1>2, <1>3 DEF AllBut
<1>5. Gives(n, m, -1)
  <2>1. s = n.call[p].slot
    OBVIOUS
  <2>2. /\ \A r \in ArpSlot \ {s} : m.arp[r] = n.arp[r]
        /\ m.call[p] = NetIdle
        /\ \A q \in Proc \ {p} : m.call[q] = n.call[q] /\ m.mail[q] = n.mail[q]
    BY <1>2, <1>3, <1>4
  <2>3. m.arp[s].state = "free" \/ (m.arp[s] = n.arp[s] /\ n.mail[p] # NoMail)
    BY <1>3
  <2>4. m \in Net /\ AllBut({"arp", "mail", "call"}, n, m)
    BY <1>3, <1>4
  <2> HIDE DEF s
  <2> QED
    BY <2>1, <2>2, <2>3, <2>4, ArpLeaveGood
<1>6. Gives(m, Freed(m), 1)
  BY <1>5, BufferGood DEF Gives
<1>7. Gives(n, Freed(m), -1 + 1)
  BY <1>1, <1>5, <1>6, GivesBoth
<1>8. Gives(n, Freed(m), 0)
  BY <1>7
<1> QED
  BY <1>8 DEF m, k

\* arp_resolve, when it asks again.
LEMMA ArpAgainGood ==
  ASSUME NEW n, NetGood(n), NEW p \in Proc, n.call[p].op = "arp"
  PROVE  Gives(n, [n EXCEPT !.call[p].tries = @ + 1], 0)
<1> DEFINE c == n.call[p]
           s == c.slot
           d == [c EXCEPT !.tries = @ + 1]
           m == [n EXCEPT !.call[p].tries = @ + 1]
<1>1. n \in Net /\ c \in NetCalls /\ s \in ArpSlot
  BY GoodNet DEF CallFits
<1>2. d \in NetCalls /\ d.op = c.op /\ d.slot = c.slot /\ d.hop = c.hop
  <2> HIDE DEF c
  <2> QED
    BY <1>1 DEF NetCalls
<1>3. m = Waiting(n, p, d)
  BY <1>1 DEF Waiting
<1> HIDE DEF d, m
<1>4. m \in Net /\ AllBut({"call"}, n, m) /\ m.call[p] = d /\ \A q \in Proc \ {p} : m.call[q] = n.call[q]
  BY <1>1, <1>2, <1>3, CallFacts
<1>5. /\ m.arp = n.arp /\ m.udp = n.udp /\ m.icmp = n.icmp /\ m.free = n.free /\ m.frame = n.frame
      /\ m.ruined = n.ruined /\ m.mail = n.mail
      /\ AllBut({"arp", "udp", "icmp", "mail", "call", "free", "ruined"}, n, m)
  BY <1>4 DEF AllBut
<1>6. \A q \in Proc : m.call[q].op = n.call[q].op /\ m.call[q].slot = n.call[q].slot /\ m.call[q].hop = n.call[q].hop
  <2>1. ASSUME NEW q \in Proc, q = p
        PROVE  m.call[q].op = n.call[q].op /\ m.call[q].slot = n.call[q].slot /\ m.call[q].hop = n.call[q].hop
    BY <1>2, <1>4, <2>1
  <2> QED
    BY <1>4, <2>1
<1>7. \A q \in Proc : In(m, q, "arp", s) <=> In(n, q, "arp", s)
  BY <1>6 DEF In
<1>8. /\ Open(m, "arp", s) <=> Open(n, "arp", s)
      /\ Owner(m, "arp", s) = Owner(n, "arp", s)
      /\ Full(m, "arp", s) <=> Full(n, "arp", s)
  BY <1>5, EntryIs
<1>9. Marks => MarkedAt(m, "arp", s)
  <2> SUFFICES ASSUME Marks
               PROVE  MarkedAt(m, "arp", s)
    OBVIOUS
  <2>1. MarkedAt(n, "arp", s)
    BY <1>1, TableFacts DEF NetGood, WaitersFit
  <2> QED
    BY <1>5, <1>7, <1>8, <2>1 DEF MarkedAt
<1>10. Agrees("arp") => AgreedAt(m, "arp", s)
  <2> SUFFICES ASSUME Agrees("arp")
               PROVE  AgreedAt(m, "arp", s)
    OBVIOUS
  <2>1. AgreedAt(n, "arp", s)
    BY <1>1, TableFacts DEF NetGood, WaitersFit
  <2> QED
    BY <1>5, <1>7, <1>8, <2>1 DEF AgreedAt
<1>11. Agrees("arp") => Heard(m) /\ Asked(m)
  <2>1. ASSUME Heard(n), Asked(n)
        PROVE  Heard(m) /\ Asked(m)
    BY <1>5, <1>6, <2>1 DEF Heard, Asked
  <2> QED
    BY <2>1 DEF NetGood
<1>12. Accounts => Rings(m)
  <2>1. ASSUME Rings(n)
        PROVE  Rings(m)
    BY <1>5, <1>6, <2>1 DEF Rings
  <2> QED
    BY <2>1 DEF NetGood
<1>13. NetGood(m)
  <2> DEFINE t == "arp"
             P == {p}
  <2>1. t \in Table /\ s \in SlotOf(t) /\ P \in SUBSET Proc
    BY <1>1, TableFacts
  <2>2. \A q \in P : Within(n.call[q], t, s) /\ Within(m.call[q], t, s) /\ CallFits(m.call[q])
    <3>1. Within(n.call[p], t, s) /\ Within(m.call[p], t, s) /\ CallFits(m.call[p])
      BY <1>1, <1>2, <1>4 DEF Within, Table, CallFits
    <3> QED
      BY <3>1
  <2>3. /\ \A q \in Proc \ P : m.mail[q] = n.mail[q] /\ m.call[q] = n.call[q]
        /\ IpOut \in P => m.call[IpOut].op \in {"none", "arp"}
        /\ \A r \in IcmpSlot : RingFits(m.icmp[r])
        /\ (Marks => MarkedAt(m, t, s)) /\ (Agrees(t) => AgreedAt(m, t, s))
    BY <1>2, <1>4, <1>5, <1>9, <1>10, GoodNet
  <2>4. \A u \in Table : \A r \in SlotOf(u) : u # t \/ r # s => Same(n, m, u, r)
    BY <1>1, <1>4, <1>5, OneSlotChanges
  <2> HIDE DEF t, P, s
  <2> QED
    BY <1>4, <1>5, <1>11, <1>12, <2>1, <2>2, <2>3, <2>4, SlotGood
<1>14. Total(m) = Total(n) + 0
  <2>1. CallSum(m) = CallSum(n) - HeldBy(n.call[p]) + HeldBy(m.call[p])
    BY <1>1, <1>4, CallSumFacts
  <2>2. HeldBy(n.call[p]) = 1 /\ HeldBy(m.call[p]) = 1
    BY <1>2, <1>4, HeldIs
  <2>3. Total(m) = Total(n) + (m.free - n.free) + (CallSum(m) - CallSum(n))
    BY <1>1, <1>4, <1>5, TotalMoves
  <2> DEFINE x == CallSum(m) y == CallSum(n) f == n.free T == Total(m) S == Total(n)
  <2>4. x \in Int /\ x = y - 1 + 1 /\ y \in Int /\ f \in Int /\ S \in Int
    BY <1>1, <1>4, <2>1, <2>2, SumsAre
  <2>5. T = S + (f - f) + (x - y)
    BY <1>5, <2>3
  <2> HIDE DEF x, y, f, T, S
  <2>6. T = S + 0
    BY <2>4, <2>5
  <2> QED
    BY <2>6 DEF T, S
<1>15. Gives(n, m, 0)
  BY <1>5, <1>13, <1>14 DEF Gives
<1> QED
  BY <1>15 DEF m

\* arp_in, what it does to the entry of the sender.
LEMMA ArpHearGood ==
  ASSUME NEW n, NetGood(n), NEW f \in ArpFrames
  PROVE  Gives(n, ArpHear(n, f), 0)
<1> DEFINE s == ArpFind(n.arp, f.snd)
           e == n.arp[s]
           m == ArpHear(n, f)
<1>1. n \in Net /\ Total(n) \in Int
  BY GoodNet, SumsAre
<1>2. CASE s = -1
  <2>1. m = n
    BY <1>1, <1>2, ArpHearFacts
  <2> HIDE DEF m
  <2>2. Gives(n, n, 0)
    BY <1>1 DEF Gives
  <2> QED
    BY <2>1, <2>2 DEF m
<1>3. CASE s # -1
  <2>1. /\ m \in Net /\ AllBut({"arp", "mail"}, n, m)
        /\ s \in ArpSlot /\ e.state # "free" /\ e.addr = f.snd
        /\ m.arp[s].state = "resolved" /\ m.arp[s].addr = f.snd /\ m.arp[s].hw = f.snd
        /\ \A r \in ArpSlot \ {s} : m.arp[r] = n.arp[r]
        /\ \A q \in Proc : m.mail[q] = IF e.state = "pending" /\ q = e.pid /\ n.mail[q] = NoMail
                                       THEN "ok" ELSE n.mail[q]
    BY <1>1, <1>3, ArpHearFacts
  <2> HIDE DEF s, m
  <2>2. AllBut({"arp", "udp", "icmp", "mail"}, n, m) /\ m.icmp = n.icmp /\ m.udp = n.udp /\ m.call = n.call
        /\ m.frame = n.frame /\ m.free = n.free /\ m.ruined = n.ruined
    BY <2>1 DEF AllBut
  <2>3. \A u \in Table : \A r \in SlotOf(u) : u # "arp" \/ r # s => Same(n, m, u, r)
    BY <1>1, <2>1, <2>2, OneSlotChanges
  <2>4. /\ ~Open(m, "arp", s) /\ Full(m, "arp", s)
        /\ Open(n, "arp", s) <=> e.state = "pending"
        /\ Owner(n, "arp", s) = e.pid
    BY <2>1, EntryIs
  <2>5. Agrees("arp") => Heard(m) /\ Asked(m)
    <3>1. ASSUME Heard(n), Asked(n)
          PROVE  Heard(m) /\ Asked(m)
      <4>1. Heard(m)
        BY <2>1, <2>2, <3>1 DEF Heard
      <4>2. \A r \in ArpSlot : m.arp[r].addr = n.arp[r].addr
        BY <2>1
      <4>3. \A q \in Proc : n.call[q].op = "arp" => n.call[q].slot \in ArpSlot
        BY GoodNet DEF CallFits
      <4>4. Asked(m)
        BY <2>2, <3>1, <4>2, <4>3 DEF Asked
      <4> QED
        BY <4>1, <4>4
    <3> QED
      BY <3>1 DEF NetGood
  <2>6. Accounts => Rings(m)
    <3>1. ASSUME Rings(n)
          PROVE  Rings(m)
      BY <2>2, <3>1 DEF Rings
    <3> QED
      BY <3>1 DEF NetGood
  <2>7. \A r \in IcmpSlot : RingFits(m.icmp[r])
    BY <2>2, GoodNet
  <2>8. NetGood(m)
    <3>1. \A q \in Proc : m.mail[q] = IF Open(n, "arp", s) /\ q = Owner(n, "arp", s) /\ n.mail[q] = NoMail
                                      THEN "ok" ELSE n.mail[q]
      BY <2>1, <2>4
    <3> DEFINE t == "arp"
    <3>2. t \in Table /\ s \in SlotOf(t)
      BY <2>1, TableFacts
    <3>3. /\ \A u \in Table : \A r \in SlotOf(u) : u # t \/ r # s => Same(n, m, u, r)
          /\ \A q \in Proc : m.mail[q] = IF Open(n, t, s) /\ q = Owner(n, t, s) /\ n.mail[q] = NoMail
                                         THEN "ok" ELSE n.mail[q]
          /\ ~Open(m, t, s) /\ Full(m, t, s)
      BY <2>3, <2>4, <3>1
    <3> HIDE DEF t
    <3> QED
      BY <2>1, <2>2, <2>5, <2>6, <2>7, <3>2, <3>3, WakesGood
  <2>9. Total(m) = Total(n) + 0
    <3>1. AllBut({"arp", "udp", "icmp", "mail", "call", "free", "ruined"}, n, m)
      BY <2>2 DEF AllBut
    <3>2. CallSum(m) = CallSum(n)
      BY <1>1, <2>1, <2>2, CallSumFacts
    <3>3. Total(m) = Total(n) + (m.free - n.free) + (CallSum(m) - CallSum(n))
      BY <1>1, <2>1, <2>2, <3>1, TotalMoves
    <3> DEFINE y == CallSum(n) x == n.free T == Total(m) S == Total(n)
    <3>4. y \in Int /\ x \in Int /\ S \in Int
      BY <1>1, SumsAre
    <3>5. T = S + (x - x) + (y - y)
      BY <2>2, <3>2, <3>3
    <3> HIDE DEF x, y, T, S
    <3>6. T = S + 0
      BY <3>4, <3>5
    <3> QED
      BY <3>6 DEF T, S
  <2> QED
    BY <2>2, <2>8, <2>9 DEF Gives, m
<1> QED
  BY <1>2, <1>3

\* arp_in
LEMMA ArpInGood ==
  ASSUME NEW n, NetGood(n), NEW f \in ArpFrames,
         "recycle" \in NetHazards \/ ~(ArpLearns(n, f) /\ Recycles(n))
  PROVE  Gives(n, ArpIn(n, f), 0)
<1> DEFINE m == ArpIn(n, f)
           s == ArpVictim(n.arp)
<1>1. n \in Net /\ DOMAIN n.call = Proc
  BY GoodNet, NetParts
<1>2. CASE m = ArpHear(n, f)
  BY <1>2, ArpHearGood
<1>3. CASE m # ArpHear(n, f)
  <2>1. /\ ArpLearns(n, f) /\ s \in ArpSlot
        /\ m \in Net /\ AllBut({"arp"}, n, m)
        /\ m.arp[s].state = "resolved" /\ m.arp[s].hw = m.arp[s].addr
        /\ \A r \in ArpSlot \ {s} : m.arp[r] = n.arp[r]
    BY <1>1, <1>3, ArpInFacts
  <2>2. Agrees("arp") => \A p \in Proc : n.call[p].op = "arp" => n.call[p].slot # s
    BY <1>1, <2>1 DEF Agrees, Recycles
  <2> HIDE DEF s, m
  <2>3. AllBut({"arp", "udp", "icmp", "mail", "call", "free", "ruined"}, n, m) /\ m.icmp = n.icmp /\ m.udp = n.udp
        /\ m.call = n.call /\ m.mail = n.mail /\ m.frame = n.frame /\ m.free = n.free /\ m.ruined = n.ruined
    BY <2>1 DEF AllBut
  <2>4. \A u \in Table : \A r \in SlotOf(u) : u # "arp" \/ r # s => Same(n, m, u, r)
    BY <1>1, <2>1, <2>3, OneSlotChanges
  <2>5. MarkedAt(m, "arp", s)
    BY <2>1, EntryIs DEF MarkedAt
  <2>6. Agrees("arp") => AgreedAt(m, "arp", s)
    BY <2>2, <2>3 DEF AgreedAt, In
  <2>7. Agrees("arp") => Heard(m) /\ Asked(m)
    <3> SUFFICES ASSUME Agrees("arp")
                 PROVE  Heard(m) /\ Asked(m)
      OBVIOUS
    <3>1. Heard(n) /\ Asked(n)
      BY DEF NetGood
    <3>2. Heard(m)
      BY <2>1, <2>3, <3>1 DEF Heard
    <3>3. \A q \in Proc : n.call[q].op = "arp" => n.call[q].slot \in ArpSlot \ {s}
      BY <2>2, GoodNet DEF CallFits
    <3>4. Asked(m)
      BY <2>1, <2>3, <3>1, <3>3 DEF Asked
    <3> QED
      BY <3>2, <3>4
  <2>8. Accounts => Rings(m)
    <3>1. ASSUME Rings(n)
          PROVE  Rings(m)
      BY <2>3, <3>1 DEF Rings
    <3> QED
      BY <3>1 DEF NetGood
  <2>9. NetGood(m)
    <3> DEFINE t == "arp"
               P == {}
    <3>1. t \in Table /\ s \in SlotOf(t) /\ P \in SUBSET Proc /\ \A q \in P : FALSE
      BY <2>1, TableFacts
    <3>2. /\ \A q \in Proc \ P : m.mail[q] = n.mail[q] /\ m.call[q] = n.call[q]
          /\ \A r \in IcmpSlot : RingFits(m.icmp[r])
          /\ MarkedAt(m, t, s) /\ (Agrees(t) => AgreedAt(m, t, s))
          /\ \A u \in Table : \A r \in SlotOf(u) : u # t \/ r # s => Same(n, m, u, r)
      BY <2>3, <2>4, <2>5, <2>6, GoodNet
    <3>3. m \in Net /\ AllBut({"arp", "udp", "icmp", "mail", "call", "free", "ruined"}, n, m)
      BY <2>1, <2>3
    <3> HIDE DEF t, P
    <3> QED
      BY <2>7, <2>8, <3>1, <3>2, <3>3, SlotGood
  <2>10. Total(m) = Total(n) + 0
    <3>1. CallSum(m) = CallSum(n)
      BY <1>1, <2>1, <2>3, CallSumFacts
    <3>2. Total(m) = Total(n) + (m.free - n.free) + (CallSum(m) - CallSum(n))
      BY <1>1, <2>1, <2>3, TotalMoves
    <3> DEFINE y == CallSum(n) x == n.free T == Total(m) S == Total(n)
    <3>3. y \in Int /\ x \in Int /\ S \in Int
      BY <1>1, SumsAre
    <3>4. T = S + (x - x) + (y - y)
      BY <2>3, <3>1, <3>2
    <3> HIDE DEF x, y, T, S
    <3>5. T = S + 0
      BY <3>3, <3>4
    <3> QED
      BY <3>5 DEF T, S
  <2> QED
    BY <2>3, <2>9, <2>10 DEF Gives, m
<1> QED
  BY <1>2, <1>3

\* A message that nobody expects, where the hazard is admitted.
LEMMA StrayGood ==
  ASSUME NEW n, NetGood(n), NEW p \in Proc, NEW msg \in {"ok", "other", "syserr"}, "stray" \in NetHazards
  PROVE  Gives(n, Sent(n, p, msg), 0)
<1> DEFINE m == Sent(n, p, msg)
<1>1. n \in Net
  BY GoodNet
<1>2. m \in Net /\ AllBut({"mail"}, n, m)
  BY <1>1, MailFacts
<1> HIDE DEF m
<1>3. ~Marks /\ ~Accounts /\ \A t \in Table : ~Agrees(t)
  BY DEF Marks, Agrees, Accounts
<1>4. m.call = n.call /\ m.icmp = n.icmp /\ m.netin = n.netin /\ m.oq = n.oq
  BY <1>2 DEF AllBut
<1>5. NetTypes(m)
  BY <1>2, <1>4 DEF NetGood, NetTypes
<1>6. NetGood(m)
  BY <1>3, <1>5, TableFacts DEF NetGood, WaitersFit
<1> QED
  BY <1>3, <1>6 DEF Gives, m

-------------------------------------------------------------------------------
(* The actions *)

LEMMA GivesBack ==
  ASSUME NEW n, NetGood(n), NEW m, NEW l, Gives(n, m, -1), NetGood(m) => Gives(m, l, 1)
  PROVE  Gives(n, l, 0)
<1>1. n \in Net /\ Gives(m, l, 1)
  BY GoodNet DEF Gives
<1>2. Gives(n, l, -1 + 1)
  BY <1>1, GivesBoth
<1> QED
  BY <1>2

\* What the cases left out depend on.
LEMMA StillLeftOut ==
  ASSUME NEW n, NEW m, NEW pkt, m.arp = n.arp, m.icmp = n.icmp, m.oq = n.oq, m.call[IpOut] = n.call[IpOut],
         \A q \in DOMAIN m.call : m.call[q].op = "arp" => q \in DOMAIN n.call /\ m.call[q] = n.call[q]
  PROVE  /\ Recycles(m) => Recycles(n)
         /\ Floods(m, pkt) => Floods(n, pkt)
         /\ Overtakes(m) => Overtakes(n)
         /\ Excluded(m, pkt) => Excluded(n, pkt)
<1>1. Recycles(m) => Recycles(n)
  BY DEF Recycles
<1>2. Floods(m, pkt) => Floods(n, pkt)
  BY DEF Floods, IcmpWanted
<1>3. Overtakes(m) => Overtakes(n)
  BY DEF Overtakes
<1> QED
  BY <1>1, <1>2, <1>3 DEF Excluded

LEMMA CallersAre ==
  ASSUME NEW p, p \in Callers
  PROVE  p \in NetProc /\ p \in Proc /\ nw.call[p].op = "none"
  BY DEF Callers, Proc

LEMMA UnsharedIs ==
  ASSUME NetGood(nw), NEW t \in {"udp", "icmp"}, NEW s, Unshared(t, s)
  PROVE  Nobody(nw, t, s)
<1>1. nw.call[IpOut].op # t
  BY GoodNet
<1> QED
  BY <1>1 DEF Unshared, Nobody, In, Proc

LEMMA SelfIs ==
  ASSUME NEW n
  PROVE  Self(n) \in Host
  BY Members DEF Self

\* The processes that receive, register and release.
LEMMA UdpGood ==
  ASSUME NetGood(nw), NEW p \in NetProc,
         RegisterUdp(p) \/ RecvUdp(p) \/ UdpReturns(p) \/ ReleaseUdp(p)
  PROVE  Gives(nw, nw', 0)
<1>1. CASE RegisterUdp(p)
  BY <1>1, Members, UdpRegisterGood DEF RegisterUdp
<1>2. CASE RecvUdp(p)
  <2>1. PICK s \in UdpSlot :
          /\ p \in Callers /\ nw.udp[s].state = "used"
          /\ "share" \in NetHazards \/ Unshared("udp", s)
          /\ nw' = IF nw.udp[s].q # <<>> THEN UdpTake(nw, s)
                   ELSE Waiting(UdpAwait(nw, p, s), p, NetCall("udp", s, NoPacket))
    BY <1>2 DEF RecvUdp
  <2>2. "share" \in NetHazards \/ Nobody(nw, "udp", s)
    BY <2>1, UnsharedIs
  <2>3. CASE nw.udp[s].q # <<>>
    BY <2>1, <2>2, <2>3, UdpTakeGood
  <2>4. CASE nw.udp[s].q = <<>>
    <3>1. nw.call[p].op = "none"
      BY <2>1, CallersAre
    <3>2. nw' = Waiting(UdpAwait(nw, p, s), p, NetCall("udp", s, NoPacket))
      BY <2>1, <2>4
    <3>3. Gives(nw, Waiting(UdpAwait(nw, p, s), p, NetCall("udp", s, NoPacket)), 0)
      BY <2>2, <2>4, <3>1, UdpAwaitGood
    <3> QED
      BY <3>2, <3>3
  <2> QED
    BY <2>3, <2>4
<1>3. CASE UdpReturns(p)
  BY <1>3, UdpReturnsGood DEF UdpReturns
<1>4. CASE ReleaseUdp(p)
  <2>1. PICK s \in UdpSlot :
          ("release" \in NetHazards \/ Unshared("udp", s)) /\ nw' = UdpRelease(nw, s)
    BY <1>4 DEF ReleaseUdp
  <2>2. "release" \in NetHazards \/ Nobody(nw, "udp", s)
    BY <2>1, UnsharedIs
  <2> QED
    BY <2>1, <2>2, UdpReleaseGood
<1> QED
  BY <1>1, <1>2, <1>3, <1>4

LEMMA IcmpGood ==
  ASSUME NetGood(nw), NEW p \in NetProc,
         RegisterIcmp(p) \/ RecvIcmp(p) \/ IcmpReturns(p) \/ ReleaseIcmp(p)
  PROVE  Gives(nw, nw', 0)
<1>1. CASE RegisterIcmp(p)
  BY <1>1, Members, IcmpRegisterGood DEF RegisterIcmp
<1>2. CASE RecvIcmp(p)
  <2>1. PICK s \in IcmpSlot :
          /\ p \in Callers /\ nw.icmp[s].state = "used"
          /\ "share" \in NetHazards \/ Unshared("icmp", s)
          /\ "wrap" \in NetHazards \/ nw.icmp[s].head < IcmpQsiz
          /\ nw' = IF nw.icmp[s].count # 0 THEN IcmpTake(nw, s)
                   ELSE Waiting(IcmpAwait(nw, p, s), p, NetCall("icmp", s, NoPacket))
    BY <1>2 DEF RecvIcmp
  <2>2. "share" \in NetHazards \/ Nobody(nw, "icmp", s)
    BY <2>1, UnsharedIs
  <2>3. CASE nw.icmp[s].count # 0
    BY <2>1, <2>2, <2>3, IcmpTakeGood
  <2>4. CASE nw.icmp[s].count = 0
    <3>1. nw.call[p].op = "none"
      BY <2>1, CallersAre
    <3>2. nw' = Waiting(IcmpAwait(nw, p, s), p, NetCall("icmp", s, NoPacket))
      BY <2>1, <2>4
    <3>3. Gives(nw, Waiting(IcmpAwait(nw, p, s), p, NetCall("icmp", s, NoPacket)), 0)
      BY <2>1, <2>2, <2>4, <3>1, IcmpAwaitGood
    <3> QED
      BY <3>2, <3>3
  <2> QED
    BY <2>3, <2>4
<1>3. CASE IcmpReturns(p)
  BY <1>3, IcmpReturnsGood DEF IcmpReturns
<1>4. CASE ReleaseIcmp(p)
  <2>1. PICK s \in IcmpSlot :
          /\ "release" \in NetHazards \/ Unshared("icmp", s)
          /\ "wrap" \in NetHazards \/ nw.icmp[s].head + nw.icmp[s].count <= IcmpQsiz
          /\ nw' = IcmpRelease(nw, s)
    BY <1>4 DEF ReleaseIcmp
  <2>2. "release" \in NetHazards \/ Nobody(nw, "icmp", s)
    BY <2>1, UnsharedIs
  <2> QED
    BY <2>1, <2>2, IcmpReleaseGood
<1> QED
  BY <1>1, <1>2, <1>3, <1>4

\* The processes that send.
LEMMA SendOrGood ==
  ASSUME NetGood(nw), NEW p \in NetProc, nw.call[p].op = "none",
         NEW op \in {"send", "sendto", "ping"}, NEW slot \in Int, NEW pkt \in Datagrams \cup Pings,
         op # "ping" => slot \in UdpSlot /\ pkt \in Datagrams, op = "ping" => pkt \in Pings,
         SendOr(p, op, slot, pkt)
  PROVE  Gives(nw, nw', 0)
<1>1. nw \in Net /\ ~Excluded(nw, pkt)
  BY GoodNet DEF SendOr
<1>2. CASE nw.free = 0
  <2> DEFINE c == NetCall(op, slot, pkt)
  <2>1. pkt \in Packet
    BY Members
  <2>2. c \in NetCalls /\ c.op = op /\ c.slot = slot /\ c.pkt = pkt
    BY <2>1, NewCall
  <2>3. nw' = Waiting(nw, p, c)
    BY <1>2 DEF SendOr
  <2> HIDE DEF c
  <2>4. CallFits(c) /\ c.op \notin Table /\ HeldBy(c) = 0
    BY <2>2, HeldIs DEF CallFits, Table
  <2>5. Gives(nw, Waiting(nw, p, c), HeldBy(c))
    BY <2>2, <2>4, WaitingGood
  <2> QED
    BY <2>3, <2>4, <2>5
<1>3. CASE nw.free # 0
  <2> DEFINE k == Taken(nw)
  <2>1. nw' = IpSend(k, p, pkt)
    BY <1>3 DEF SendOr
  <2>2. Gives(nw, k, -1) /\ AllBut({"free"}, nw, k)
    BY <1>1, BufferGood, BufferFacts
  <2> HIDE DEF k
  <2>3. k.arp = nw.arp /\ k.icmp = nw.icmp /\ k.oq = nw.oq /\ k.call = nw.call
    BY <2>2 DEF AllBut
  <2>4. ~Excluded(k, pkt) /\ k.call[p].op = "none"
    BY <1>1, <2>3, StillLeftOut
  <2>5. NetGood(k) => Gives(k, IpSend(k, p, pkt), 1)
    BY <2>4, IpSendGood
  <2> QED
    BY <2>1, <2>2, <2>5, GivesBack
<1> QED
  BY <1>2, <1>3

LEMMA NewPacket ==
  ASSUME NEW src \in Host, NEW dst \in Host
  PROVE  /\ \A sport \in PortNo, dport \in PortNo : UdpPacket(src, dst, sport, dport) \in Datagrams
         /\ \A type \in {"request", "reply"}, ident \in Ident : IcmpPacket(src, dst, type, ident) \in Pings
  BY DEF UdpPacket, IcmpPacket, Datagrams, Pings

LEMMA SendsGood ==
  ASSUME NetGood(nw), NEW p \in NetProc, SendUdp(p) \/ SendtoUdp(p) \/ SendIcmp(p)
  PROVE  Gives(nw, nw', 0)
<1>1. nw \in Net /\ Self(nw) \in Host
  BY GoodNet, SelfIs
<1>2. CASE SendUdp(p)
  <2>1. PICK s \in UdpSlot :
          LET e == nw.udp[s] IN
          /\ p \in Callers
          /\ SendOr(p, "send", s, UdpPacket(Self(nw), e.remip, e.locport, e.remport))
    BY <1>2 DEF SendUdp
  <2> DEFINE e == nw.udp[s]
             pkt == UdpPacket(Self(nw), e.remip, e.locport, e.remport)
  <2>2. e.remip \in Host /\ e.locport \in PortNo /\ e.remport \in PortNo
    BY <1>1, UdpParts
  <2>3. pkt \in Datagrams /\ SendOr(p, "send", s, pkt) /\ nw.call[p].op = "none"
    BY <1>1, <2>1, <2>2, NewPacket, CallersAre
  <2>4. s \in Int
    BY DEF UdpSlot
  <2> DEFINE op == "send"
  <2>5. op \in {"send", "sendto", "ping"} /\ op # "ping" /\ SendOr(p, op, s, pkt)
    BY <2>3
  <2> HIDE DEF pkt, op
  <2> QED
    BY <2>3, <2>4, <2>5, SendOrGood
<1>3. CASE SendtoUdp(p)
  <2>1. PICK s \in UdpSlot, dst \in Dests, port \in {e[2] : e \in Endpoints} :
          p \in Callers /\ SendOr(p, "sendto", s, UdpPacket(Self(nw), dst, nw.udp[s].locport, port))
    BY <1>3 DEF SendtoUdp
  <2> DEFINE pkt == UdpPacket(Self(nw), dst, nw.udp[s].locport, port)
  <2>2. nw.udp[s].locport \in PortNo /\ dst \in Host /\ port \in PortNo
    BY <1>1, UdpParts, Members
  <2>3. pkt \in Datagrams /\ SendOr(p, "sendto", s, pkt) /\ nw.call[p].op = "none"
    BY <1>1, <2>1, <2>2, NewPacket, CallersAre
  <2>4. s \in Int
    BY DEF UdpSlot
  <2> DEFINE op == "sendto"
  <2>5. op \in {"send", "sendto", "ping"} /\ op # "ping" /\ SendOr(p, op, s, pkt)
    BY <2>3
  <2> HIDE DEF pkt, op
  <2> QED
    BY <2>3, <2>4, <2>5, SendOrGood
<1>4. CASE SendIcmp(p)
  <2>1. PICK s \in IcmpSlot, dst \in Dests :
          p \in Callers /\ SendOr(p, "ping", s, IcmpPacket(Self(nw), dst, "request", s))
    BY <1>4 DEF SendIcmp
  <2> DEFINE pkt == IcmpPacket(Self(nw), dst, "request", s)
  <2>2. s \in Ident /\ dst \in Host
    BY Members
  <2>3. pkt \in Pings /\ SendOr(p, "ping", s, pkt) /\ nw.call[p].op = "none"
    BY <1>1, <2>1, <2>2, NewPacket, CallersAre
  <2>4. s \in Int
    BY DEF IcmpSlot
  <2> DEFINE op == "ping"
  <2>5. op \in {"send", "sendto", "ping"} /\ op = "ping" /\ SendOr(p, op, s, pkt)
    BY <2>3
  <2> HIDE DEF pkt, op
  <2> QED
    BY <2>3, <2>4, <2>5, SendOrGood
<1> QED
  BY <1>2, <1>3, <1>4

\* A call that holds no place in a table ends.
LEMMA EndedLeaves ==
  ASSUME NEW n \in Net, NEW p \in NetProc
  PROVE  LET m == Ended(n, p) IN
         /\ m \in Net /\ AllBut({"call"}, n, m) /\ m.call[p].op = "none" /\ m.call[IpOut] = n.call[IpOut]
         /\ \A q \in DOMAIN m.call : m.call[q].op = "arp" => q \in DOMAIN n.call /\ m.call[q] = n.call[q]
<1> DEFINE m == Ended(n, p)
<1>1. p \in Proc /\ IpOut \in Proc \ {p} /\ n.call[p] \in NetCalls
  BY NetConst, NetParts DEF Proc
<1>2. /\ m \in Net /\ AllBut({"call"}, n, m) /\ m.call[p] = NetIdle
      /\ \A q \in Proc \ {p} : m.call[q] = n.call[q]
  BY <1>1, CallFacts
<1> HIDE DEF m
<1>3. DOMAIN m.call = Proc /\ DOMAIN n.call = Proc
  BY <1>2, NetParts
<1>4. m.call[p].op = "none"
  BY <1>2 DEF NetIdle
<1>5. ASSUME NEW q \in Proc, m.call[q].op = "arp"
      PROVE  m.call[q] = n.call[q]
  <2>1. q # p
    BY <1>4, <1>5
  <2> QED
    BY <1>2, <2>1
<1> QED
  BY <1>1, <1>2, <1>3, <1>4, <1>5 DEF m

LEMMA GetsBufferGood ==
  ASSUME NetGood(nw), NEW p \in NetProc, GetsBuffer(p)
  PROVE  Gives(nw, nw', 0)
<1> DEFINE c == nw.call[p]
           pkt == CASE c.op = "send" -> c.pkt
                    [] c.op = "sendto" -> [c.pkt EXCEPT !.src = Self(nw), !.sport = nw.udp[c.slot].locport]
                    [] OTHER -> [c.pkt EXCEPT !.src = Self(nw)]
           h == Self(nw)
           k == Ended(nw, p)
           m == Taken(k)
<1>1. /\ c.op \in {"send", "sendto", "ping"} /\ ~Excluded(nw, pkt)
      /\ nw' = IpSend(m, p, pkt)
  BY DEF GetsBuffer
<1>2. nw \in Net /\ h \in Host /\ p \in Proc /\ CallFits(c)
  BY GoodNet, SelfIs DEF Proc
<1>3. pkt \in Datagrams \cup Pings
  <2>1. CASE c.op = "send"
    BY <1>2, <2>1 DEF CallFits
  <2>2. CASE c.op = "sendto"
    <3>1. c.slot \in UdpSlot /\ c.pkt \in Datagrams
      BY <1>2, <2>2 DEF CallFits
    <3> DEFINE x == c.pkt l == nw.udp[c.slot].locport
    <3>2. l \in PortNo
      BY <1>2, <3>1, UdpParts
    <3>3. pkt = [x EXCEPT !.src = h, !.sport = l]
      BY <2>2
    <3> HIDE DEF x, l, h, pkt
    <3>4. x \in Datagrams
      BY <3>1 DEF x
    <3>5. [x EXCEPT !.src = h, !.sport = l] \in Datagrams
      BY <1>2, <3>2, <3>4 DEF Datagrams
    <3> QED
      BY <3>3, <3>5
  <2>3. CASE c.op = "ping"
    <3>1. c.pkt \in Pings
      BY <1>2, <2>3 DEF CallFits
    <3> DEFINE x == c.pkt
    <3>2. pkt = [x EXCEPT !.src = h]
      BY <2>3
    <3> HIDE DEF x, h, pkt
    <3>3. x \in Pings
      BY <3>1 DEF x
    <3>4. [x EXCEPT !.src = h] \in Pings
      BY <1>2, <3>3 DEF Pings
    <3> QED
      BY <3>2, <3>4
  <2> QED
    BY <1>1, <2>1, <2>2, <2>3
<1> HIDE DEF pkt
<1>4. Gives(nw, k, 0)
  <2>1. c.op \notin Table /\ HeldBy(c) = 0
    BY <1>1, HeldIs DEF Table
  <2>2. Gives(nw, k, 0 - HeldBy(nw.call[p]))
    BY <1>2, <2>1, EndedGood
  <2> QED
    BY <2>1, <2>2
<1>5. /\ k \in Net /\ AllBut({"call"}, nw, k) /\ k.call[p].op = "none" /\ k.call[IpOut] = nw.call[IpOut]
      /\ \A q \in DOMAIN k.call : k.call[q].op = "arp" => q \in DOMAIN nw.call /\ k.call[q] = nw.call[q]
  BY <1>2, EndedLeaves
<1> HIDE DEF k
<1>6. Gives(k, m, -1) /\ AllBut({"free"}, k, m)
  BY <1>4, <1>5, BufferGood, BufferFacts DEF Gives
<1> HIDE DEF m
<1>7. Gives(nw, m, -1)
  <2>1. Gives(nw, m, 0 + (-1))
    BY <1>2, <1>4, <1>6, GivesBoth
  <2> QED
    BY <2>1
<1>8. /\ m.arp = nw.arp /\ m.icmp = nw.icmp /\ m.oq = nw.oq /\ m.call = k.call
  BY <1>5, <1>6 DEF AllBut
<1>9. ~Excluded(m, pkt) /\ m.call[p].op = "none"
  <2>1. /\ m.call[IpOut] = nw.call[IpOut]
        /\ \A q \in DOMAIN m.call : m.call[q].op = "arp" => q \in DOMAIN nw.call /\ m.call[q] = nw.call[q]
    BY <1>5, <1>8
  <2> QED
    BY <1>1, <1>5, <1>8, <2>1, StillLeftOut
<1>10. NetGood(m) => Gives(m, IpSend(m, p, pkt), 1)
  BY <1>3, <1>9, IpSendGood
<1>11. Gives(nw, IpSend(m, p, pkt), 0)
  BY <1>7, <1>10, GivesBack
<1> QED
  BY <1>1, <1>11

LEMMA EchoReturnsGood ==
  ASSUME NetGood(nw), NEW p \in NetProc, EchoReturns(p)
  PROVE  Gives(nw, nw', 0)
<1> DEFINE c == nw.call[p]
           pkt == c.pkt
           k == Ended(nw, p)
<1>1. c.op = "echo" /\ ~Excluded(nw, pkt) /\ nw' = Echo(k, pkt)
  BY DEF EchoReturns
<1>2. nw \in Net /\ p \in Proc /\ CallFits(c) /\ c \in NetCalls
  BY GoodNet DEF Proc
<1>3. pkt \in Packet /\ pkt.proto = "icmp"
  BY <1>1, <1>2 DEF CallFits, NetCalls
<1>4. Gives(nw, k, -1)
  <2>1. c.op \notin Table /\ HeldBy(c) = 1
    BY <1>1, HeldIs DEF Table
  <2>2. Gives(nw, k, 0 - HeldBy(nw.call[p]))
    BY <1>2, <2>1, EndedGood
  <2>3. 0 - HeldBy(nw.call[p]) = -1
    BY <2>1
  <2> QED
    BY <2>2, <2>3
<1>5. /\ AllBut({"call"}, nw, k) /\ k.call[IpOut] = nw.call[IpOut]
      /\ \A q \in DOMAIN k.call : k.call[q].op = "arp" => q \in DOMAIN nw.call /\ k.call[q] = nw.call[q]
  BY <1>2, EndedLeaves
<1> HIDE DEF k, pkt
<1>6. k.arp = nw.arp /\ k.icmp = nw.icmp /\ k.oq = nw.oq
  BY <1>5 DEF AllBut
<1>7. "urgent" \in NetHazards \/ ~Overtakes(k)
  <2>1. Overtakes(k) => Overtakes(nw)
    BY <1>5, <1>6, StillLeftOut
  <2> QED
    BY <1>1, <2>1 DEF Excluded
<1>8. NetGood(k) => Gives(k, Echo(k, pkt), 1)
  BY <1>3, <1>7, EchoGood
<1>9. Gives(nw, Echo(k, pkt), 0)
  BY <1>4, <1>8, GivesBack
<1> QED
  BY <1>1, <1>9

\* The processes that wait in arp_resolve.
LEMMA ArpGood ==
  ASSUME NetGood(nw), NEW p \in Proc, ArpReturns(p) \/ ArpTimesOut(p) \/ Stray(p)
  PROVE  Gives(nw, nw', 0)
<1>1. CASE ArpReturns(p)
  <2> DEFINE c == nw.call[p]
             m == Cleared(Ended(nw, p), p)
             hop == c.hop
             hw == m.arp[c.slot].hw
  <2>1. /\ c.op = "arp" /\ nw.mail[p] # NoMail
        /\ nw' = IF nw.mail[p] = "syserr" THEN Freed(m) ELSE IpFrame(m, hop, hw)
    BY <1>1 DEF ArpReturns
  <2>2. Gives(nw, m, -1) /\ hw \in Host /\ hop \in Host /\ (Agrees("arp") => hw = hop)
    BY <2>1, ArpReturnsGood
  <2> HIDE DEF m, hop, hw
  <2>3. NetGood(m) => Gives(m, Freed(m), 1) /\ Gives(m, IpFrame(m, hop, hw), 1)
    BY <2>2, BufferGood, IpFrameGood
  <2>4. Gives(nw, Freed(m), 0)
    BY <2>2, <2>3, GivesBack
  <2>5. Gives(nw, IpFrame(m, hop, hw), 0)
    BY <2>2, <2>3, GivesBack
  <2> QED
    BY <2>1, <2>4, <2>5
<1>2. CASE ArpTimesOut(p)
  <2>1. /\ nw.call[p].op = "arp"
        /\ \/ nw' = [nw EXCEPT !.call[p].tries = @ + 1]
           \/ nw' = Freed(ArpExpire(Ended(nw, p), nw.call[p].slot))
    BY <1>2 DEF ArpTimesOut
  <2>2. CASE nw' = [nw EXCEPT !.call[p].tries = @ + 1]
    <3>1. Gives(nw, [nw EXCEPT !.call[p].tries = @ + 1], 0)
      BY <2>1, ArpAgainGood
    <3> QED
      BY ONLY <2>2, <3>1
  <2>3. CASE nw' = Freed(ArpExpire(Ended(nw, p), nw.call[p].slot))
    BY <2>1, <2>3, ArpGivesUpGood
  <2> QED
    BY <2>1, <2>2, <2>3
<1>3. CASE Stray(p)
  BY <1>3, StrayGood DEF Stray
<1> QED
  BY <1>1, <1>2, <1>3

\* netin goes on to the next packet.
LEMMA NextGood ==
  ASSUME NEW n, NetGood(n), n.netin.op \in {"read", "echo"}
  PROVE  LET m == NetinNext(n) IN Gives(n, m, -1) /\ AllBut({"netin"}, n, m)
<1> DEFINE i == -1
           c == NetCall("getbuf", i, NoPacket)
           m == [n EXCEPT !.netin = c]
<1>1. i \in Int /\ NoPacket \in Packet
  BY Members
<1> HIDE DEF i
<1>2. c \in NetCalls /\ c.op = "getbuf"
  BY <1>1, NewCall
<1> HIDE DEF c
<1>3. CallFits(c) /\ HeldBy(c) = 0 /\ HeldBy(n.netin) = 1
  BY <1>2, HeldIs DEF CallFits
<1>4. Gives(n, m, HeldBy(c) - HeldBy(n.netin)) /\ AllBut({"netin"}, n, m)
  BY <1>2, <1>3, NetinGood
<1> HIDE DEF m
<1>5. HeldBy(c) - HeldBy(n.netin) = -1
  BY <1>3
<1>6. Gives(n, m, -1)
  BY <1>4, <1>5
<1> QED
  BY <1>4, <1>6 DEF NetinNext, m, c, i

LEMMA NetinBufferGood ==
  ASSUME NetGood(nw), NetinBuffer
  PROVE  Gives(nw, nw', 0)
<1> DEFINE i == -1
           c == NetCall("read", i, NoPacket)
           k == Taken(nw)
           m == [k EXCEPT !.netin = c]
<1>1. nw.netin.op = "getbuf" /\ nw' = m
  BY DEF NetinBuffer
<1>2. i \in Int /\ NoPacket \in Packet /\ nw \in Net
  BY Members, GoodNet
<1> HIDE DEF i
<1>3. c \in NetCalls /\ c.op = "read"
  BY <1>2, NewCall
<1>4. Gives(nw, k, -1) /\ AllBut({"free"}, nw, k)
  BY <1>2, BufferGood, BufferFacts
<1> HIDE DEF c, k
<1>5. k.netin = nw.netin
  BY <1>4 DEF AllBut
<1>6. CallFits(c) /\ HeldBy(c) = 1 /\ HeldBy(k.netin) = 0
  BY <1>1, <1>3, <1>5, HeldIs DEF CallFits
<1>7. NetGood(k) => Gives(k, m, HeldBy(c) - HeldBy(k.netin))
  BY <1>3, <1>6, NetinGood
<1> HIDE DEF m
<1>8. HeldBy(c) - HeldBy(k.netin) = 1
  BY <1>6
<1>9. Gives(nw, m, 0)
  BY <1>4, <1>7, <1>8, GivesBack
<1> QED
  BY <1>1, <1>9

LEMMA NetinArpGood ==
  ASSUME NetGood(nw), NetinArp
  PROVE  Gives(nw, nw', 0)
<1>1. PICK f \in ArpFrames :
        /\ nw.netin.op = "read"
        /\ "recycle" \in NetHazards \/ ~(ArpLearns(nw, f) /\ Recycles(nw))
        /\ nw' = Freed(NetinNext(IF f.op = "bad" THEN nw ELSE ArpIn(nw, f)))
  BY DEF NetinArp
<1> DEFINE n == IF f.op = "bad" THEN nw ELSE ArpIn(nw, f)
           k == NetinNext(n)
<1>2. nw \in Net /\ Total(nw) \in Int
  BY GoodNet, SumsAre
<1>3. Gives(nw, n, 0)
  <2>1. Gives(nw, nw, 0)
    BY <1>2 DEF Gives
  <2>2. Gives(nw, ArpIn(nw, f), 0)
    BY <1>1, ArpInGood
  <2> QED
    BY <2>1, <2>2
<1>4. n.netin = nw.netin
  <2>1. ArpIn(nw, f).netin = nw.netin
    <3>1. ArpHear(nw, f).netin = nw.netin
      BY <1>2, ArpHearFacts DEF AllBut
    <3> QED
      BY <1>2, <3>1, ArpInFacts DEF AllBut
  <2> QED
    BY <2>1
<1> HIDE DEF n
<1>5. Gives(n, k, -1)
  BY <1>1, <1>3, <1>4, NextGood DEF Gives
<1> HIDE DEF k
<1>6. Gives(nw, k, -1)
  <2>1. Gives(nw, k, 0 + (-1))
    BY <1>2, <1>3, <1>5, GivesBoth
  <2> QED
    BY <2>1
<1>7. NetGood(k) => Gives(k, Freed(k), 1)
  BY BufferGood
<1>8. Gives(nw, Freed(k), 0)
  BY <1>6, <1>7, GivesBack
<1> QED
  BY <1>1, <1>8 DEF k, n

\* After NetinNext, the cases that are left out are the same.
LEMMA NextLeavesOut ==
  ASSUME NEW n, NEW m, AllBut({"netin"}, n, m), NEW pkt
  PROVE  /\ Overtakes(m) => Overtakes(n)
         /\ Excluded(m, pkt) => Excluded(n, pkt)
<1>1. m.arp = n.arp /\ m.icmp = n.icmp /\ m.oq = n.oq /\ m.call = n.call
  BY DEF AllBut
<1> QED
  BY <1>1, StillLeftOut

LEMMA NetinIpGood ==
  ASSUME NetGood(nw), NetinIp
  PROVE  Gives(nw, nw', 0)
<1>1. PICK pkt \in IpPackets :
        /\ nw.netin.op = "read" /\ ~Excluded(nw, pkt)
        /\ nw' = IF ~IpAccepts(nw, pkt) THEN Freed(NetinNext(nw))
                 ELSE IF LocalWaits(nw, pkt) THEN [nw EXCEPT !.netin = NetCall("echo", -1, pkt)]
                 ELSE IpLocal(NetinNext(nw), pkt)
  BY DEF NetinIp
<1> DEFINE k == NetinNext(nw)
<1>2. Gives(nw, k, -1) /\ AllBut({"netin"}, nw, k) /\ pkt \in Packet
  BY <1>1, NextGood, Members
<1> HIDE DEF k
<1>3. CASE nw' = Freed(k)
  <2>1. NetGood(k) => Gives(k, Freed(k), 1)
    BY BufferGood
  <2> QED
    BY <1>2, <1>3, <2>1, GivesBack
<1>4. CASE nw' = IpLocal(k, pkt)
  <2>1. ~Excluded(k, pkt)
    BY <1>1, <1>2, NextLeavesOut
  <2>2. NetGood(k) => Gives(k, IpLocal(k, pkt), 1)
    BY <1>2, <2>1, IpLocalGood
  <2>3. Gives(nw, IpLocal(k, pkt), 0)
    BY <1>2, <2>2, GivesBack
  <2> QED
    BY <1>4, <2>3
<1>5. CASE LocalWaits(nw, pkt) /\ nw' = [nw EXCEPT !.netin = NetCall("echo", -1, pkt)]
  <2> DEFINE i == -1
             c == NetCall("echo", i, pkt)
             m == [nw EXCEPT !.netin = c]
  <2>1. nw' = m
    BY <1>5
  <2>2. i \in Int
    OBVIOUS
  <2> HIDE DEF i
  <2>3. c \in NetCalls /\ c.op = "echo" /\ c.pkt = pkt
    BY <1>2, <2>2, NewCall
  <2> HIDE DEF c
  <2>4. CallFits(c) /\ HeldBy(c) = 1 /\ HeldBy(nw.netin) = 1
    BY <1>1, <1>5, <2>3, HeldIs DEF CallFits, LocalWaits
  <2>5. Gives(nw, m, HeldBy(c) - HeldBy(nw.netin))
    BY <2>3, <2>4, NetinGood
  <2> HIDE DEF m
  <2>6. HeldBy(c) - HeldBy(nw.netin) = 0
    BY <2>4
  <2> QED
    BY <2>1, <2>5, <2>6
<1>6. \/ nw' = Freed(k)
      \/ LocalWaits(nw, pkt) /\ nw' = [nw EXCEPT !.netin = NetCall("echo", -1, pkt)]
      \/ nw' = IpLocal(k, pkt)
  BY <1>1 DEF k
<1> QED
  BY <1>3, <1>4, <1>5, <1>6

LEMMA NetinRestGood ==
  ASSUME NetGood(nw), NetinOther \/ NetinEcho \/ AddressKnown
  PROVE  Gives(nw, nw', 0)
<1> DEFINE k == NetinNext(nw)
<1>1. CASE NetinOther
  <2>1. nw.netin.op = "read" /\ nw' = Freed(k)
    BY <1>1 DEF NetinOther
  <2>2. Gives(nw, k, -1)
    BY <2>1, NextGood
  <2> HIDE DEF k
  <2>3. NetGood(k) => Gives(k, Freed(k), 1)
    BY BufferGood
  <2> QED
    BY <2>1, <2>2, <2>3, GivesBack
<1>2. CASE NetinEcho
  <2> DEFINE pkt == nw.netin.pkt
  <2>1. nw.netin.op = "echo" /\ ~Excluded(nw, pkt) /\ nw' = Echo(k, pkt)
    BY <1>2 DEF NetinEcho
  <2>2. Gives(nw, k, -1) /\ AllBut({"netin"}, nw, k)
    BY <2>1, NextGood
  <2>3. nw.netin \in NetCalls /\ CallFits(nw.netin)
    BY GoodNet, NetParts
  <2>4. pkt \in Packet /\ pkt.proto = "icmp"
    BY <2>1, <2>3 DEF CallFits, NetCalls
  <2> HIDE DEF k, pkt
  <2>5. "urgent" \in NetHazards \/ ~Overtakes(k)
    <3>1. Overtakes(k) => Overtakes(nw)
      BY <2>2, NextLeavesOut
    <3> QED
      BY <2>1, <3>1 DEF Excluded
  <2>6. NetGood(k) => Gives(k, Echo(k, pkt), 1)
    BY <2>4, <2>5, EchoGood
  <2>7. Gives(nw, Echo(k, pkt), 0)
    BY <2>2, <2>6, GivesBack
  <2> QED
    BY <2>1, <2>7
<1>3. CASE AddressKnown
  BY <1>3, ValidGood DEF AddressKnown
<1> QED
  BY <1>1, <1>2, <1>3

LEMMA IpOutGood ==
  ASSUME NetGood(nw), IpOutTakes
  PROVE  Gives(nw, nw', 0)
<1> DEFINE pkt == Head(nw.oq)
           v == Tail(nw.oq)
           n == [nw EXCEPT !.oq = v]
<1>1. /\ nw.call[IpOut].op = "none" /\ nw.oq # <<>>
      /\ "recycle" \in NetHazards \/ ~Recycles(nw)
      /\ "flood" \in NetHazards \/ ~(pkt.dst = Self(nw) /\ Floods(nw, pkt))
      /\ \/ nw' = Freed(n)
         \/ pkt.dst = Self(n) /\ nw' = IpLocal(n, pkt)
         \/ nw' = IpRoute(n, IpOut, pkt)
  <2>1. n = [nw EXCEPT !.oq = Tail(@)]
    OBVIOUS
  <2> QED
    BY <2>1 DEF IpOutTakes
<1>2. nw \in Net /\ nw.oq \in Seq(Replies) /\ IpOut \in Proc
  BY GoodNet, NetConst
<1>3. pkt \in Replies /\ v \in Seq(Replies) /\ Len(v) - Len(nw.oq) = -1
  <2> DEFINE q == nw.oq
  <2>1. q \in Seq(Replies) /\ q # <<>>
    BY <1>1, <1>2
  <2> HIDE DEF q
  <2>2. Head(q) \in Replies /\ Tail(q) \in Seq(Replies) /\ Len(Tail(q)) = Len(q) - 1 /\ Len(q) \in Nat
    BY <2>1
  <2>3. Len(Tail(q)) - Len(q) = -1
    BY <2>2
  <2> QED
    BY <2>2, <2>3 DEF q
<1> HIDE DEF pkt, v
<1>4. Gives(nw, n, Len(v) - Len(nw.oq)) /\ AllBut({"oq"}, nw, n)
  BY <1>3, OutQueueGood
<1> HIDE DEF n
<1>5. Gives(nw, n, -1)
  BY <1>3, <1>4
<1>6. n.arp = nw.arp /\ n.icmp = nw.icmp /\ n.call = nw.call /\ n.valid = nw.valid
  BY <1>4 DEF AllBut
<1>7. /\ Recycles(n) => Recycles(nw)
      /\ Floods(n, pkt) => Floods(nw, pkt)
      /\ Self(n) = Self(nw)
  BY <1>6 DEF Recycles, Floods, IcmpWanted, Self
<1>8. pkt \in Packet /\ pkt \in Datagrams \cup Pings
  BY <1>3, Members DEF Replies
<1>9. NetGood(n) => Gives(n, Freed(n), 1)
  BY BufferGood
<1>10. NetGood(n) /\ pkt.dst = Self(n) => Gives(n, IpLocal(n, pkt), 1)
  BY <1>1, <1>3, <1>7, <1>8, IpLocalGood
<1>11. NetGood(n) => Gives(n, IpRoute(n, IpOut, pkt), 1)
  BY <1>1, <1>2, <1>6, <1>7, <1>8, IpRouteGood
<1>12. Gives(nw, Freed(n), 0)
  BY <1>5, <1>9, GivesBack
<1>13. pkt.dst = Self(n) => Gives(nw, IpLocal(n, pkt), 0)
  BY <1>5, <1>10, GivesBack
<1>14. Gives(nw, IpRoute(n, IpOut, pkt), 0)
  BY <1>5, <1>11, GivesBack
<1> QED
  BY <1>1, <1>12, <1>13, <1>14

-------------------------------------------------------------------------------
(* The initial state *)

LEMMA SumZero ==
  ASSUME NEW f, NEW T, IsFiniteSet(T), \A x \in T : f[x] = 0
  PROVE  SumFunctionOnSet(f, T) = 0
<1> DEFINE F(s) == SumFunctionOnSet(f, s)
           P == {s \in SUBSET T : F(s) = 0}
<1>1. \A x \in T : f[x] \in Int
  OBVIOUS
<1>2. F({}) = 0 /\ \A s \in SUBSET T : \A y \in s : F(s) = f[y] + F(s \ {y})
  BY <1>1, SumSplit
<1> HIDE DEF F
<1>3. {} \in P
  BY <1>2
<1>4. ASSUME NEW s \in SUBSET T, NEW x \in T \ s, s \in P
      PROVE  s \cup {x} \in P
  <2> DEFINE r == s \cup {x}
  <2>1. r \in SUBSET T /\ x \in r /\ r \ {x} = s
    OBVIOUS
  <2>2. F(r) = f[x] + F(s)
    BY <1>2, <2>1
  <2>3. F(s) = 0 /\ f[x] = 0
    BY <1>4
  <2> HIDE DEF r
  <2>4. F(r) = 0
    BY <2>2, <2>3
  <2>5. r \in P
    BY <2>1, <2>4
  <2> QED
    BY <2>5 DEF r
<1> HIDE DEF P
<1>5. SUBSET T \subseteq P
  BY <1>3, <1>4, FiniteInduct
<1> QED
  BY <1>5 DEF P, F

LEMMA InitParts ==
  ASSUME NetInit
  PROVE  /\ nw.arp = ArpInit /\ nw.udp = UdpInit /\ nw.icmp = IcmpInit /\ nw.free = NetBufs /\ nw.oq = <<>>
         /\ nw.valid = FALSE /\ nw.mail = [p \in Proc |-> NoMail] /\ nw.call = [p \in Proc |-> NetIdle]
         /\ nw.netin = NetCall("getbuf", -1, NoPacket) /\ nw.frame = NoFrame /\ nw.ruined = FALSE
         /\ nw = [arp |-> nw.arp, udp |-> nw.udp, icmp |-> nw.icmp, free |-> nw.free, oq |-> nw.oq,
                  valid |-> nw.valid, mail |-> nw.mail, call |-> nw.call, netin |-> nw.netin,
                  frame |-> nw.frame, ruined |-> nw.ruined]
<1> DEFINE c == NetCall("getbuf", -1, NoPacket)
           ml == [p \in Proc |-> NoMail]
           cl == [p \in Proc |-> NetIdle]
<1>1. nw \in [arp : {ArpInit}, udp : {UdpInit}, icmp : {IcmpInit}, free : {NetBufs}, oq : {<<>>},
              valid : {FALSE}, mail : {ml}, call : {cl}, netin : {c}, frame : {NoFrame}, ruined : {FALSE}]
  BY DEF NetInit, Proc
<1> HIDE DEF c, ml, cl
<1>2. /\ nw.arp = ArpInit /\ nw.udp = UdpInit /\ nw.icmp = IcmpInit /\ nw.free = NetBufs /\ nw.oq = <<>>
      /\ nw.valid = FALSE /\ nw.mail = ml /\ nw.call = cl
      /\ nw.netin = c /\ nw.frame = NoFrame /\ nw.ruined = FALSE
  BY <1>1
<1>3. nw = [arp |-> nw.arp, udp |-> nw.udp, icmp |-> nw.icmp, free |-> nw.free, oq |-> nw.oq,
            valid |-> nw.valid, mail |-> nw.mail, call |-> nw.call, netin |-> nw.netin,
            frame |-> nw.frame, ruined |-> nw.ruined]
  BY <1>1
<1> QED
  BY <1>2, <1>3 DEF c, ml, cl

LEMMA InitGood ==
  ASSUME NetInit
  PROVE  NetInv
<1>1. NoAddr \in Host /\ 0 \in PortNo /\ NoPacket \in Packet /\ NetBufs \in Nat \ {0}
  BY Members, NetConst
<1> DEFINE i == -1
           c == NetCall("getbuf", i, NoPacket)
<1>2. i \in Int
  OBVIOUS
<1>3. nw.netin = c
  BY InitParts
<1> HIDE DEF i
<1>4. c \in NetCalls /\ c.op = "getbuf"
  BY <1>1, <1>2, NewCall
<1> HIDE DEF c
<1>5. NetIdle \in NetCalls /\ NetIdle.op = "none"
  <2>1. i = -1
    BY DEF i
  <2>2. NetIdle = [op |-> "none", slot |-> i, pkt |-> NoPacket, hop |-> NoAddr, tries |-> 0]
    BY <2>1 DEF NetIdle
  <2> QED
    BY <1>1, <1>2, <2>2 DEF NetCalls
<1>6. NoEntry \in ArpEntry /\ NoEntry.state = "free"
  BY <1>1 DEF NoEntry, ArpEntry
<1>7. UdpFree \in UdpEntry /\ UdpFree.state = "free" /\ UdpFree.q = <<>>
  BY <1>1 DEF UdpFree, UdpEntry
<1>8. IcmpFree \in IcmpEntry /\ IcmpFree.state = "free" /\ RingFits(IcmpFree) /\ InRing(IcmpFree.ring) = 0
  BY <1>1, IcmpFreeFacts
<1>9. NoFrame \in [hop : Host, hw : Host] /\ NoFrame.hw = NoFrame.hop
  BY <1>1 DEF NoFrame
<1>10. /\ \A s \in ArpSlot : nw.arp[s] = NoEntry
       /\ \A s \in UdpSlot : nw.udp[s] = UdpFree
       /\ \A s \in IcmpSlot : nw.icmp[s] = IcmpFree
       /\ \A p \in Proc : nw.call[p] = NetIdle
  BY InitParts DEF ArpInit, UdpInit, IcmpInit
<1>11. nw \in Net
  <2>1. nw.arp \in [ArpSlot -> ArpEntry] /\ nw.udp \in [UdpSlot -> UdpEntry] /\ nw.icmp \in [IcmpSlot -> IcmpEntry]
    BY <1>6, <1>7, <1>8, InitParts DEF ArpInit, UdpInit, IcmpInit
  <2>2. /\ nw.free \in Int /\ nw.oq \in Seq(Packet) /\ nw.valid \in BOOLEAN
        /\ nw.mail \in [Proc -> {NoMail, "ok", "other", "syserr"}] /\ nw.call \in [Proc -> NetCalls]
    <3>1. <<>> \in Seq(Packet)
      OBVIOUS
    <3>5. nw.free = NetBufs /\ nw.oq = <<>>
      BY InitParts
    <3>6. nw.valid \in BOOLEAN
      BY InitParts
    <3>2. nw.free \in Int /\ nw.oq \in Seq(Packet) /\ nw.valid \in BOOLEAN
      BY <1>1, <3>1, <3>5, <3>6
    <3>3. nw.mail \in [Proc -> {NoMail, "ok", "other", "syserr"}]
      BY InitParts
    <3>4. nw.call \in [Proc -> NetCalls]
      BY <1>5, InitParts
    <3> QED
      BY <3>2, <3>3, <3>4
  <2>3. nw.netin \in NetCalls /\ nw.frame \in [hop : Host, hw : Host] /\ nw.ruined \in BOOLEAN
    BY <1>3, <1>4, <1>9, InitParts
  <2>4. nw = [arp |-> nw.arp, udp |-> nw.udp, icmp |-> nw.icmp, free |-> nw.free, oq |-> nw.oq,
              valid |-> nw.valid, mail |-> nw.mail, call |-> nw.call, netin |-> nw.netin,
              frame |-> nw.frame, ruined |-> nw.ruined]
    BY InitParts
  <2> DEFINE a == nw.arp u == nw.udp ic == nw.icmp f == nw.free q == nw.oq v == nw.valid m == nw.mail
             cl == nw.call nt == nw.netin fr == nw.frame ru == nw.ruined
  <2>5. /\ a \in [ArpSlot -> ArpEntry] /\ u \in [UdpSlot -> UdpEntry] /\ ic \in [IcmpSlot -> IcmpEntry]
        /\ f \in Int /\ q \in Seq(Packet) /\ v \in BOOLEAN
        /\ m \in [Proc -> {NoMail, "ok", "other", "syserr"}] /\ cl \in [Proc -> NetCalls]
        /\ nt \in NetCalls /\ fr \in [hop : Host, hw : Host] /\ ru \in BOOLEAN
        /\ nw = [arp |-> a, udp |-> u, icmp |-> ic, free |-> f, oq |-> q, valid |-> v, mail |-> m,
                 call |-> cl, netin |-> nt, frame |-> fr, ruined |-> ru]
    BY <2>1, <2>2, <2>3, <2>4
  <2> HIDE DEF a, u, ic, f, q, v, m, cl, nt, fr, ru
  <2> QED
    BY <2>5 DEF Net
<1>12. NetTypes(nw)
  <2>1. \A p \in Proc : CallFits(nw.call[p])
    BY <1>5, <1>10 DEF CallFits
  <2>2. CallFits(nw.netin) /\ nw.netin.op \in {"getbuf", "read", "echo"}
    BY <1>3, <1>4 DEF CallFits
  <2>3. nw.call[IpOut].op = "none"
    BY <1>5, <1>10, NetConst
  <2>4. nw.oq \in Seq(Replies)
    <3>1. <<>> \in Seq(Replies)
      OBVIOUS
    <3> QED
      BY <3>1, InitParts
  <2>5. \A s \in IcmpSlot : RingFits(nw.icmp[s])
    BY <1>8, <1>10
  <2> QED
    BY <1>11, <2>1, <2>2, <2>3, <2>4, <2>5 DEF NetTypes
<1>13. WaitersFit(nw)
  <2>1. \A t \in Table : \A s \in SlotOf(t) : ~Open(nw, t, s)
    BY <1>6, <1>7, <1>8, <1>10, TableFacts, EntryIs
  <2>2. \A t \in Table : \A s \in SlotOf(t) : \A p \in Proc : ~In(nw, p, t, s)
    BY <1>5, <1>10 DEF In, Table
  <2> QED
    BY <2>1, <2>2 DEF WaitersFit, MarkedAt, AgreedAt
<1>14. Heard(nw) /\ Asked(nw)
  <2>1. Heard(nw)
    BY <1>6, <1>9, <1>10, InitParts DEF Heard
  <2>2. Asked(nw)
    BY <1>5, <1>10 DEF Asked
  <2> QED
    BY <2>1, <2>2
<1>15. Rings(nw)
  BY <1>5, <1>7, <1>8, <1>10 DEF Rings
<1>16. CallSum(nw) = 0 /\ UdpSum(nw) = 0 /\ IcmpSum(nw) = 0
  <2>1. CallSum(nw) = 0
    <3> DEFINE f == [p \in Proc |-> HeldBy(nw.call[p])]
    <3>1. CallSum(nw) = SumFunctionOnSet(f, Proc)
      BY <1>11, NetParts DEF CallSum
    <3>2. \A p \in Proc : f[p] = 0
      BY <1>5, <1>10, HeldIs
    <3> HIDE DEF f
    <3>3. SumFunctionOnSet(f, Proc) = 0
      BY <3>2, NetConst, SumZero
    <3> QED
      BY <3>1, <3>3
  <2>2. UdpSum(nw) = 0
    <3> DEFINE f == [s \in UdpSlot |-> Len(nw.udp[s].q)]
    <3>1. \A s \in UdpSlot : f[s] = 0
      BY <1>7, <1>10
    <3> HIDE DEF f
    <3>2. SumFunctionOnSet(f, UdpSlot) = 0
      BY <3>1, SlotSets, SumZero
    <3> QED
      BY <3>2 DEF f, UdpSum
  <2>3. IcmpSum(nw) = 0
    <3> DEFINE f == [s \in IcmpSlot |-> InRing(nw.icmp[s].ring)]
    <3>1. \A s \in IcmpSlot : f[s] = 0
      BY <1>8, <1>10
    <3> HIDE DEF f
    <3>2. SumFunctionOnSet(f, IcmpSlot) = 0
      BY <3>1, SlotSets, SumZero
    <3> QED
      BY <3>2 DEF f, IcmpSum
  <2> QED
    BY <2>1, <2>2, <2>3
<1>17. ~nw.ruined /\ NetBufs = Total(nw)
  <2>1. nw.free = NetBufs /\ Len(nw.oq) = 0 /\ HeldBy(nw.netin) = 0 /\ ~nw.ruined
    BY <1>3, <1>4, InitParts, HeldIs
  <2> HIDE DEF CallSum, UdpSum, IcmpSum, HeldBy
  <2> QED
    BY <1>1, <1>16, <2>1 DEF Total
<1> QED
  BY <1>12, <1>13, <1>14, <1>15, <1>17 DEF NetInv, NetGood

-------------------------------------------------------------------------------
(* The theorems *)

LEMMA StepGood ==
  ASSUME NetInv, [NetNext]_netVars
  PROVE  NetInv'
<1>1. NetGood(nw) /\ nw \in Net
  BY GoodNet DEF NetInv
<1>2. Gives(nw, nw', 0)
  <2>1. CASE UNCHANGED netVars
    <3>1. nw' = nw /\ Total(nw) \in Int
      BY <1>1, <2>1, SumsAre DEF netVars
    <3>2. Gives(nw, nw, 0)
      BY <1>1, <3>1 DEF Gives
    <3> QED
      BY <3>1, <3>2
  <2>2. ASSUME NEW p \in NetProc, NetProcNext(p)
        PROVE  Gives(nw, nw', 0)
    BY <1>1, <2>2, UdpGood, IcmpGood, SendsGood, GetsBufferGood, EchoReturnsGood DEF NetProcNext
  <2>3. ASSUME NEW p \in Proc, ArpReturns(p) \/ ArpTimesOut(p) \/ Stray(p)
        PROVE  Gives(nw, nw', 0)
    BY <1>1, <2>3, ArpGood
  <2>4. CASE NetinBuffer
    BY <1>1, <2>4, NetinBufferGood
  <2>5. CASE NetinArp
    BY <1>1, <2>5, NetinArpGood
  <2>6. CASE NetinIp
    BY <1>1, <2>6, NetinIpGood
  <2>7. CASE NetinOther \/ NetinEcho \/ AddressKnown
    BY <1>1, <2>7, NetinRestGood
  <2>8. CASE IpOutTakes
    BY <1>1, <2>8, IpOutGood
  <2> QED
    BY <2>1, <2>2, <2>3, <2>4, <2>5, <2>6, <2>7, <2>8 DEF NetNext, Proc
<1> DEFINE k == nw'
<1>3. Total(nw) \in Int /\ Total(k) = Total(nw)' /\ NetGood(k) = NetGood(nw)'
  BY <1>1, SumsAre
<1> QED
  BY <1>2, <1>3 DEF NetInv, Gives

\* The tables of the network code stay well formed: each slot, each waiting
\* process and each buffer, as far as the cases that are admitted allow.
THEOREM NetworkInvariant == NetSpec => []NetInv
<1>1. NetInit => NetInv
  BY InitGood
<1>2. NetInv /\ [NetNext]_netVars => NetInv'
  BY StepGood
<1> QED
  BY <1>1, <1>2, PTL DEF NetSpec

\* WaitersAgree, for every number of processes and slots, when no process sends
\* to one that waits for another, none shares or releases an endpoint in which
\* another waits, and no ARP entry is reused before who waited for it has read
\* it: recvtime in udp_recv, icmp_recv and arp_resolve.
THEOREM NetworkWaitersAgree ==
  ASSUME {"stray", "recycle", "share", "release"} \cap NetHazards = {}
  PROVE  NetSpec => []WaitersAgree
<1>1. Marks /\ \A t \in Table : Agrees(t)
  BY DEF Marks, Agrees
<1>2. ASSUME NetInv
      PROVE  WaitersAgree
  <2>1. nw \in Net /\ WaitersFit(nw) /\ NetGood(nw)
    BY <1>2, GoodNet DEF NetInv, NetGood
  <2>2. \A t \in Table : \A s \in SlotOf(t) : MarkedAt(nw, t, s) /\ AgreedAt(nw, t, s)
    BY <1>1, <2>1 DEF WaitersFit
  <2>3. DOMAIN nw.call = Proc
    BY <2>1, NetParts
  <2>4. ASSUME NEW p \in Proc, NEW t \in Table, nw.call[p].op = t
        PROVE  LET s == nw.call[p].slot IN
               /\ s \in SlotOf(t)
               /\ nw.mail[p] = NoMail => Open(nw, t, s) /\ Owner(nw, t, s) = p /\ ~Full(nw, t, s)
               /\ nw.mail[p] # NoMail => Full(nw, t, s)
    <3> DEFINE s == nw.call[p].slot
    <3>1. s \in SlotOf(t)
      BY <2>1, <2>4, GoodNet, TableFacts DEF CallFits
    <3>2. In(nw, p, t, s) /\ AgreedAt(nw, t, s)
      BY <2>2, <2>4, <3>1 DEF In
    <3> QED
      BY <3>1, <3>2 DEF AgreedAt
  <2>5. ASSUME NEW p \in Proc, nw.call[p].op = "udp"
        PROVE  UdpWaits(p, nw.udp[nw.call[p].slot])
    <3> DEFINE t == "udp" s == nw.call[p].slot
    <3>1. t \in Table /\ nw.call[p].op = t
      BY <2>5, TableFacts
    <3>2. /\ nw.mail[p] = NoMail => Open(nw, t, s) /\ Owner(nw, t, s) = p /\ ~Full(nw, t, s)
          /\ nw.mail[p] # NoMail => Full(nw, t, s)
      BY <2>4, <3>1
    <3> HIDE DEF s
    <3>3. UdpWaits(p, nw.udp[s])
      BY <3>2, EntryIs DEF UdpWaits
    <3> QED
      BY <3>3 DEF s
  <2>6. ASSUME NEW p \in Proc, nw.call[p].op = "icmp"
        PROVE  IcmpWaits(p, nw.icmp[nw.call[p].slot])
    <3> DEFINE t == "icmp" s == nw.call[p].slot
    <3>1. t \in Table /\ nw.call[p].op = t
      BY <2>6, TableFacts
    <3>2. /\ nw.mail[p] = NoMail => Open(nw, t, s) /\ Owner(nw, t, s) = p /\ ~Full(nw, t, s)
          /\ nw.mail[p] # NoMail => Full(nw, t, s)
      BY <2>4, <3>1
    <3>3. s \in IcmpSlot
      BY <2>1, <2>6, GoodNet DEF CallFits
    <3> HIDE DEF s
    <3>4. RingFits(nw.icmp[s]) /\ nw.icmp[s].count \in Int
      BY <2>1, <3>3, GoodNet, IcmpParts
    <3>5. IcmpWaits(p, nw.icmp[s])
      BY <3>2, <3>4, EntryIs DEF IcmpWaits, RingFits
    <3> QED
      BY <3>5 DEF s
  <2>7. ASSUME NEW p \in Proc, nw.call[p].op = "arp"
        PROVE  ArpWaits(p, nw.arp[nw.call[p].slot])
    <3> DEFINE t == "arp" s == nw.call[p].slot
    <3>1. t \in Table /\ nw.call[p].op = t
      BY <2>7, TableFacts
    <3>2. /\ nw.mail[p] = NoMail => Open(nw, t, s) /\ Owner(nw, t, s) = p /\ ~Full(nw, t, s)
          /\ nw.mail[p] # NoMail => Full(nw, t, s)
      BY <2>4, <3>1
    <3>3. nw.arp[s].addr = nw.call[p].hop
      BY <1>1, <2>1, <2>7, TableFacts DEF NetGood, Asked
    <3> HIDE DEF s
    <3>4. ArpWaits(p, nw.arp[s])
      BY <3>2, <3>3, EntryIs DEF ArpWaits
    <3> QED
      BY <3>4 DEF s
  <2>8. \A t \in Table : \A s \in SlotOf(t) : Open(nw, t, s) => nw.call[Owner(nw, t, s)].op = t
    BY <2>2 DEF MarkedAt, In
  <2>9. /\ \A s \in UdpSlot : nw.udp[s].state = "recv" => nw.call[nw.udp[s].pid].op = "udp"
        /\ \A s \in IcmpSlot : nw.icmp[s].state = "recv" => nw.call[nw.icmp[s].pid].op = "icmp"
        /\ \A s \in ArpSlot : nw.arp[s].state = "pending" => nw.call[nw.arp[s].pid].op = "arp"
    <3>1. ASSUME NEW s \in UdpSlot, nw.udp[s].state = "recv"
          PROVE  nw.call[nw.udp[s].pid].op = "udp"
      BY <2>8, <3>1, TableFacts, EntryIs
    <3>2. ASSUME NEW s \in IcmpSlot, nw.icmp[s].state = "recv"
          PROVE  nw.call[nw.icmp[s].pid].op = "icmp"
      BY <2>8, <3>2, TableFacts, EntryIs
    <3>3. ASSUME NEW s \in ArpSlot, nw.arp[s].state = "pending"
          PROVE  nw.call[nw.arp[s].pid].op = "arp"
      BY <2>8, <3>3, TableFacts, EntryIs
    <3> QED
      BY <3>1, <3>2, <3>3
  <2> QED
    BY <2>3, <2>5, <2>6, <2>7, <2>9 DEF WaitersAgree
<1> QED
  BY <1>2, NetworkInvariant, PTL

\* FramesReachTheirHop, when no process sends to one that waits for another and
\* no ARP entry is reused before who waited for it has read it (arp_resolve).
THEOREM NetworkFramesReachTheirHop ==
  ASSUME {"stray", "recycle"} \cap NetHazards = {}
  PROVE  NetSpec => []FramesReachTheirHop
<1>1. Agrees("arp")
  BY DEF Agrees
<1>2. NetInv => FramesReachTheirHop
  BY <1>1 DEF NetInv, NetGood, Heard, FramesReachTheirHop
<1> QED
  BY <1>2, NetworkInvariant, PTL

\* PacketsAccounted, when the rings are not driven past their size and each
\* slot and each message has one process at most (getbuf and freebuf in net/).
\* An ARP entry that is reused early loses a frame, never a buffer.
THEOREM NetworkPacketsAccounted ==
  ASSUME NetHazards \subseteq {"recycle"}
  PROVE  NetSpec => []PacketsAccounted
<1>1. Accounts
  BY DEF Accounts
<1>2. NetInv => PacketsAccounted
  BY <1>1 DEF NetInv, PacketsAccounted, Total, CallSum, UdpSum, IcmpSum
<1> QED
  BY <1>2, NetworkInvariant, PTL
==============================================================================
