------------------------------ MODULE MCMachine ------------------------------
(***************************************************************************)
(* The instance of the memory allocator, pools and ports, the console, the *)
(* device switch, the Ethernet driver, the network and its clients.  They  *)
(* share no state, so that each behaviour is about one of them: subject    *)
(* says which, and for the console and the network which part of it.       *)
(***************************************************************************)
EXTENDS Memory, Ports, Tty, Devices, Ether, Network, Services, TLC

CONSTANTS c1, c2, c3   \* the clients of ports, the users of the console and of the network

Clients == {c1, c2, c3}
Pair == {c1, c2}

\* The first two of the processes are interchangeable.
MachineSymmetry == Permutations(Pair)

\* Memory: a heap with a hole in it.
McHole == <<8, 10>>

\* Console: a line with its end.
McTexts == {<<"x", "nl">>}

\* Device switch: six devices, and the prefixes naminit mounts after them.
Kinds == <<"ram", "nam", "null", "tty", "eth", "files">>
McDevKind == [d \in 0 .. 5 |-> Kinds[d + 1]]
McDevName == [d \in 0 .. 5 |-> <<Kinds[d + 1]>>]
McPrefixes == <<[prefix |-> <<"/dev/">>, replace |-> <<>>, dev |-> -1],
                [prefix |-> <<"~">>, replace |-> <<>>, dev |-> 5],
                [prefix |-> <<>>, replace |-> <<"root:">>, dev |-> 5]>>
McMounts == {[prefix |-> <<"x">>, replace |-> <<"~", "~">>, dev |-> 1],
             [prefix |-> <<"x">>, replace |-> <<"y">>, dev |-> 5],
             [prefix |-> <<"x", "y", "z">>, replace |-> <<>>, dev |-> 5],
             [prefix |-> <<"y">>, replace |-> <<"x", "y", "z">>, dev |-> 5]}
Repeated(name, n) == FlattenSeq([k \in 1 .. n |-> name])
\* Names whose length, with their null, is the last that a char holds (19), or the
\* first that it does not, at once or in the second round; and one that does not fit.
McNmNames == {<<>>, <<"x">>, <<"~", "y">>, <<"/dev/", "z">>, <<"/dev/", "ram", "1">>,
               <<"/dev/", "tty">>, <<"/dev/", "eth">>}
             \cup {Repeated(<<"/dev/", "nam">>, n) : n \in {1, 8, 9}}
             \cup {<<"x">> \o Repeated(<<"y">>, n) : n \in {16, 17, 18, 39}}
McNmStack == {<<"z">>}

\* Network: what other hosts send.
McArpFrames == {[op |-> "reply", snd |-> "a", tar |-> Me], [op |-> "bad", snd |-> "a", tar |-> Me]}
               \cup {[op |-> "request", snd |-> h, tar |-> Me] : h \in {"b", "c"}}
McIpPackets == {UdpPacket("a", Me, 7, 5), [UdpPacket("a", Me, 7, 5) EXCEPT !.good = FALSE],
                IcmpPacket("a", Me, "reply", 0), IcmpPacket("a", Me, "request", 0),
                [proto |-> "other", good |-> TRUE, dst |-> Me]}
McEndpoints == {<<"a", 7, 5>>, <<NoAddr, 0, 5>>}

\* Clients of UDP: answers with an alias before the address, and empty ones.
McDnsNames == {<<"a">>, <<"b">>}
McDnsReplies == [n \in DnsNames |->
  {<<>>, <<[type |-> "CNAME", name |-> n, addr |-> "x"], [type |-> "A", name |-> n, addr |-> n[1]]>>}]

VARIABLE subject

MachineInit ==
  /\ MemInit /\ PortsInit /\ TtyInit /\ DevicesInit /\ EthInit /\ NetInit /\ SvInit
  /\ subject \in {"memory", "one port", "two ports", "tty in", "tty out", "devices", "ether",
                  "arp", "udp", "icmp", "lookup", "tftp"}

\* One buffer is like another: of those that are somewhere, how many are where,
\* and how many different ones.  (There is one pool.)
PortsView ==
  <<nbpools, bpsem, ptstate, ptseq, ptmaxcnt, ptssem, ptrsem, ptfree, ptnextid, doing, on, seq,
    [i \in Port |-> Len(ptlist[i])], [l \in Places |-> Len(At(l))],
    Cardinality(UNION {ToSet(At(l)) : l \in Places})>>

\* Input is typed while no echo is sent, and nothing reads the slots of its ring
\* that hold no unread character.
TtyInView ==
  <<[i \in 1 .. Len(typed) + Len(line) |-> Unread(i)], tyihead, tyitail, tyisem, tyicursor,
    tyimode, tyiecho, tyoheld, thre, line, typed, ttyon, wants, strokes>>

\* Of the last frame it is asked whether it reached its hop, and the pid of an
\* entry that nobody waits for is not read.
Unwaited(e) == IF e.state \in {"recv", "pending"} THEN e ELSE [e EXCEPT !.pid = NoPid]
NetView ==
  [nw EXCEPT !.frame = (@.hw = @.hop),
             !.arp = [s \in ArpSlot |-> Unwaited(@[s])],
             !.udp = [s \in UdpSlot |-> Unwaited(@[s])],
             !.icmp = [s \in IcmpSlot |-> Unwaited(@[s])]]

\* What changes is the state of the subject.
MachineView ==
  <<subject,
    CASE subject = "memory" -> memVars
      [] subject \in {"one port", "two ports"} -> PortsView
      [] subject = "tty in" -> TtyInView
      [] subject = "tty out" -> ttyVars
      [] subject = "devices" -> devVars
      [] subject = "ether" -> ethVars
      [] subject \in {"arp", "udp", "icmp"} -> NetView
      [] subject \in {"lookup", "tftp"} -> svVars>>

MemoryStep == /\ subject = "memory" /\ MemNext
              /\ UNCHANGED <<portsVars, ttyVars, devVars, ethVars, netVars, svVars, subject>>

\* Three clients of one port, two of two ports.
PortsStep == /\ subject \in {"one port", "two ports"} /\ PortsNext
             /\ \/ subject = "one port" /\ ptstate'[1] = "free"
                \/ subject = "two ports" /\ doing'[c3] = "idle" /\ holds'[c3] = NoBuf
             /\ UNCHANGED <<memVars, ttyVars, devVars, ethVars, netVars, svVars, subject>>

\* Input whose echoes the device has yet to send, output with no one reading.
TtyInSteps ==
  /\ \/ \E c \in Key : Ttyhandle_in(c)
     \/ \E func \in {"raw", "cooked", "cbreak"} : Ttycontrol(func)
     \/ \E p \in TtyProc : TtyreadReturns(p) \/ \E count \in Reads : Ttyread(p, count)
  /\ ~tyoheld'
TtyOutSteps == TtyNext /\ typed' = <<>> /\ line' = <<>> /\ tyisem' = tyisem /\ tyimode' = tyimode /\ strokes' <= 3
TtyStep == /\ \/ subject = "tty in" /\ TtyInSteps
              \/ subject = "tty out" /\ TtyOutSteps
           /\ UNCHANGED <<memVars, portsVars, devVars, ethVars, netVars, svVars, subject>>

DevicesStep == /\ subject = "devices" /\ DevicesNext
               /\ UNCHANGED <<memVars, portsVars, ttyVars, ethVars, netVars, svVars, subject>>

EtherStep == /\ subject = "ether" /\ EthNext
             /\ UNCHANGED <<memVars, portsVars, ttyVars, devVars, netVars, svVars, subject>>

\* Senders that resolve addresses.
ArpSteps ==
  IF nw.udp[1].state = "free" THEN \E p \in NetProc : RegisterUdp(p)
  ELSE \/ \E p \in NetProc : SendUdp(p) \/ SendtoUdp(p) \/ GetsBuffer(p) \/ ArpReturns(p)
                             \/ ArpTimesOut(p) \/ Stray(p)
       \/ AddressKnown \/ NetinBuffer \/ NetinArp \/ NetinOther

\* Receivers of datagrams.
UdpSteps ==
  \/ \E p \in NetProc : RegisterUdp(p) \/ RecvUdp(p) \/ UdpReturns(p) \/ ReleaseUdp(p) \/ Stray(p)
  \/ NetinBuffer \/ NetinIp

\* Echoes to and from host "a" and the machine itself, with one slot of each table
\* in use, while netin and ipout run.
IcmpSteps ==
  IF ~nw.valid THEN AddressKnown
  ELSE /\ \/ \E p \in NetProc : RegisterIcmp(p) \/ RecvIcmp(p) \/ IcmpReturns(p) \/ ReleaseIcmp(p)
                                \/ SendIcmp(p) \/ GetsBuffer(p) \/ EchoReturns(p)
          \/ \E p \in NetProc \cup {IpOut} : ArpReturns(p) \/ ArpTimesOut(p) \/ Stray(p)
          \/ NetinBuffer \/ NetinArp \/ NetinIp \/ NetinEcho \/ IpOutTakes
       /\ nw'.icmp[1].state = "free" /\ nw'.arp[1].state = "free"
       /\ nw'.icmp[0].remip \in {NoAddr, "a"} /\ nw'.frame.hop \in {NoAddr, "a"}
       /\ \A p \in NetProc : LET pkt == nw'.call[p].pkt IN
            pkt # NoPacket => pkt.dst \in {"a", Me} /\ pkt.ident = 0

NetStep == /\ \/ subject = "arp" /\ ArpSteps
              \/ subject = "udp" /\ UdpSteps
              \/ subject = "icmp" /\ IcmpSteps
           /\ UNCHANGED <<memVars, portsVars, ttyVars, devVars, ethVars, svVars, subject>>

\* One client at a time: DHCP and DNS, or TFTP.
SvStep == /\ subject \in {"lookup", "tftp"} /\ SvNext
          /\ sv'.op \in {"none"} \cup (IF subject = "tftp" THEN {"tftp"} ELSE {"dhcp", "dns"})
          /\ UNCHANGED <<memVars, portsVars, ttyVars, devVars, ethVars, netVars, subject>>

MachineNext == MemoryStep \/ PortsStep \/ TtyStep \/ DevicesStep \/ EtherStep \/ NetStep \/ SvStep

MachineSpec ==
  MachineInit /\ [][MachineNext]_<<memVars, portsVars, ttyVars, devVars, ethVars, netVars, svVars, subject>>
===============================================================================
