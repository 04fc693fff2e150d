------------------------------- MODULE NetBase -------------------------------
(***************************************************************************)
(* What the protocols of net/ share: addresses, the packets, the pool of   *)
(* network buffers and the messages that wake a process.  A record n holds *)
(* all the tables of the network code, so that a handler is a function     *)
(* from one such record to the next.                                       *)
(*                                                                         *)
(* n.arp, n.udp, n.icmp   arpcache, udptab, icmptab                        *)
(* n.free                 buffers of netbufpool that nobody holds          *)
(* n.oq                   ipoqueue                                         *)
(* n.valid                NetData.ipvalid                                  *)
(* n.mail                 the message each process has, NoMail for none    *)
(* n.call                 the call each process waits in                   *)
(* n.netin                what netin waits for, and the packet it handles  *)
(* n.frame                history: the last IP frame written to ETHER0     *)
(* n.ruined               a queue gave out a buffer it does not hold       *)
(***************************************************************************)
EXTENDS Integers, Sequences, FiniteSets, FiniteSetsExt

CONSTANTS
  NetProc,    \* processes that use the network
  IpOut,      \* the process ipout
  Me,         \* NetData.ipucast
  Bcast,      \* IP_BCAST and NetData.ipbcast
  Loop,       \* an address of 127.0.0.0/8
  NoAddr,     \* the address 0
  OnNet,      \* the hosts of the local network
  Router,     \* NetData.iprouter
  ArpSiz, UdpSlots, UdpQsiz, IcmpSlots, IcmpQsiz, IpOqsiz, ArpRetry,
  NetBufs     \* buffers of netbufpool

ASSUME NetBaseAssumption ==
  /\ IsFiniteSet(NetProc) /\ IpOut \notin NetProc
  /\ Cardinality({Me, Bcast, Loop, NoAddr} \cup OnNet) = 4 + Cardinality(OnNet)
  /\ {ArpSiz, UdpSlots, UdpQsiz, IcmpSlots, IcmpQsiz, IpOqsiz, ArpRetry, NetBufs}
       \subseteq Nat \ {0}

ArpSlot == 0 .. ArpSiz - 1
UdpSlot == 0 .. UdpSlots - 1
IcmpSlot == 0 .. IcmpSlots - 1

NoMail == "none"
NoPid == "nobody"

\* A host's hardware address is written as its IP address.
NoFrame == [hop |-> NoAddr, hw |-> NoAddr]

NoPacket == [proto |-> "none"]
UdpPacket(src, dst, sport, dport) ==
  [proto |-> "udp", src |-> src, dst |-> dst, sport |-> sport, dport |-> dport, good |-> TRUE]
IcmpPacket(src, dst, type, ident) ==
  [proto |-> "icmp", src |-> src, dst |-> dst, type |-> type, ident |-> ident, good |-> TRUE]

\* freebuf, and getbuf when a buffer is there.
Freed(n) == [n EXCEPT !.free = @ + 1]
Taken(n) == [n EXCEPT !.free = @ - 1]

\* send: refused when the process is gone or still has a message.
Sent(n, p, msg) ==
  IF p \in DOMAIN n.mail /\ n.mail[p] = NoMail THEN [n EXCEPT !.mail[p] = msg] ELSE n

\* recvclr, and the receipt of the message that ended a recvtime.
Cleared(n, p) == [n EXCEPT !.mail[p] = NoMail]
==============================================================================
