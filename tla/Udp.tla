--------------------------------- MODULE Udp ---------------------------------
(***************************************************************************)
(* The table of UDP endpoints: what a packet that arrives, a registration, *)
(* a receive and a release do to it.                                       *)
(***************************************************************************)
EXTENDS NetBase

UdpFree == [state |-> "free", remip |-> NoAddr, remport |-> 0, locport |-> 0, pid |-> NoPid,
            q |-> <<>>]
UdpInit == [s \in UdpSlot |-> UdpFree]

\* udp_in: the first entry that matches and has room takes the packet, and wakes
\* the process that waits for it; the packet is dropped when there is none.
UdpMatches(e, pkt) ==
  /\ e.state # "free"
  /\ pkt.dport = e.locport
  /\ e.remport \in {0, pkt.sport}
  /\ e.remip \in {NoAddr, pkt.src}

UdpTakers(n, pkt) == {s \in UdpSlot : UdpMatches(n.udp[s], pkt) /\ Len(n.udp[s].q) < UdpQsiz}

UdpIn(n, pkt) ==
  IF UdpTakers(n, pkt) = {} THEN Freed(n)
  ELSE LET s == Min(UdpTakers(n, pkt))
           e == n.udp[s]
       IN [(IF e.state = "recv" THEN Sent(n, e.pid, "ok") ELSE n) EXCEPT
             !.udp[s] = [e EXCEPT !.q = Append(@, pkt), !.state = "used"]]

\* udp_register
UdpRegistered(n, remip, remport, locport) ==
  \E s \in UdpSlot : /\ n.udp[s].state # "free"
                     /\ n.udp[s].remport = remport
                     /\ n.udp[s].locport = locport
                     /\ n.udp[s].remip = remip

UdpRegister(n, remip, remport, locport) ==
  LET free == {s \in UdpSlot : n.udp[s].state = "free"} IN
  IF UdpRegistered(n, remip, remport, locport) \/ free = {} THEN n
  ELSE [n EXCEPT !.udp[Min(free)] = [UdpFree EXCEPT !.state = "used", !.remip = remip,
                                       !.remport = remport, !.locport = locport]]

\* udp_recv and udp_recvaddr: waiting, and taking the first packet away, which
\* nothing checks is there.
UdpAwait(n, p, s) == [Cleared(n, p) EXCEPT !.udp[s] = [@ EXCEPT !.state = "recv", !.pid = p]]
UdpTake(n, s) ==
  IF n.udp[s].q = <<>> THEN [n EXCEPT !.ruined = TRUE]
  ELSE Freed([n EXCEPT !.udp[s].q = Tail(@)])

\* udp_recv and udp_recvaddr, when the process wakes up.
UdpWoken(n, p, s) ==
  LET m == [Cleared(n, p) EXCEPT !.udp[s].state = "used"]
  IN IF n.mail[p] = "ok" THEN UdpTake(m, s) ELSE m

\* udp_release
UdpRelease(n, s) ==
  IF n.udp[s].state = "free" THEN n
  ELSE [n EXCEPT !.udp[s] = [@ EXCEPT !.q = <<>>, !.state = "free"], !.free = @ + Len(n.udp[s].q)]
==============================================================================
