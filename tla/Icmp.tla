--------------------------------- MODULE Icmp --------------------------------
(***************************************************************************)
(* The table of processes that ping: what an echo reply that arrives, a    *)
(* registration, a receive and a release do to it.  The queue is kept as   *)
(* the ring it is, for its two ends do not wrap at the same place.         *)
(***************************************************************************)
EXTENDS NetBase

\* Eight packets to a slot, ten slots.
ASSUME IcmpAssumption == IcmpQsiz <= IcmpSlots

IcmpFree == [state |-> "free", remip |-> NoAddr, head |-> 0, tail |-> 0, count |-> 0,
             pid |-> NoPid, ring |-> [i \in 0 .. IcmpQsiz - 1 |-> NoPacket]]
IcmpInit == [s \in IcmpSlot |-> IcmpFree]

\* icmp_in, for an echo reply: it is queued whether or not there is room.
IcmpWanted(n, pkt) ==
  /\ pkt.ident \in IcmpSlot
  /\ n.icmp[pkt.ident].state # "free"
  /\ pkt.src = n.icmp[pkt.ident].remip

IcmpReply(n, pkt) ==
  IF ~IcmpWanted(n, pkt) THEN Freed(n)
  ELSE LET s == pkt.ident
           e == n.icmp[s]
       IN [(IF e.state = "recv" THEN Sent(n, e.pid, "ok") ELSE n) EXCEPT
             !.icmp[s] = [e EXCEPT !.count = @ + 1, !.ring[e.tail] = pkt,
                                   !.tail = (@ + 1) % IcmpQsiz, !.state = "used"]]

\* icmp_register
IcmpRegister(n, remip) ==
  LET free == {s \in IcmpSlot : n.icmp[s].state = "free"} IN
  IF free = {} \/ \E s \in IcmpSlot \ free : n.icmp[s].remip = remip THEN n
  ELSE [n EXCEPT !.icmp[Min(free)] = [IcmpFree EXCEPT !.state = "used", !.remip = remip]]

\* icmp_recv: waiting, and taking the packet at the head, which wraps at the
\* number of slots of the table, ICMP_SLOTS.
IcmpAwait(n, p, s) == [Cleared(n, p) EXCEPT !.icmp[s] = [@ EXCEPT !.state = "recv", !.pid = p]]

IcmpTake(n, s) ==
  LET e == n.icmp[s] IN
  IF e.head \notin DOMAIN e.ring \/ e.ring[e.head] = NoPacket THEN [n EXCEPT !.ruined = TRUE]
  ELSE Freed([n EXCEPT
         !.icmp[s] = [e EXCEPT !.ring[e.head] = NoPacket, !.count = @ - 1,
                               !.head = IF @ + 1 >= IcmpSlots THEN 0 ELSE @ + 1]])

IcmpWoken(n, p, s) ==
  LET m == [Cleared(n, p) EXCEPT !.icmp[s].state = "used"]
  IN IF n.mail[p] = "ok" THEN IcmpTake(m, s) ELSE m

\* icmp_release: every packet is taken out in the same way.
IcmpEmptied(n, s) ==
  LET taken[k \in 0 .. n.icmp[s].count] == IF k = 0 THEN n ELSE IcmpTake(taken[k - 1], s)
  IN  taken
IcmpRelease(n, s) ==
  IF n.icmp[s].state # "used" THEN n
  ELSE [IcmpEmptied(n, s)[n.icmp[s].count] EXCEPT !.icmp[s].state = "free"]
==============================================================================
