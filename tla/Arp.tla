--------------------------------- MODULE Arp ---------------------------------
(***************************************************************************)
(* The ARP cache: looking an address up, making room for one, and what an  *)
(* ARP packet that arrives does to it.                                     *)
(***************************************************************************)
EXTENDS NetBase

NoEntry == [state |-> "free", addr |-> NoAddr, hw |-> NoAddr, pid |-> NoPid]

\* arp_init leaves entry 0 alone: it is zero, which is AR_FREE, from the start.
ArpInit == [s \in ArpSlot |-> NoEntry]

First(set) == IF set = {} THEN -1 ELSE Min(set)

\* The entry for an address, and the one a new address gets: a free one, else
\* the first that is resolved, none when every entry is pending.
ArpFind(c, addr) == First({s \in ArpSlot : c[s].state # "free" /\ c[s].addr = addr})
ArpVictim(c) ==
  LET free == {s \in ArpSlot : c[s].state = "free"}
  IN First(IF free # {} THEN free ELSE {s \in ArpSlot : c[s].state = "resolved"})

\* (a variant that takes a pending entry for a resolved one)
ArpAsk_PendingToo(n, p, hop) ==
  LET s == ArpFind(n.arp, hop)
      v == ArpVictim(n.arp)
  IN IF s # -1 THEN [did |-> "resolved", net |-> n, slot |-> s]
     ELSE IF v = -1 THEN [did |-> "fail", net |-> n, slot |-> -1]
     ELSE [did |-> "wait", slot |-> v,
           net |-> [Cleared(n, p) EXCEPT
                      !.arp[v] = [NoEntry EXCEPT !.state = "pending", !.addr = hop, !.pid = p]]]

\* arp_resolve, up to the broadcast of its request: "resolved" with the hardware
\* address, "wait" in a pending entry of its own, or "fail".
ArpAsk(n, p, hop) ==
  LET s == ArpFind(n.arp, hop)
      v == ArpVictim(n.arp)
  IN IF s # -1 /\ n.arp[s].state = "resolved"
     THEN [did |-> "resolved", net |-> n, slot |-> s]
     ELSE IF s # -1 \/ v = -1 THEN [did |-> "fail", net |-> n, slot |-> -1]
     ELSE [did |-> "wait", slot |-> v,
           net |-> [Cleared(n, p) EXCEPT
                      !.arp[v] = [NoEntry EXCEPT !.state = "pending", !.addr = hop, !.pid = p]]]

\* arp_resolve, when it gives up.
ArpExpire_KeepEntry(n, s) == n
ArpExpire(n, s) == [n EXCEPT !.arp[s].state = "free"]

\* arp_in: the sender's address is brought up to date, a process that waits for
\* it is told, and who asks for our address is remembered (and answered).
\* (The answer is a frame of its own, which no table shows.)
ArpHear(n, f) ==
  LET s == ArpFind(n.arp, f.snd) IN
  IF s = -1 THEN n
  ELSE IF n.arp[s].state = "pending"
  THEN Sent([n EXCEPT !.arp[s] = [@ EXCEPT !.hw = f.snd, !.state = "resolved"]], n.arp[s].pid, "ok")
  ELSE [n EXCEPT !.arp[s].hw = f.snd]

ArpLearns(n, f) ==
  f.op = "request" /\ n.valid /\ f.tar = Me /\ ArpFind(n.arp, f.snd) = -1

ArpIn(n, f) ==
  LET m == ArpHear(n, f)
      v == ArpVictim(m.arp)
  IN IF ArpLearns(m, f) /\ v # -1
     THEN [m EXCEPT !.arp[v] = [state |-> "resolved", addr |-> f.snd, hw |-> f.snd, pid |-> NoPid]]
     ELSE m
==============================================================================
