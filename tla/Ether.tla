-------------------------------- MODULE Ether --------------------------------
(***************************************************************************)
(* The Ethernet device: the driver and the 82545EM controller share a ring *)
(* of receive and a ring of transmit descriptors.  The driver waits on     *)
(* isem and osem, which the interrupt handler signals by counting the      *)
(* descriptors the controller has done.                                    *)
(*                                                                         *)
(* Packets are numbered in the order they arrive, and in the order they    *)
(* are given to ethwrite.                                                  *)
(***************************************************************************)
EXTENDS Integers, FiniteSets, FiniteSetsExt, SequencesExt

CONSTANTS
  EthProc,      \* processes that write: netin, ipout and those that send
  RxRingSize, TxRingSize, RingBoundary,   \* E1000_RX_RING_SIZE, ...
  MaxArrivals, MaxSends,                  \* bounds on the packets
  EthHazards    \* "race": a process writes with interrupts enabled, as ipout does;
                \* "full": the ring of TxRingSize descriptors may be filled

ASSUME EtherAssumption ==
  /\ {RxRingSize, TxRingSize, RingBoundary, MaxArrivals, MaxSends} \subseteq Nat \ {0}
  /\ RxRingSize % RingBoundary = 0 /\ RxRingSize > RingBoundary

VARIABLES
  ethstate,    \* "off", "setup", "link", then ETH_STATE_UP or what stopped ethinit
  rx,          \* receive side: desc, head, tail (driver), rdh, rdt (controller), isem
  tx,          \* transmit side: desc, head, tail, tdh, tdt, osem
  cause,       \* E1000_ICR
  ethcall,     \* what a process in ethwrite has done, and the packet it writes
  ethgot,      \* history: what ethread returned
  arrivals,    \* packets the controller stored so far
  sends,       \* packets given to ethwrite so far
  written,     \* history: packets in the order ethwrite queued them
  wire         \* history: packets transmitted
ethVars == <<ethstate, rx, tx, cause, ethcall, ethgot, arrivals, sends, written, wire>>

EmptyDesc == [pkt |-> 0, dd |-> FALSE]
Ring(size) == [i \in 0 .. size - 1 |-> EmptyDesc]
NoWrite == [at |-> "none", pkt |-> 0, tail |-> 0]

\* The rings as _82545EMInit leaves them: the controller may fill the receive
\* descriptors from RDH up to RDT, and finds nothing to send as TDH is TDT.
ConfigureRx == [desc |-> Ring(RxRingSize), head |-> 0, tail |-> 0,
                rdh |-> 0, rdt |-> RxRingSize - RingBoundary, isem |-> 0]
ConfigureTx == [desc |-> Ring(TxRingSize), head |-> 0, tail |-> 0,
                tdh |-> 0, tdt |-> 0, osem |-> TxRingSize]

EthInit ==
  /\ ethstate = "off" /\ rx = ConfigureRx /\ tx = ConfigureTx /\ cause = {}
  /\ ethcall = [p \in EthProc |-> NoWrite]
  /\ ethgot = <<>> /\ arrivals = 0 /\ sends = 0 /\ written = <<>> /\ wire = <<>>

-----------------------------------------------------------------------------
(* ethinit *)

\* ethinit up to the configuration of the controller: no controller, no ethinit.
FindController == \E found \in BOOLEAN :
  /\ ethstate = "off"
  /\ ethstate' = IF found THEN "setup" ELSE "absent"
  /\ UNCHANGED <<rx, tx, cause, ethcall, ethgot, arrivals, sends, written, wire>>

\* Registers of the PHY are read and written by polling, which may time out or
\* report an error; _82545EM_init_hw stops at the first that fails.
PhyAnswers == {"ready", "timeout", "error"}
ProgramPhy == \E answer \in PhyAnswers :
  /\ ethstate = "setup"
  /\ ethstate' = IF answer = "ready" THEN "link" ELSE "failed"
  /\ UNCHANGED <<rx, tx, cause, ethcall, ethgot, arrivals, sends, written, wire>>

\* The loop that waits for the end of the negotiation has no bound of its own:
\* a status that can be read but shows no link is read again.
Negotiate == \E answer \in PhyAnswers, linked \in BOOLEAN :
  /\ ethstate = "link"
  /\ ethstate' = CASE answer # "ready" -> "failed"
                   [] answer = "ready" /\ linked -> "up"
                   [] OTHER -> "link"
  /\ rx' = ConfigureRx /\ tx' = ConfigureTx
  /\ UNCHANGED <<cause, ethcall, ethgot, arrivals, sends, written, wire>>

-----------------------------------------------------------------------------
(* The controller *)

Succ(i, size) == (i + 1) % size

\* It stores a packet, unless it has reached RDT, and raises RXT0.
Stores ==
  /\ ethstate = "up" /\ arrivals < MaxArrivals /\ rx.rdh # rx.rdt
  /\ arrivals' = arrivals + 1
  /\ rx' = [rx EXCEPT !.desc[rx.rdh] = [pkt |-> arrivals', dd |-> TRUE],
                      !.rdh = Succ(@, RxRingSize)]
  /\ cause' = cause \cup {"RXT0"}
  /\ UNCHANGED <<ethstate, tx, ethcall, ethgot, sends, written, wire>>

\* It sends a packet, unless it has reached TDT, and raises TXDW.
Transmits ==
  /\ ethstate = "up" /\ tx.tdh # tx.tdt
  /\ wire' = Append(wire, tx.desc[tx.tdh].pkt)
  /\ tx' = [tx EXCEPT !.desc[tx.tdh].dd = TRUE, !.tdh = Succ(@, TxRingSize)]
  /\ cause' = cause \cup {"TXDW"}
  /\ UNCHANGED <<ethstate, rx, ethcall, ethgot, arrivals, sends, written>>

-----------------------------------------------------------------------------
(* ethhandler *)

\* How many descriptors from i on are done, at most the whole ring.
DoneFrom(desc, i, size) ==
  Min({n \in 0 .. size : n = size \/ ~desc[(i + n) % size].dd})

RxPackets_OneMore(r) ==
  LET n == DoneFrom(r.desc, r.tail, RxRingSize)
  IN [r EXCEPT !.tail = (@ + n) % RxRingSize, !.isem = @ + n + 1]
RxPackets(r) ==
  LET n == DoneFrom(r.desc, r.tail, RxRingSize)
  IN [r EXCEPT !.tail = (@ + n) % RxRingSize, !.isem = @ + n]

TxPackets(t) ==
  LET n == DoneFrom(t.desc, t.head, TxRingSize)
      reclaimed == {(t.head + k) % TxRingSize : k \in 0 .. n - 1}
  IN [t EXCEPT !.desc = [i \in DOMAIN @ |-> IF i \in reclaimed THEN EmptyDesc ELSE @[i]],
               !.head = (@ + n) % TxRingSize, !.osem = @ + n]

\* Reading E1000_ICR clears it.
Handler ==
  /\ cause # {} /\ ~ \E p \in EthProc : ethcall[p].at = "copied" /\ "race" \notin EthHazards
  /\ cause' = {}
  /\ rx' = IF "RXT0" \in cause THEN RxPackets(rx) ELSE rx
  /\ tx' = IF "TXDW" \in cause THEN TxPackets(tx) ELSE tx
  /\ UNCHANGED <<ethstate, ethcall, ethgot, arrivals, sends, written, wire>>

-----------------------------------------------------------------------------
(* ethread, of netin *)

\* A block of descriptors goes back to the controller when the first of them,
\* which is the last of the ring to be free, has been read.
RdtAfter(r) ==
  IF r.head % RingBoundary = 0 THEN (r.rdt + RingBoundary) % RxRingSize ELSE r.rdt

EthRead ==
  /\ ethstate = "up" /\ rx.isem > 0
  /\ ethgot' = Append(ethgot, IF rx.desc[rx.head].dd THEN rx.desc[rx.head].pkt ELSE 0)
  /\ rx' = [rx EXCEPT !.isem = @ - 1, !.desc[rx.head] = EmptyDesc,
                      !.rdt = RdtAfter(rx), !.head = Succ(@, RxRingSize)]
  /\ UNCHANGED <<ethstate, tx, cause, ethcall, arrivals, sends, written, wire>>

-----------------------------------------------------------------------------
(* ethwrite *)

\* Descriptors that are given to the controller, and not yet sent.
Listed(t) == (t.tail - t.tdh + TxRingSize) % TxRingSize

\* The processes that may run: only one is between the copy and the end of
\* ethwrite, unless a process writes with interrupts enabled.
MayWrite(p) ==
  ethstate = "up" /\ ("race" \in EthHazards \/ \A q \in EthProc \ {p} : ethcall[q].at # "copied")

EthWrite(p) ==
  /\ MayWrite(p) /\ ethcall[p].at = "none" /\ sends < MaxSends
  /\ sends' = sends + 1
  /\ ethcall' = [ethcall EXCEPT ![p] = [NoWrite EXCEPT !.at = "wait", !.pkt = sends + 1]]
  /\ UNCHANGED <<ethstate, rx, tx, cause, ethgot, arrivals, written, wire>>

\* wait(osem) returns; the packet goes to the buffer at the tail.
EthCopies(p) ==
  /\ MayWrite(p) /\ ethcall[p].at = "wait" /\ tx.osem > 0
  /\ "full" \in EthHazards \/ Listed(tx) < TxRingSize - 1
  /\ tx' = [tx EXCEPT !.osem = @ - 1, !.desc[tx.tail] = [EmptyDesc EXCEPT !.pkt = ethcall[p].pkt]]
  /\ ethcall' = [ethcall EXCEPT ![p].at = "copied", ![p].tail = tx.tail]
  /\ UNCHANGED <<ethstate, rx, cause, ethgot, arrivals, sends, written, wire>>

\* TDT and then the tail advance.
EthAdvances(p) ==
  /\ MayWrite(p) /\ ethcall[p].at = "copied"
  /\ tx' = [tx EXCEPT !.tdt = Succ(@, TxRingSize), !.tail = Succ(@, TxRingSize)]
  /\ written' = Append(written, ethcall[p].pkt)
  /\ ethcall' = [ethcall EXCEPT ![p] = NoWrite]
  /\ UNCHANGED <<ethstate, rx, cause, ethgot, arrivals, sends, wire>>

EthNext ==
  \/ FindController \/ ProgramPhy \/ Negotiate
  \/ Stores \/ Transmits \/ Handler \/ EthRead
  \/ \E p \in EthProc : EthWrite(p) \/ EthCopies(p) \/ EthAdvances(p)

EthSpec == EthInit /\ [][EthNext]_ethVars

-----------------------------------------------------------------------------
(* Properties *)

\* The packets in n descriptors from i on.
InDescs(desc, i, n) == [k \in 1 .. n |-> desc[(i + k - 1) % Cardinality(DOMAIN desc)].pkt]

\* Both rings keep every packet, in order, whoever is ahead of whom: what ethread
\* returned, and what waits in the receive ring, is what the controller stored;
\* what was transmitted, and what the controller will transmit, is what ethwrite
\* was given (ethread, ethwrite, ethhandler).
RingsInOrder ==
  /\ LET unread == arrivals - Len(ethgot) IN
     /\ unread \in 0 .. RxRingSize
     /\ ethgot \o InDescs(rx.desc, rx.head, unread) = [k \in 1 .. arrivals |-> k]
  /\ wire \o InDescs(tx.desc, tx.tdh, (tx.tdt - tx.tdh + TxRingSize) % TxRingSize) = written
==============================================================================
