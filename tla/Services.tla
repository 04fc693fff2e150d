------------------------------- MODULE Services ------------------------------
(***************************************************************************)
(* The clients of UDP: DHCP (getlocalip), DNS (dnslookup, which starts     *)
(* with a getlocalip) and TFTP (tftpget_mb).  Each sends a request, waits  *)
(* for an answer for a time, and sends it again.                           *)
(*                                                                         *)
(* Datagrams to the machine are in svnet; each may be lost, late or        *)
(* duplicated.  What the machine sends is lost, or reaches its server at   *)
(* once.  The servers are external.  A host's address stands for its name. *)
(***************************************************************************)
EXTENDS Integers, FiniteSets, SequencesExt

CONSTANTS
  DhcpRetry, DhcpReads,     \* DHCP_RETRY, and the 3 messages read for each request
  Leases,                   \* addresses a DHCP server may offer
  DnsRetry, DnsNames,       \* DNSRETRY; names are sequences of labels
  DnsReplies,               \* for each name, the answer sections a server may send
  LocalHosts,               \* addresses on the local network
  TftpMaxRetries, TfPorts,  \* TFTP_MAXRETRIES; ports a server uses, one per transfer
  TfBlocks, TfRooms,        \* blocks of the file, and blocks the caller's buffers may hold
  SvHazards   \* "nosid" offers, "stray" messages, "late" acknowledgements

ASSUME ServicesAssumption ==
  /\ {DhcpRetry, DhcpReads, DnsRetry, TftpMaxRetries, TfBlocks} \subseteq Nat \ {0}
  /\ TfRooms \subseteq Nat /\ TfPorts \subseteq Nat \ {0}

\* What a DNS server says of an address is true: it is the host's of that name.
ASSUME DnsAssumption ==
  /\ DnsNames \subseteq Seq(STRING) \ {<<>>}
  /\ \A n \in DnsNames : DnsReplies[n] \subseteq Seq([type : STRING, name : Seq(STRING), addr : STRING])
  /\ \A n \in DnsNames : \A answers \in DnsReplies[n] : \A k \in DOMAIN answers :
       answers[k].type = "A" => answers[k].name = <<answers[k].addr>>

VARIABLES
  sv,         \* the process: what it does, its counters, the UDP slots it holds
  svnet,      \* datagrams that may still arrive
  svserver,   \* TFTP server: the block each transfer last sent, 0 for no transfer
  svresult    \* what the last call returned, and for what
svVars == <<sv, svnet, svserver, svresult>>

TftpPort == 0

SvIdle == [op |-> "none", name |-> <<>>, i |-> 0, j |-> 0, last |-> "discover", asked |-> {},
           port |-> TftpPort, expected |-> 1, room |-> 0, got |-> <<>>, held |-> {}]
SvResult(op, value, for) == [op |-> op, value |-> value, for |-> for]

SvInit == /\ sv = SvIdle /\ svnet = {} /\ svserver = [p \in TfPorts |-> 0]
          /\ svresult = SvResult("none", "none", {})

\* udp_register, which refuses what is registered, and udp_release.
Registers(s, service) == [s EXCEPT !.held = @ \cup {service}]
Releases(s, service) == [s EXCEPT !.held = @ \ {service}]
Returned(s) == [SvIdle EXCEPT !.held = s.held]

\* A datagram that was received may arrive again.
Remains(m) == {svnet, svnet \ {m}}

-----------------------------------------------------------------------------
(* getlocalip.  It ends with a call of dnslookup to go on with, or none. *)

\* dhcp_bld_disc, dhcp_bld_req, and what a server answers: an offer, without its
\* own address only if hazardous, or an acknowledgement of what was requested.
DhcpOffers ==
  [to : {"dhcp"}, type : {"offer"}, mine : {TRUE}, addr : Leases,
   sid : {given \in BOOLEAN : given \/ "nosid" \in SvHazards}]
DhcpAck(a) == [to |-> "dhcp", type |-> "ack", mine |-> TRUE, addr |-> a, sid |-> TRUE]
DhcpOthers == [to : {"dhcp"}, type : {"ack"}, mine : {FALSE}, addr : Leases, sid : {TRUE}]

\* What udp_sendto of the message built last leads to, if it is not lost.
DhcpAnswers(last, addr) == IF last = "discover" THEN DhcpOffers ELSE {DhcpAck(addr)}

\* What is still under way to an earlier call arrives before this one registers,
\* unless hazardous: then an acknowledgement may be of what that call requested.
Before == IF "late" \in SvHazards THEN svnet ELSE {m \in svnet : m.to # "dhcp"}

GetLocalIp(op, name) ==
  /\ sv.op = "none"
  /\ IF "dhcp" \in sv.held
     THEN /\ svresult' = SvResult(op, "error", {})
          /\ UNCHANGED <<sv, svnet, svserver>>
     ELSE /\ sv' = [Registers(sv, "dhcp") EXCEPT !.op = "dhcp", !.name = name]
          /\ \E m \in DhcpOffers \cup DhcpOthers : svnet' \in {Before, Before \cup {m}}
          /\ svresult' = SvResult("none", "none", {})
          /\ UNCHANGED svserver

\* The next of the reads, or the next of the requests, or the end.
DhcpNextRead_KeepsSlot(s) ==
  IF s.j + 1 < DhcpReads THEN [s EXCEPT !.j = @ + 1]
  ELSE IF s.i + 1 < DhcpRetry THEN [s EXCEPT !.i = @ + 1, !.j = 0]
  ELSE Returned(s)
DhcpNextRead(s) ==
  IF s.j + 1 < DhcpReads THEN [s EXCEPT !.j = @ + 1]
  ELSE IF s.i + 1 < DhcpRetry THEN [s EXCEPT !.i = @ + 1, !.j = 0]
  ELSE Returned(Releases(s, "dhcp"))

\* After the last read the message built last is sent again.
DhcpTurn(s, rest) ==
  /\ sv' = DhcpNextRead(s)
  /\ IF s.j + 1 >= DhcpReads /\ s.i + 1 < DhcpRetry
     THEN \E a \in IF s.last = "discover" THEN Leases ELSE s.asked :
            \E m \in DhcpAnswers(s.last, a) : svnet' \in {rest, rest \cup {m}}
     ELSE svnet' = rest
  /\ svresult' = IF sv'.op = "none" THEN SvResult("dhcp", "error", {}) ELSE svresult
  /\ UNCHANGED svserver

DhcpTimesOut == sv.op = "dhcp" /\ DhcpTurn(sv, svnet)

\* An offer is answered with a request for its address.  One without the option
\* for its server ends the call with the slot still registered.
DhcpRequests(m) ==
  /\ sv.op = "dhcp" /\ m.to = "dhcp" /\ m.mine /\ m.type = "offer"
  /\ IF m.sid
     THEN LET s == [sv EXCEPT !.last = "request", !.asked = @ \cup {m.addr}]
          IN \E rest \in Remains(m) : \E back \in {rest, rest \cup {DhcpAck(m.addr)}} : DhcpTurn(s, back)
     ELSE /\ sv' = Returned(sv) /\ svnet' \in Remains(m)
          /\ svresult' = SvResult("dhcp", "error", {})
          /\ UNCHANGED svserver

\* An acknowledgement is taken, whatever was sent: the fields of NetData are set,
\* the slot is released and dnslookup goes on.  dnslookup registers its own slot.
DnsStart(s) == IF "dns" \in s.held THEN Returned(s)
               ELSE [Registers(Returned(s), "dns") EXCEPT !.op = "dns", !.name = s.name]

DhcpAccepts_Any(m) == sv.op = "dhcp" /\ m.to = "dhcp" /\ m.type = "ack"
DhcpAccepts(m) == sv.op = "dhcp" /\ m.to = "dhcp" /\ m.type = "ack" /\ m.mine

DhcpBinds(m) ==
  /\ DhcpAccepts(m)
  /\ LET s == Releases(sv, "dhcp") IN
     /\ sv' = IF sv.name = <<>> THEN Returned(s) ELSE DnsStart(s)
     /\ \E rest \in Remains(m) :
          svnet' \in {rest} \cup {rest \cup {[to |-> "dns", answers |-> a]} :
                                    a \in IF sv'.op = "dns" THEN DnsReplies[sv.name] ELSE {}}
     /\ svresult' = SvResult("dhcp", m.addr, IF m.mine THEN sv.asked ELSE {})
     /\ UNCHANGED svserver

\* Any other message uses up one of the reads.
DhcpSkips(m) ==
  /\ sv.op = "dhcp" /\ m.to = "dhcp" /\ ~m.mine
  /\ \E rest \in Remains(m) : DhcpTurn(sv, rest)

\* recvtime returns a message that udp_in did not send: SYSERR, and no release.
DhcpStray ==
  /\ "stray" \in SvHazards /\ sv.op = "dhcp"
  /\ sv' = Returned(sv) /\ svresult' = SvResult("dhcp", "error", {})
  /\ UNCHANGED <<svnet, svserver>>

-----------------------------------------------------------------------------
(* dnslookup *)

\* dns_geta: an answer is for the name if the name is how it starts; the first one
\* is taken, and any later one that is on the local network in its place.
AnswersName(dname, a) == a.type = "A" /\ IsPrefix(dname, a.name)
DnsBest(dname, answers) ==
  LET hits == {k \in DOMAIN answers : AnswersName(dname, answers[k])}
      near == {k \in hits : answers[k].addr \in LocalHosts}
  IN  IF hits = {} THEN "none" ELSE answers[IF near = {} THEN Min(hits) ELSE Max(near)].addr

DnsAgain(s) == IF s.i + 1 < DnsRetry THEN [s EXCEPT !.i = @ + 1] ELSE Returned(Releases(s, "dns"))
DnsTurn(rest) ==
  /\ sv' = DnsAgain(sv)
  /\ svnet' \in {rest} \cup {rest \cup {[to |-> "dns", answers |-> a]} :
                               a \in IF sv'.op = "dns" THEN DnsReplies[sv.name] ELSE {}}
  /\ svresult' = IF sv'.op = "none" THEN SvResult("dns", "error", {}) ELSE svresult
  /\ UNCHANGED svserver

DnsTimesOut == sv.op = "dns" /\ DnsTurn(svnet)

\* Whatever comes from the server's port is taken for the answer, with no look at
\* its id; names keep an answer to an earlier query apart.
DnsReceives(m) ==
  LET best == DnsBest(sv.name, m.answers) IN
  /\ sv.op = "dns" /\ m.to = "dns"
  /\ IF best = "none" THEN \E rest \in Remains(m) : DnsTurn(rest)
     ELSE /\ sv' = Returned(Releases(sv, "dns")) /\ svnet' \in Remains(m)
          /\ svresult' = SvResult("dns", best, {sv.name})
          /\ UNCHANGED svserver

-----------------------------------------------------------------------------
(* tftpget_mb *)

\* The server, external: a read request starts a transfer on a port of its own; an
\* acknowledgement of the block sent last is answered with the next block.
TfData(port, blk) == [to |-> "tftp", type |-> "data", port |-> port, blk |-> blk]
TfServes(port, blk, server) ==
  IF port = TftpPort
  THEN {[server EXCEPT ![p] = 1] : p \in {q \in TfPorts : server[q] = 0}}
  ELSE {[server EXCEPT ![port] = IF blk = @ /\ blk < TfBlocks THEN @ + 1 ELSE @]}

\* udp_sendto of the request or acknowledgement for block blk, which may be lost.
TfSends(port, blk, rest) ==
  \/ svserver' = svserver /\ svnet' = rest
  \/ /\ svserver' \in TfServes(port, blk, svserver)
     /\ svnet' = rest \cup {TfData(p, svserver'[p]) : p \in {q \in TfPorts : svserver'[q] > svserver[q]}}

\* A server sends its block again when it hears nothing, or gives up with an error.
TfServerAgain == \E p \in TfPorts :
  /\ sv.op = "tftp" /\ svserver[p] > 0
  /\ svnet' \in {svnet \cup {TfData(p, svserver[p])},
                 svnet \cup {[to |-> "tftp", type |-> "error", port |-> p, blk |-> 0]}}
  /\ UNCHANGED <<sv, svserver, svresult>>

\* The port is a new one, so that nothing is under way to it.
TftpGet ==
  /\ sv.op = "none"
  /\ \E room \in TfRooms : sv' = [Registers(sv, "tftp") EXCEPT !.op = "tftp", !.room = room]
  /\ svresult' = SvResult("none", "none", {})
  /\ LET server == [p \in TfPorts |-> 0] IN
     \/ svserver' = server /\ svnet' = {m \in svnet : m.to # "tftp"}
     \/ /\ svserver' \in TfServes(TftpPort, 0, server)
        /\ svnet' = {m \in svnet : m.to # "tftp"} \cup
                    {TfData(p, 1) : p \in {q \in TfPorts : svserver'[q] > 0}}

TftpReturns(value) ==
  /\ sv' = Returned(Releases(sv, "tftp"))
  /\ svresult' = SvResult("tftp", value, {sv.got})

\* tftp_send1 times out: the message is sent again to the port last heard from.
TftpTimesOut ==
  /\ sv.op = "tftp"
  /\ IF sv.i + 1 < TftpMaxRetries
     THEN /\ sv' = [sv EXCEPT !.i = @ + 1]
          /\ TfSends(sv.port, sv.expected - 1, svnet)
          /\ UNCHANGED svresult
     ELSE TftpReturns("error") /\ UNCHANGED <<svnet, svserver>>

\* tftp_send1: the port is taken from every datagram, also from those ignored.
TftpExpects(m) == m.type = "data" /\ m.blk = sv.expected
TftpIgnores(m) ==
  /\ sv.op = "tftp" /\ m.to = "tftp" /\ m.type = "data" /\ ~TftpExpects(m)
  /\ sv' = [sv EXCEPT !.port = m.port]
  /\ svnet' \in Remains(m)
  /\ UNCHANGED <<svserver, svresult>>

TftpError(m) ==
  /\ sv.op = "tftp" /\ m.to = "tftp" /\ m.type = "error"
  /\ TftpReturns("error") /\ svnet' \in Remains(m) /\ UNCHANGED svserver

\* The block goes to the buffers, is acknowledged, and the next one is expected;
\* when the buffers are full the size they hold is returned.
TftpReceives(m) ==
  LET got == Append(sv.got, m.blk)
      full == Len(sv.got) = sv.room
      last == m.blk = TfBlocks
  IN /\ sv.op = "tftp" /\ m.to = "tftp" /\ TftpExpects(m)
     /\ \E rest \in Remains(m) :
          IF full THEN svnet' = rest /\ UNCHANGED svserver ELSE TfSends(m.port, m.blk, rest)
     /\ IF full \/ last
        THEN /\ sv' = Returned(Releases(sv, "tftp"))
             /\ svresult' = SvResult("tftp", IF full THEN "full" ELSE "whole",
                                     {IF full THEN sv.got ELSE got})
        ELSE /\ sv' = [sv EXCEPT !.got = got, !.expected = @ + 1, !.port = m.port, !.i = 0]
             /\ UNCHANGED svresult

SvNext ==
  \/ GetLocalIp("dhcp", <<>>) \/ \E name \in DnsNames : GetLocalIp("dns", name)
  \/ DhcpTimesOut \/ DhcpStray \/ DnsTimesOut \/ TftpGet \/ TftpTimesOut \/ TfServerAgain
  \/ \E m \in svnet : DhcpRequests(m) \/ DhcpBinds(m) \/ DhcpSkips(m) \/ DnsReceives(m)
                      \/ TftpIgnores(m) \/ TftpError(m) \/ TftpReceives(m)

SvSpec == SvInit /\ [][SvNext]_svVars

-----------------------------------------------------------------------------
(* Properties *)

\* What the last call returned is the answer to it.  An address is one that this
\* call of getlocalip requested; an address for a name is that name's, not one an
\* earlier query asked for; a file that tftpget_mb calls whole is whole, and what
\* it stores is the start of the file, although blocks are lost, duplicated and
\* sent by two transfers at once (dhcp.c, dns.c, tftp.c).
AnswersMatch ==
  LET r == svresult IN
  /\ r.op = "dhcp" /\ r.value # "error" => r.value \in r.for
  /\ r.op = "dns" /\ r.value # "error" => r.for = {<<r.value>>}
  /\ r.op = "tftp" => \A got \in r.for :
       /\ got = [k \in 1 .. Len(got) |-> k]
       /\ r.value = "whole" => Len(got) = TfBlocks

\* A call that has returned holds no UDP slot.
SlotsReturned == sv.op = "none" => sv.held = {}
==============================================================================
