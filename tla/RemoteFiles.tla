----------------------------- MODULE RemoteFiles ------------------------------
(***************************************************************************)
(* The remote file system: pseudo-devices for open files, and one mutex    *)
(* under which a call makes its exchange with the server, over datagrams   *)
(* that may be lost, late or doubled.                                      *)
(*                                                                         *)
(* A file is the sequence of its bytes, and a byte is the number of the    *)
(* write it comes from.  The server is not part of the repository: it does *)
(* what the requests of rfilesys.h ask, each time it gets one.             *)
(***************************************************************************)
EXTENDS Semaphores, FileModes

CONSTANTS
  RfProc, Rfl,      \* processes; minor numbers of the Nrfl pseudo-devices
  RfName, RfBad,    \* names that can be used; names too long or empty
  RfModes,          \* mode strings
  RfLens, RfDatalen,   \* counts asked for; RF_DATALEN
  RfMaxPos, RfRetries, RfMaxSeq,   \* bounds: file size and seeks; RF_RETRIES; rf_seq
  RfHazards         \* uses admitted: "late" changes

ASSUME RemoteFilesAssumption ==
  /\ RfDatalen \in Nat \ {0} /\ RfRetries \in Nat \ {0} /\ Rfl \subseteq Nat
  /\ RfMaxPos \in Nat /\ RfMaxSeq \in Nat /\ RfLens \subseteq Int /\ IsFiniteSet(RfProc)

VARIABLES
  rfltab, rfmutex, rfseq,
  rfcall,    \* the call a process is in
  rfexch,    \* the exchange of the one that has the mutex
  rfnet,     \* datagrams under way
  files,     \* the server's files
  sure,      \* history: bytes that acknowledged calls leave, -1 for those of calls that timed out
  rfread     \* history: what the last read of a process returned, and what it should be
rfVars == <<rfltab, rfmutex, rfseq, rfcall, rfexch, rfnet, files, sure, rfread>>

RfIdle == [op |-> "none", at |-> "", dev |-> 0, name |-> "", mode |-> <<>>, len |-> 0]
RfNone == [seq |-> 0, tries |-> 0]
Absent == <<-1>>

RfCall(op, dev, name, mode, len) ==
  [op |-> op, at |-> "mutex", dev |-> dev, name |-> name, mode |-> mode, len |-> len]

\* rfscontrol's requests that carry a name and nothing else, sent by rfsndmsg.
Rfsndmsg == {"delete", "trunc", "mkdir", "rmdir"}

\* rflgetc and rflputc are reads and writes of one byte.
Reading(i, len) == RfCall("read", i, "", <<>>, len)
Writing(i, len) == RfCall("write", i, "", <<>>, len)
Rflgetc(i) == Reading(i, 1)
Rflputc(i) == Writing(i, 1)

RfCallsOn(i) ==
  {Reading(i, n) : n \in RfLens} \cup {Writing(i, n) : n \in RfLens}
  \cup {Rflgetc(i), Rflputc(i), RfCall("close", i, "", <<>>, 0)}
  \cup {RfCall("seek", i, "", <<>>, n) : n \in 0 .. RfMaxPos}
RfCalls ==
  {RfCall("open", 0, n, md, 0) : n \in RfName \cup RfBad, md \in RfModes}
  \cup {RfCall(op, 0, n, <<>>, 0) : op \in Rfsndmsg \cup {"size"}, n \in RfName \cup RfBad}
  \cup UNION {RfCallsOn(i) : i \in Rfl}

\* Every call first waits for the mutex.
RfBegin(p, c) ==
  /\ rfcall[p] = RfIdle
  /\ rfcall' = [rfcall EXCEPT ![p] = c]
  /\ rfmutex' = Waits(rfmutex, p)
  /\ UNCHANGED <<rfltab, rfseq, rfexch, rfnet, files, sure, rfread>>

Has(p) == rfcall[p].at = "mutex" /\ ~Queued(rfmutex, p)

Leaves(p) == rfcall' = [rfcall EXCEPT ![p] = RfIdle] /\ rfmutex' = Signaled(rfmutex)

(***************************************************************************)
(* What a call does before it talks to the server.                         *)
(***************************************************************************)
FreeRfl == {i \in Rfl : rfltab[i].state = "free"}

Rfsgetmode(mode) == Getmode(mode)

\* Calls that the checks refuse; an open may have left its name in a free slot.
RfRefused(c) ==
  CASE c.op = "open" -> FreeRfl = {} \/ c.name \in RfBad \/ Rfsgetmode(c.mode) = BadMode
    [] c.op = "read" -> \/ c.len <= 0 \/ c.len > RfDatalen
                        \/ rfltab[c.dev].state = "free" \/ "r" \notin rfltab[c.dev].mode
    [] c.op = "write" -> \/ c.len <= 0 \/ c.len > RfDatalen
                         \/ rfltab[c.dev].state = "free" \/ "w" \notin rfltab[c.dev].mode
    [] c.op \in {"seek", "close"} -> rfltab[c.dev].state = "free"
    [] OTHER -> c.name \in RfBad

RfReturnsError(p) ==
  /\ Has(p) /\ RfRefused(rfcall[p])
  /\ Leaves(p)
  /\ UNCHANGED <<rfltab, rfseq, rfexch, rfnet, files, sure, rfread>>

Rflseek(p) ==
  /\ Has(p) /\ rfcall[p].op = "seek" /\ ~RfRefused(rfcall[p])
  /\ rfltab' = [rfltab EXCEPT ![rfcall[p].dev].pos = rfcall[p].len]
  /\ Leaves(p)
  /\ UNCHANGED <<rfseq, rfexch, rfnet, files, sure, rfread>>

Rflclose(p) ==
  /\ Has(p) /\ rfcall[p].op = "close" /\ ~RfRefused(rfcall[p])
  /\ rfltab' = [rfltab EXCEPT ![rfcall[p].dev].state = "free"]
  /\ Leaves(p)
  /\ UNCHANGED <<rfseq, rfexch, rfnet, files, sure, rfread>>

\* The request; an open takes the first free slot and leaves name and mode in it.
RfRequest(c, slot) ==
  LET f == rfltab[IF c.op = "open" THEN slot ELSE c.dev]
  IN  [kind |-> "request", op |-> c.op, seq |-> rfseq, slot |-> slot,
       name |-> IF c.op \in {"read", "write"} THEN f.name ELSE c.name,
       mode |-> IF c.op = "open" THEN Rfsgetmode(c.mode) ELSE {},
       pos |-> IF c.op \in {"read", "write"} THEN f.pos ELSE 0, len |-> c.len]

RfAsks(p) ==
  LET c == rfcall[p]
      slot == IF c.op = "open" THEN Min(FreeRfl) ELSE c.dev
      m == RfRequest(c, slot)
  IN
  /\ Has(p) /\ c.op \notin {"seek", "close"} /\ ~RfRefused(c) /\ rfseq < RfMaxSeq
  /\ c.op = "write" => m.pos + m.len <= RfMaxPos
  /\ rfseq' = rfseq + 1
  /\ rfexch' = [seq |-> rfseq, tries |-> 1, by |-> p, ask |-> m]
  /\ rfnet' = rfnet \cup {m}
  /\ rfcall' = [rfcall EXCEPT ![p].at = "reply"]
  /\ rfltab' = IF c.op = "open"
               THEN [rfltab EXCEPT ![slot].name = c.name, ![slot].mode = m.mode] ELSE rfltab
  /\ UNCHANGED <<rfmutex, files, sure, rfread>>

(***************************************************************************)
(* The server, and rfscomm.                                                *)
(***************************************************************************)
\* What writing n bytes at pos makes of the bytes of a file.
Written(bytes, pos, n, v) ==
  [k \in 1 .. Max({Len(bytes), pos + n}) |->
     IF k \in pos + 1 .. pos + n THEN v ELSE IF k <= Len(bytes) THEN bytes[k] ELSE 0]
Slice(bytes, pos, n) == SubSeq(bytes, pos + 1, Min({pos + n, Len(bytes)}))

Refuses(m) ==
  \/ m.op = "open" /\ IF files[m.name] = Absent THEN "o" \in m.mode ELSE "n" \in m.mode
  \/ m.op \in {"read", "write", "delete", "trunc", "size"} /\ files[m.name] = Absent

\* Requests that may change a file; an open may create it.  Nothing in rfscomm or
\* in UDP keeps them in order: unless "late" is admitted the network does, so that
\* no change is carried out while an older one is still under way.  Other requests,
\* and all replies, come in any order.
RfChanging == {"open", "write", "trunc", "delete"}
RfInTime(m) ==
  \/ "late" \in RfHazards \/ m.op \notin RfChanging
  \/ \A n \in rfnet : n.kind = "request" /\ n.op \in RfChanging => n.seq >= m.seq

RfServer(m) ==
  LET f == files[m.name] IN
  /\ m \in rfnet /\ m.kind = "request" /\ RfInTime(m)
  /\ files' = IF Refuses(m) THEN files
              ELSE CASE m.op = "open" /\ f = Absent -> [files EXCEPT ![m.name] = <<>>]
                     [] m.op = "write" -> [files EXCEPT ![m.name] = Written(f, m.pos, m.len, m.seq)]
                     [] m.op = "trunc" -> [files EXCEPT ![m.name] = <<>>]
                     [] m.op = "delete" -> [files EXCEPT ![m.name] = Absent]
                     [] OTHER -> files
  /\ \E ok \in (IF m.op \in {"mkdir", "rmdir"} THEN BOOLEAN ELSE {~Refuses(m)}) :
       rfnet' = (rfnet \ {m}) \cup
         {[kind |-> "reply", op |-> m.op, seq |-> m.seq, ok |-> ok,
           data |-> IF m.op = "read" /\ ok THEN Slice(f, m.pos, m.len) ELSE <<>>,
           len |-> IF m.op = "write" /\ ok THEN m.len ELSE 0]}
  /\ UNCHANGED <<rfltab, rfmutex, rfseq, rfcall, rfexch, sure, rfread>>

\* A reply with another number, even an old one, costs a try.
RfAccepts_AnyNumber(m) == m.kind = "reply" /\ m.op = rfexch.ask.op
RfAccepts(m) == m.kind = "reply" /\ m.seq = rfexch.seq /\ m.op = rfexch.ask.op

RfTries ==
  /\ rfexch # RfNone /\ rfexch.tries < RfRetries
  /\ rfexch' = [rfexch EXCEPT !.tries = @ + 1]

\* The time has run out; the datagrams under way are late, or lost.
RfTimeout ==
  /\ RfTries
  /\ \E kept \in {{}, rfnet} : rfnet' = kept \cup {rfexch.ask}
  /\ UNCHANGED <<rfltab, rfmutex, rfseq, rfcall, files, sure, rfread>>

RfIgnore(m) ==
  /\ RfTries /\ m \in rfnet /\ m.kind = "reply" /\ ~RfAccepts(m)
  /\ rfnet' = (rfnet \ {m}) \cup {rfexch.ask}
  /\ UNCHANGED <<rfltab, rfmutex, rfseq, rfcall, files, sure, rfread>>

\* The tries are exhausted, or UDP refuses one: nobody knows what the server did,
\* nor, if it wrote beyond the end, how long the file is.
Blurred(bytes, pos, n) ==
  [k \in DOMAIN Written(bytes, pos, n, -1) |->
     IF k <= Len(bytes) /\ k \notin pos + 1 .. pos + n THEN bytes[k] ELSE -1]
Unsure(m) ==
  CASE m.op = "write" -> [sure EXCEPT ![m.name] = Blurred(@, m.pos, m.len)]
    [] m.op \in {"trunc", "delete"} -> [sure EXCEPT ![m.name] = [k \in 1 .. RfMaxPos |-> -1]]
    [] OTHER -> sure

RfGivesUp ==
  /\ rfexch # RfNone /\ rfexch' = RfNone
  /\ Leaves(rfexch.by)
  /\ sure' = Unsure(rfexch.ask)
  /\ UNCHANGED <<rfltab, rfseq, rfnet, files, rfread>>

(***************************************************************************)
(* What a call does with the reply.  Only a size request does not look at  *)
(* the status, and returns what the reply says.                            *)
(***************************************************************************)
RfAnswered(m) ==
  /\ rfexch # RfNone /\ m \in rfnet /\ RfAccepts(m)
  /\ rfnet' = rfnet \ {m} /\ rfexch' = RfNone
  /\ Leaves(rfexch.by)
  /\ UNCHANGED <<rfseq, files>>

\* A request that was sent twice may have failed because it was done already.
RfFails(m) ==
  /\ RfAnswered(m) /\ ~m.ok
  /\ sure' = IF rfexch.tries > 1 THEN Unsure(rfexch.ask) ELSE sure
  /\ UNCHANGED <<rfltab, rfread>>

Rfsopen(m) ==
  /\ RfAnswered(m) /\ m.ok /\ m.op = "open"
  /\ rfltab' = [rfltab EXCEPT ![rfexch.ask.slot].state = "used", ![rfexch.ask.slot].pos = 0]
  /\ UNCHANGED <<sure, rfread>>

Rflread(m) ==
  LET ask == rfexch.ask IN
  /\ RfAnswered(m) /\ m.ok /\ m.op = "read"
  /\ rfltab' = [rfltab EXCEPT ![ask.slot].pos = @ + Len(m.data)]
  /\ rfread' = [rfread EXCEPT ![rfexch.by] =
                  [data |-> m.data, want |-> Slice(sure[ask.name], ask.pos, ask.len)]]
  /\ UNCHANGED sure

Rflwrite(m) ==
  LET ask == rfexch.ask IN
  /\ RfAnswered(m) /\ m.ok /\ m.op = "write"
  /\ rfltab' = [rfltab EXCEPT ![ask.slot].pos = @ + m.len]
  /\ sure' = [sure EXCEPT ![ask.name] = Written(@, ask.pos, ask.len, ask.seq)]
  /\ UNCHANGED rfread

Rfscontrol(m) ==
  /\ RfAnswered(m) /\ m.ok /\ m.op \in Rfsndmsg \cup {"size"}
  /\ sure' = IF m.op \in {"delete", "trunc"} THEN [sure EXCEPT ![rfexch.ask.name] = <<>>] ELSE sure
  /\ UNCHANGED <<rfltab, rfread>>

\* rfsinit and rflinit.
RfInit ==
  /\ rfltab = [i \in Rfl |-> [state |-> "free", name |-> "", mode |-> {}, pos |-> 0]]
  /\ rfmutex = NewSem(1) /\ rfseq = 1
  /\ rfcall = [p \in RfProc |-> RfIdle] /\ rfexch = RfNone /\ rfnet = {}
  /\ files = [n \in RfName |-> Absent] /\ sure = [n \in RfName |-> <<>>]
  /\ rfread = [p \in RfProc |-> [data |-> <<>>, want |-> <<>>]]

RfNext ==
  \/ \E p \in RfProc :
       \/ \E c \in RfCalls : RfBegin(p, c)
       \/ RfReturnsError(p) \/ Rflseek(p) \/ Rflclose(p) \/ RfAsks(p)
  \/ RfTimeout \/ RfGivesUp
  \/ \E m \in rfnet : RfServer(m) \/ RfIgnore(m) \/ RfFails(m) \/ Rfsopen(m) \/ Rflread(m)
                      \/ Rflwrite(m) \/ Rfscontrol(m)

RfSpec == RfInit /\ [][RfNext]_rfVars

-------------------------------------------------------------------------------
\* A read returns the bytes that acknowledged writes have left in the file, whatever
\* was lost or sent twice and however late replies and reads are, while changes do
\* not overtake each other ("late" is not admitted); only where a write or a
\* truncation was given up may it return something else.
ReadsWhatWasWritten ==
  \A p \in RfProc : LET r == rfread[p] IN
    \A k \in DOMAIN r.want : r.want[k] # -1 => k \in DOMAIN r.data /\ r.data[k] = r.want[k]
===============================================================================
