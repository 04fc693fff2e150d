------------------------------ MODULE MCStorage ------------------------------
(***************************************************************************)
(* The instance of the remote disk, the remote file system and the local   *)
(* file system.  They share no state, so that each behaviour is about one  *)
(* of them: subject says which.                                            *)
(***************************************************************************)
EXTENDS RemoteDisk, RemoteFiles, LocalFiles, TLC

CONSTANTS r1, r2   \* the users of the remote disk

RdUsers == {r1, r2}

\* They are interchangeable.
StorageSymmetry == Permutations(RdUsers)

McRfModes == {<<"n">>, <<"o", "r">>}
McLfModes == {<<>>, <<"o", "r">>}

VARIABLE subject

StorageInit == /\ RdInit /\ RfInit /\ LfInit
               /\ subject \in {"remote disk", "remote files", "local files"}

\* States that differ only in values that are overwritten before they are read
\* are the same: the header of a free buffer, what latest was before a sync that
\* is over, the control block of a remote file that nobody has open or opens, its
\* position until it is open.  Of the last reads it is asked whether they were right.
\* One buffer is like another: of those that are used, what is in which place of
\* the lists.  After a panic for want of the server nothing happens any more.
InPlace(list) == [i \in DOMAIN list |-> rdbuf[list[i]]]
Place(b) == IF b \in RdBuffer THEN Min({i \in DOMAIN (rdreq \o rdcache \o rdfree) : (rdreq \o rdcache \o rdfree)[i] = b}) ELSE b
RdView ==
  IF rdpanic = "server" THEN <<rdpanic>> ELSE
  <<rdstate, InPlace(rdreq), InPlace(rdcache), Len(rdfree), availsem, reqsem, exchVars,
    comm = "wait", msgblk, disk, rdcall, latest,
    [p \in RdProc |-> Place(rdmsg[p])],
    [p \in {q \in RdProc : rdcall[q].op = "sync"} |-> before[p]], writes, rdpanic, ruined>>

\* Of replies to calls that are over, and of their requests that change no file,
\* it matters how many are under way.
Old == {m \in rfnet : rfexch = RfNone \/ m.seq # rfexch.seq}
OldRequests == {m \in Old : m.kind = "request" /\ m.op \notin RfChanging}
OldReplies == {m \in Old : m.kind = "reply"}
BeingOpened(i) == rfexch # RfNone /\ rfexch.ask.op = "open" /\ rfexch.ask.slot = i
RfView ==
  <<[i \in {j \in Rfl : rfltab[j].state = "used"} |-> rfltab[i]],
    [i \in {j \in Rfl : BeingOpened(j)} |-> <<rfltab[i].name, rfltab[i].mode>>],
    rfmutex, rfseq, rfcall, rfexch, rfnet \ (OldRequests \cup OldReplies),
    Cardinality(OldRequests), Cardinality(OldReplies), files, sure, ReadsWhatWasWritten>>

\* What changes is the state of the subject.
StorageView ==
  <<subject,
    CASE subject = "remote disk" -> RdView
      [] subject = "remote files" -> RfView
      [] subject = "local files" -> lfVars>>

RdStep == /\ subject = "remote disk" /\ RdNext
          /\ UNCHANGED <<rfVars, lfVars, subject>>

\* The second process reads and writes one byte at a time.  Directories, sizes and the name
\* that is too long are the first request, and two datagrams are under way at once.
RfStep == /\ subject = "remote files" /\ RfNext
          /\ rfcall'["p2"].op = "none" \/ (rfcall'["p2"].op \in {"read", "write"} /\ rfcall'["p2"].len = 1)
          /\ rfcall'["p1"].op \in {"mkdir", "rmdir", "size"} \/ rfcall'["p1"].name = "bad" => rfseq = 1
          /\ Cardinality(rfnet') <= 2
          /\ UNCHANGED <<rdVars, lfVars, subject>>

\* The first process writes two bytes with a call and reads one, and the second
\* writes one.
Begins(p, op, n) == lfcall[p].op = "none" /\ lfcall'[p].op = op => lfcall'[p].left = n

\* The second process opens, writes and closes file "a".  File "b" is opened while
\* "a" is open: whichever is opened first, the calls and the locks on the directory
\* are the same.  Which bytes are written depends on where: "b" gets a byte 2, and
\* "a" a byte 2 or 1 in its second and third place.
LfStep == /\ subject = "local files" /\ LfNext
          /\ Begins("p1", "write", 2) /\ Begins("p1", "read", 1) /\ Begins("p2", "write", 1)
          /\ lfcall'["p2"].op \in {"none", "open", "write", "close"}
          /\ lfcall'["p2"].name # "b" /\ lfcall'["p2"].dev = 0
          /\ lfcall'["p1"].name = "b" => lfcall'["p1"].dev = 1
          /\ \A k \in DOMAIN contents'["b"] : k = 1 /\ contents'["b"][k] = 2
          /\ \A k \in DOMAIN contents'["a"] : k > 1 => contents'["a"][k] = 4 - k
          /\ UNCHANGED <<rdVars, rfVars, subject>>

StorageNext == RdStep \/ RfStep \/ LfStep

StorageSpec == StorageInit /\ [][StorageNext]_<<rdVars, rfVars, lfVars, subject>>
===============================================================================
