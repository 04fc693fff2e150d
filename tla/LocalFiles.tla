------------------------------ MODULE LocalFiles ------------------------------
(***************************************************************************)
(* The local file system: a directory, index blocks and data blocks on a   *)
(* disk, and for each open file a pseudo-device that holds one index block *)
(* and one data block in memory.                                           *)
(*                                                                         *)
(* The mutexes are modelled by what they exclude.  An open chooses its     *)
(* device before it takes lf_mutex; the byte of a write is stored after    *)
(* lfsetup has released it; a close never takes it, and writes the         *)
(* directory, clears its mark, reads a sector of index blocks and writes   *)
(* it back one after the other.  lfsetup, which holds it, is cut where it  *)
(* has written the directory and not yet cleared the mark.  Calls that are *)
(* refused and change nothing are left out.                                *)
(***************************************************************************)
EXTENDS FileModes

CONSTANTS
  LfProc, Lfl,            \* processes; minor numbers of the Nlfl pseudo-devices
  LfName, LfModes, LfByte,
  Blksiz, IbLen,          \* LF_BLKSIZ, LF_IBLEN
  PerSector,              \* index blocks in a sector, see ib2sect
  NumIb, NumDb, DirSize,  \* index blocks, data blocks; LF_NUM_DIR_ENT
  LfCounts, LfSeeks,      \* counts for read and write; positions for seek
  LfMaxSize,              \* bound on the size of a file
  LfHazards               \* uses admitted: "open", two at once; "mark", see MarkKept; "sector", see SectorKept

ASSUME LocalFilesAssumption ==
  /\ {Blksiz, IbLen, PerSector} \subseteq Nat \ {0} /\ Lfl \subseteq Nat /\ LfCounts \cup LfSeeks \subseteq Nat
  /\ NumIb \in Nat \ {0} /\ NumDb \in Nat \ {0} /\ DirSize \in Nat /\ LfMaxSize \in Nat

VARIABLES
  lf,        \* Lf_data: directory, dirpresent, dirdirty; and whether panic was called
  lfltab,    \* control blocks of the open files
  lfdisk,
  lfcall,    \* the call a process is in
  contents   \* history: the bytes that each file should have
lfVars == <<lf, lfltab, lfdisk, lfcall, contents>>

Inull == -1     \* LF_INULL, LF_DNULL
IData == Blksiz * IbLen

\* left: the bytes to go.  at: where a call is that holds the mutex of its file,
\* "" if it does not: "flush", lfflush has written the directory; "alloc", lfdballoc
\* has; "set", lfsetup has returned; "data", "index" and "put", what lfflush writes
\* next.  copy: the sector that lfibput has read.
LfIdle == [op |-> "none", dev |-> 0, name |-> "", bits |-> {}, left |-> 0, at |-> "", copy |-> <<>>]
LfCall(op, i, name, bits, left) ==
  [LfIdle EXCEPT !.op = op, !.dev = i, !.name = name, !.bits = bits, !.left = left]

\* What holds while p has the mutex of a file, and while it has lf_mutex.
Mine(p, i) == \A q \in LfProc \ {p} : lfcall[q].at # "" => lfcall[q].dev # i
DirMine(p) == \A q \in LfProc \ {p} : lfcall[q].op = "close" \/ lfcall[q].at \notin {"flush", "alloc"}

\* The directory changes, and is marked, where another process has written it and
\* is about to clear the mark.
MarkKept(p) == "mark" \in LfHazards \/ \A q \in LfProc \ {p} : lfcall[q].at \notin {"flush", "alloc"}

\* An index block changes on the disk where a close has read its sector and is
\* about to write it back.  The sectors that lfsetup and lftruncate read they write
\* in the same step: no close comes in between.
SectorKept(p) ==
  "sector" \in LfHazards
  \/ \A q \in LfProc \ {p} : \A n \in DOMAIN lfcall[q].copy : lfdisk'.ib[n] = lfdisk.ib[n]

(***************************************************************************)
(* Blocks.  These operators take and give a state S of a call under        *)
(* lf_mutex: Lf_data, the disk, and the control block of one file.         *)
(***************************************************************************)
Bytes(S) == S.f.pos % Blksiz

\* lfibclear.
Ibclear(offset) == [next |-> Inull, offset |-> offset, dba |-> [k \in 1 .. IbLen |-> Inull]]

WriteDir(S) == [S EXCEPT !.disk.dir = S.lf.dir]
Saved(S) == [WriteDir(S) EXCEPT !.lf.dirty = FALSE]

\* The index blocks that are in one sector with block n.
Sector(n) == {m \in 0 .. NumIb - 1 : m \div PerSector = n \div PerSector}

Lfibget(S, n) == [S EXCEPT !.f.iblock = S.disk.ib[n], !.f.inum = n]
Lfibput(S, n, b) == [S EXCEPT !.disk.ib[n] = b]
LfRead(S, n) == [S EXCEPT !.f.dblock = S.disk.db[n].bytes, !.f.dbdirty = FALSE]
LfWrite(S, n, bytes) == [S EXCEPT !.disk.db[n] = [next |-> Inull, bytes |-> bytes]]

\* lfflush: the directory first, then the data block, then the index block.
Flushdata(S) == IF S.f.dbdirty THEN [LfWrite(S, S.f.dnum, S.f.dblock) EXCEPT !.f.dbdirty = FALSE] ELSE S
Flushindex(S) == IF S.f.ibdirty THEN [Lfibput(S, S.f.inum, S.f.iblock) EXCEPT !.f.ibdirty = FALSE] ELSE S
Lfflush(S) == Flushindex(Flushdata(IF S.lf.dirty THEN Saved(S) ELSE S))

\* lfiballoc and lfdballoc write the directory, and stop the system if there is
\* no block left.  Who calls lfiballoc calls lfdballoc next: where its mark is
\* cleared late, the directory is written again.  See LfsetupEnds for the other.
LfPanic(S) == [S EXCEPT !.lf.panic = TRUE]
Lfiballoc(S) == Saved([S EXCEPT !.lf.dir.ifree = S.disk.ib[S.lf.dir.ifree].next])
Lfdballoc(S) == WriteDir([S EXCEPT !.lf.dir.dfree = S.disk.db[S.lf.dir.dfree].next,
                                   !.f.dblock = [k \in 1 .. Blksiz |-> 0]])
Lfdbfree(S, n) ==
  WriteDir([S EXCEPT !.disk.db[n] = [next |-> S.lf.dir.dfree, bytes |-> [k \in 1 .. Blksiz |-> 0]],
                     !.lf.dir.dfree = n])

(***************************************************************************)
(* lfsetup: the index block and the data block for the file's position.    *)
(***************************************************************************)
\* The index block in memory, or the first one of the file, or a new first one.
FirstIndex(S) ==
  LET e == S.lf.dir.files[S.f.entry] IN
  IF S.f.inum = Inull
  THEN IF e.ilist = Inull
       THEN IF S.lf.dir.ifree = Inull THEN LfPanic(S)
            ELSE [Lfiballoc(S) EXCEPT !.f.iblock = Ibclear(0), !.f.inum = S.lf.dir.ifree, !.f.ibdirty = TRUE,
                                      !.lf.dir.files[S.f.entry].ilist = S.lf.dir.ifree]
       ELSE Lfibget(S, e.ilist)
  ELSE IF S.f.pos < S.f.iblock.offset THEN Lfibget(S, e.ilist) ELSE S

\* The next index block, or a new one at the end of the list.
NextIndex(S) ==
  IF S.lf.panic \/ S.f.pos - (S.f.pos % IData) <= S.f.iblock.offset THEN S
  ELSE IF S.f.iblock.next # Inull
  THEN [Lfibget(S, S.f.iblock.next) EXCEPT !.f.dnum = Inull]
  ELSE IF S.lf.dir.ifree = Inull THEN LfPanic(S)
  ELSE LET n == S.lf.dir.ifree
           A == Lfiballoc(S)
           B == Lfibput(A, S.f.inum, [S.f.iblock EXCEPT !.next = n])
       IN  [B EXCEPT !.f.inum = n, !.f.iblock = Ibclear(S.f.iblock.offset + IData),
                     !.f.ibdirty = TRUE, !.f.dnum = Inull]

Walk(S) == FoldLeft(LAMBDA T, k : NextIndex(T), S, [k \in 1 .. NumIb + 1 |-> k])

\* The data block: the one in memory, another from the disk, or a new one.
SetData_Keep(S) ==
  LET d == (S.f.pos % IData) \div Blksiz + 1
      n == S.f.iblock.dba[d]
  IN
  IF S.lf.panic THEN S
  ELSE IF n = Inull
  THEN IF S.lf.dir.dfree = Inull THEN LfPanic(S)
       ELSE [Lfdballoc(S) EXCEPT !.f.iblock.dba[d] = S.lf.dir.dfree, !.f.ibdirty = TRUE,
                                 !.f.dnum = S.lf.dir.dfree, !.f.byte = Bytes(S)]
  ELSE [S EXCEPT !.f.dnum = n, !.f.byte = Bytes(S)]
SetData(S) ==
  LET d == (S.f.pos % IData) \div Blksiz + 1
      n == S.f.iblock.dba[d]
  IN
  IF S.lf.panic THEN S
  ELSE IF n = Inull
  THEN IF S.lf.dir.dfree = Inull THEN LfPanic(S)
       ELSE [Lfdballoc(S) EXCEPT !.f.iblock.dba[d] = S.lf.dir.dfree, !.f.ibdirty = TRUE,
                                 !.f.dnum = S.lf.dir.dfree, !.f.byte = Bytes(S)]
  ELSE [(IF n # S.f.dnum THEN LfRead(S, n) ELSE S) EXCEPT !.f.dnum = n, !.f.byte = Bytes(S)]

Lfsetup(S) == SetData(Walk(FirstIndex(Flushindex(Flushdata(S)))))

(***************************************************************************)
(* lftruncate: the blocks of the file go to the free lists.  Its walk ends *)
(* at the index block that was the first free one.                         *)
(***************************************************************************)
FreeData(S, b) == FoldLeft(LAMBDA T, n : IF n = Inull THEN T ELSE Lfdbfree(T, n), S, b.dba)

Dispose_NoLink(S, ifree) ==
  IF S.walk = ifree THEN S
  ELSE LET b == S.disk.ib[S.walk]
       IN  [Lfibput(FreeData(S, b), S.walk, [Ibclear(0) EXCEPT !.next = b.next])
              EXCEPT !.walk = IF b.next = Inull THEN ifree ELSE b.next]
Dispose(S, ifree) ==
  IF S.walk = ifree THEN S
  ELSE LET b == S.disk.ib[S.walk]
           next == IF b.next = Inull THEN ifree ELSE b.next
       IN  [Lfibput(FreeData(S, b), S.walk, [Ibclear(0) EXCEPT !.next = next]) EXCEPT !.walk = next]

Emptyfile(S) ==
  LET A == IF S.f.ibdirty \/ S.f.dbdirty THEN Lfflush(S) ELSE S
      first == A.lf.dir.files[A.f.entry].ilist
      ifree == A.lf.dir.ifree
      B == [A EXCEPT !.f.pos = 0, !.f.inum = Inull, !.f.dnum = Inull, !.f.byte = Blksiz,
                     !.lf.dir.files[A.f.entry].ilist = Inull, !.lf.dir.files[A.f.entry].size = 0,
                     !.lf.dirty = TRUE]
      C == FoldLeft(LAMBDA T, k : Dispose(T, ifree),
                    [lf |-> B.lf, disk |-> B.disk, f |-> B.f, walk |-> first],
                    [k \in 1 .. NumIb + 1 |-> k])
  IN  [C EXCEPT !.lf.dir.ifree = first]

LfState(i) == [lf |-> lf, disk |-> lfdisk, f |-> lfltab[i]]

Becomes(i, S) ==
  /\ lf' = S.lf /\ lfdisk' = S.disk
  /\ lfltab' = [lfltab EXCEPT ![i] = S.f]

(***************************************************************************)
(* Opening.                                                                *)
(***************************************************************************)
FreeLfl == {i \in Lfl : lfltab[i].state = "free"}
OpenNames == {lfltab[i].name : i \in Lfl \ FreeLfl}
Named(dir, name) == {k \in DOMAIN dir.files : dir.files[k].name = name}

Lfgetmode(mode) == Getmode(mode)

\* The device is chosen, and the name looked for among those of the open files,
\* before the mutex is taken.
LfsopenChooses(p, name, mode) ==
  /\ ~lf.panic /\ lfcall[p] = LfIdle
  /\ Lfgetmode(mode) # BadMode /\ name \notin OpenNames /\ FreeLfl # {}
  /\ "open" \in LfHazards \/ \A q \in LfProc : lfcall[q].op # "open"
  /\ lfcall' = [lfcall EXCEPT ![p] = LfCall("open", Min(FreeLfl), name, Lfgetmode(mode), 0)]
  /\ UNCHANGED <<lf, lfltab, lfdisk, contents>>

\* lfscheck.
Lfscheck(dir) == dir.id

Opened(c, k) ==
  [state |-> "used", name |-> c.name, entry |-> k, pos |-> 0, inum |-> Inull, iblock |-> Ibclear(0),
   dnum |-> Inull, dblock |-> [j \in 1 .. Blksiz |-> 0], byte |-> Blksiz, ibdirty |-> FALSE,
   dbdirty |-> FALSE]

\* The directory is read once and kept.  A new file goes to its end, without
\* the directory being marked as changed.
LfsopenFinds(p) ==
  LET c == lfcall[p]
      dir == IF lf.present THEN lf.dir ELSE lfdisk.dir
      found == Named(dir, c.name)
      new == [dir EXCEPT !.files = Append(@, [name |-> c.name, size |-> 0, ilist |-> Inull])]
  IN
  /\ ~lf.panic /\ c.op = "open" /\ DirMine(p)
  /\ lfcall' = [lfcall EXCEPT ![p] = LfIdle]
  /\ lf' = [lf EXCEPT !.present = @ \/ Lfscheck(dir),
                      !.dir = IF /\ lf.present \/ Lfscheck(dir)
                                 /\ found = {} /\ "o" \notin c.bits /\ Len(dir.files) < DirSize
                              THEN new ELSE dir]
  /\ IF lf'.present /\ (IF found = {} THEN lf'.dir = new ELSE "n" \notin c.bits)
     THEN /\ lfltab' = [lfltab EXCEPT ![c.dev] = Opened(c, Min(Named(lf'.dir, c.name)))]
          /\ contents' = IF found = {} THEN [contents EXCEPT ![c.name] = <<>>] ELSE contents
     ELSE UNCHANGED <<lfltab, contents>>
  /\ UNCHANGED lfdisk

(***************************************************************************)
(* Reading, writing, seeking and truncating.                               *)
(***************************************************************************)
\* lflread and lflwrite handle a byte at a time, as lflgetc and lflputc do.
LflBegin(p, i, op, n) ==
  /\ ~lf.panic /\ lfcall[p] = LfIdle /\ lfltab[i].state = "used" /\ n > 0
  /\ lfcall' = [lfcall EXCEPT ![p] = LfCall(op, i, "", {}, n)]
  /\ UNCHANGED <<lf, lfltab, lfdisk, contents>>

Done(p, more) ==
  lfcall' = [lfcall EXCEPT ![p] = IF more /\ @.left > 1 THEN [@ EXCEPT !.left = @ - 1, !.at = ""] ELSE LfIdle]

Entry(i) == lf.dir.files[lfltab[i].entry]

\* A byte is there to be read, or a place where one may be written.
More(p) ==
  LET i == lfcall[p].dev IN
  /\ lfltab[i].state = "used"
  /\ IF lfcall[p].op = "read" THEN lfltab[i].pos < Entry(i).size
     ELSE lfltab[i].pos <= Entry(i).size /\ lfltab[i].pos < LfMaxSize
Outside(i) == lfltab[i].byte >= Blksiz

\* lfsetup is called with the mutex of the file, and takes the one of the directory.
SetsUp(p) ==
  /\ ~lf.panic /\ lfcall[p].op \in {"read", "write"} /\ lfcall[p].at = ""
  /\ Mine(p, lfcall[p].dev) /\ DirMine(p) /\ More(p) /\ Outside(lfcall[p].dev)

\* Its lfflush has the directory to write.
Flushes(i) == lf.dirty /\ (lfltab[i].ibdirty \/ lfltab[i].dbdirty)
LfsetupFlushes(p) ==
  /\ SetsUp(p) /\ Flushes(lfcall[p].dev)
  /\ lfdisk' = WriteDir(LfState(lfcall[p].dev)).disk
  /\ lfcall' = [lfcall EXCEPT ![p].at = "flush"]
  /\ UNCHANGED <<lf, lfltab, contents>>

\* Everything else it does, but for the last mark to be cleared.
LfsetupFinds(p) ==
  LET i == lfcall[p].dev
      flushed == lfcall[p].op \in {"read", "write"} /\ lfcall[p].at = "flush"
      S == Lfsetup([LfState(i) EXCEPT !.lf.dirty = @ /\ ~flushed])
  IN
  /\ IF flushed THEN ~lf.panic ELSE SetsUp(p) /\ ~Flushes(i)
  /\ Becomes(i, S) /\ SectorKept(p)
  /\ lfcall' = [lfcall EXCEPT ![p].at = IF S.lf.dir.dfree # lf.dir.dfree THEN "alloc" ELSE "set"]
  /\ UNCHANGED contents

\* lfdballoc wrote the directory.
LfsetupEnds(p) ==
  /\ ~lf.panic /\ lfcall[p].at = "alloc"
  /\ lf' = [lf EXCEPT !.dirty = FALSE]
  /\ lfcall' = [lfcall EXCEPT ![p].at = "set"]
  /\ UNCHANGED <<lfltab, lfdisk, contents>>

Lflgetc(p) ==
  LET i == lfcall[p].dev
      set == lfcall[p].at = "set"
  IN
  /\ ~lf.panic /\ lfcall[p].op = "read" /\ Mine(p, i)
  /\ set \/ (lfcall[p].at = "" /\ (More(p) => ~Outside(i)))
  /\ Done(p, set \/ More(p))
  /\ lfltab' = IF set \/ More(p) THEN [lfltab EXCEPT ![i].byte = @ + 1, ![i].pos = @ + 1] ELSE lfltab
  /\ UNCHANGED <<lf, lfdisk, contents>>

LflputcRefused(p) ==
  LET i == lfcall[p].dev IN
  /\ ~lf.panic /\ lfcall[p].op = "write" /\ lfcall[p].at = "" /\ Mine(p, i)
  /\ ~(lfltab[i].state = "used" /\ lfltab[i].pos <= Entry(i).size)
  /\ Done(p, FALSE)
  /\ UNCHANGED <<lf, lfltab, lfdisk, contents>>

\* The size and the mark change without lf_mutex.
Lflputc(p) ==
  LET i == lfcall[p].dev
      pos == lfltab[i].pos
      longer == pos >= Entry(i).size
  IN
  /\ ~lf.panic /\ lfcall[p].op = "write" /\ Mine(p, i)
  /\ lfcall[p].at = "set" \/ (lfcall[p].at = "" /\ More(p) /\ ~Outside(i))
  /\ longer => MarkKept(p)
  /\ Done(p, TRUE)
  /\ lf' = IF longer THEN [lf EXCEPT !.dir.files[lfltab[i].entry].size = @ + 1, !.dirty = TRUE] ELSE lf
  /\ \E b \in LfByte :
       /\ lfltab' = [lfltab EXCEPT ![i].dblock[lfltab[i].byte + 1] = b, ![i].byte = @ + 1,
                                   ![i].pos = @ + 1, ![i].dbdirty = TRUE]
       /\ contents' = [contents EXCEPT ![Entry(i).name] =
                         IF pos < Len(@) THEN [@ EXCEPT ![pos + 1] = b] ELSE Append(@, b)]
  /\ UNCHANGED lfdisk

Lflseek(p, i, offset) ==
  /\ ~lf.panic /\ lfcall[p] = LfIdle /\ Mine(p, i)
  /\ lfltab[i].state = "used" /\ offset <= Entry(i).size
  /\ lfltab' = [lfltab EXCEPT ![i].pos = offset, ![i].byte = Blksiz]
  /\ UNCHANGED <<lf, lfdisk, lfcall, contents>>

\* lflcontrol, LF_CTL_TRUNC; an empty file is left as it is.
Lftruncate(p, i) ==
  /\ ~lf.panic /\ lfcall[p] = LfIdle /\ Mine(p, i) /\ DirMine(p) /\ MarkKept(p)
  /\ lfltab[i].state = "used" /\ Entry(i).size # 0
  /\ LET S == Emptyfile(LfState(i))
     IN  Becomes(i, [S EXCEPT !.lf.dirty = TRUE])
  /\ SectorKept(p)
  /\ contents' = [contents EXCEPT ![Entry(i).name] = <<>>]
  /\ UNCHANGED lfcall

\* lflclose leaves the control block as it is; nothing of it is looked at until
\* an open sets it again.
FreeFile == [Opened(LfIdle, 0) EXCEPT !.state = "free"]

\* lflclose holds the mutex of the file only: others change the directory and the
\* index blocks of its sector between the steps of its lfflush.
DirToWrite_WithIndex(i) == lf.dirty /\ lfltab[i].ibdirty
DirToWrite(i) == lf.dirty

LflcloseWrites(p, i) ==
  /\ ~lf.panic /\ lfcall[p] = LfIdle /\ Mine(p, i) /\ lfltab[i].state = "used"
  /\ lfcall' = [lfcall EXCEPT ![p] = [LfCall("close", i, "", {}, 0) EXCEPT
                                       !.at = IF DirToWrite(i) THEN "flush" ELSE "data"]]
  /\ lfdisk' = IF DirToWrite(i) THEN WriteDir(LfState(i)).disk ELSE lfdisk
  /\ UNCHANGED <<lf, lfltab, contents>>

\* The mark, and the data block: nobody else writes that one.
LflcloseSaves(p) ==
  LET i == lfcall[p].dev
      S == Flushdata(LfState(i))
      more == lfltab[i].ibdirty
  IN
  /\ ~lf.panic /\ lfcall[p].op = "close" /\ lfcall[p].at \in {"flush", "data"}
  /\ Becomes(i, [S EXCEPT !.lf.dirty = @ /\ lfcall[p].at # "flush", !.f = IF more THEN @ ELSE FreeFile])
  /\ lfcall' = [lfcall EXCEPT ![p] = IF more THEN [@ EXCEPT !.at = "index"] ELSE LfIdle]
  /\ UNCHANGED contents

\* lfibput: the sector is read, the block put into it, and the sector written.
LfibputReads(p) ==
  LET n == lfltab[lfcall[p].dev].inum IN
  /\ ~lf.panic /\ lfcall[p].at = "index"
  /\ lfcall' = [lfcall EXCEPT ![p].at = "put", ![p].copy = [m \in Sector(n) |-> lfdisk.ib[m]]]
  /\ UNCHANGED <<lf, lfltab, lfdisk, contents>>

LflcloseEnds(p) ==
  LET i == lfcall[p].dev
      sector == [lfcall[p].copy EXCEPT ![lfltab[i].inum] = lfltab[i].iblock]
  IN
  /\ ~lf.panic /\ lfcall[p].at = "put"
  /\ lfdisk' = [lfdisk EXCEPT !.ib = sector @@ @]
  /\ SectorKept(p)
  /\ lfltab' = [lfltab EXCEPT ![i] = FreeFile]
  /\ lfcall' = [lfcall EXCEPT ![p] = LfIdle]
  /\ UNCHANGED <<lf, contents>>

(***************************************************************************)
(* lfscreate makes the two lists of free blocks, and a directory without   *)
(* the numbers that lfscheck wants.                                        *)
(***************************************************************************)
Created ==
  [dir |-> [id |-> FALSE, dfree |-> 0, ifree |-> 0, files |-> <<>>],
   ib |-> [n \in 0 .. NumIb - 1 |-> [Ibclear(0) EXCEPT !.next = IF n < NumIb - 1 THEN n + 1 ELSE Inull]],
   db |-> [n \in 0 .. NumDb - 1 |-> [next |-> IF n < NumDb - 1 THEN n + 1 ELSE Inull,
                                     bytes |-> [k \in 1 .. Blksiz |-> 0]]]]

\* Before any file was opened.
Lfscreate ==
  /\ ~lf.present /\ \A p \in LfProc : lfcall[p] = LfIdle
  /\ lfdisk' = Created
  /\ UNCHANGED <<lf, lfltab, lfcall, contents>>

\* lfsinit and lflinit; a disk that was made elsewhere, with those numbers.
LfInit ==
  /\ lf = [dir |-> [id |-> FALSE, dfree |-> 0, ifree |-> 0, files |-> <<>>],
           present |-> FALSE, dirty |-> FALSE, panic |-> FALSE]
  /\ lfltab = [i \in Lfl |-> FreeFile]
  /\ lfdisk = [Created EXCEPT !.dir.id = TRUE]
  /\ lfcall = [p \in LfProc |-> LfIdle]
  /\ contents = [n \in LfName |-> <<>>]

LfNext ==
  \/ \E p \in LfProc :
       \/ \E name \in LfName, mode \in LfModes : LfsopenChooses(p, name, mode)
       \/ LfsopenFinds(p)
       \/ LfsetupFlushes(p) \/ LfsetupFinds(p) \/ LfsetupEnds(p)
       \/ Lflgetc(p) \/ Lflputc(p) \/ LflputcRefused(p)
       \/ LflcloseSaves(p) \/ LfibputReads(p) \/ LflcloseEnds(p)
       \/ \E i \in Lfl :
            \/ \E op \in {"read", "write"}, n \in LfCounts : LflBegin(p, i, op, n)
            \/ \E offset \in LfSeeks : Lflseek(p, i, offset)
            \/ Lftruncate(p, i) \/ LflcloseWrites(p, i)
  \/ Lfscreate

LfSpec == LfInit /\ [][LfNext]_lfVars

-------------------------------------------------------------------------------
\* A block as the open files see it: what they have in memory and have changed
\* counts, not the copy on the disk.
IbNow(n) ==
  LET m == {i \in Lfl : lfltab[i].state = "used" /\ lfltab[i].ibdirty /\ lfltab[i].inum = n}
  IN  IF m = {} THEN lfdisk.ib[n] ELSE lfltab[Min(m)].iblock
DbNow(n) ==
  LET m == {i \in Lfl : lfltab[i].state = "used" /\ lfltab[i].dbdirty /\ lfltab[i].dnum = n}
  IN  IF m = {} THEN lfdisk.db[n].bytes ELSE lfltab[Min(m)].dblock

\* The list from n, at most one longer than there are blocks.
ListFrom(n, next(_), size) ==
  FoldLeft(LAMBDA s, k : IF s = <<>> THEN (IF n = Inull THEN s ELSE <<n>>)
                         ELSE IF next(Last(s)) = Inull THEN s ELSE Append(s, next(Last(s))),
           <<>>, [k \in 1 .. size + 1 |-> k])

IndexList(e, ib(_)) == ListFrom(e.ilist, LAMBDA n : ib(n).next, NumIb)
DataList(e, ib(_)) ==
  SelectSeq(FlattenSeq([k \in DOMAIN IndexList(e, ib) |-> ib(IndexList(e, ib)[k]).dba]), LAMBDA d : d # Inull)

Image(e, ib(_), db(_)) ==
  LET blocks == DataList(e, ib)
      all == FlattenSeq([k \in DOMAIN blocks |-> db(blocks[k])])
  IN  SubSeq(all, 1, Min({e.size, Len(all)}))

LfUp == lf.present /\ ~lf.panic

\* Each file is the sequence of bytes that was written to it, however the writes,
\* seeks, truncations and closes, of other files too, moved its blocks between memory,
\* disk and free lists; while "open" and "sector" are not admitted.
FilesKeepBytes ==
  LfUp => \A k \in DOMAIN lf.dir.files :
            LET e == lf.dir.files[k] IN Image(e, IbNow, DbNow) = contents[e.name]

\* Every index block and data block is on the free list or belongs to one file: none
\* is lost and none is shared; while "open" and "sector" are not admitted.
BlocksOwned ==
  LfUp =>
    LET fs == lf.dir.files
        ibs == ListFrom(lf.dir.ifree, LAMBDA n : IbNow(n).next, NumIb)
               \o FlattenSeq([k \in DOMAIN fs |-> IndexList(fs[k], IbNow)])
        dbs == ListFrom(lf.dir.dfree, LAMBDA n : lfdisk.db[n].next, NumDb)
               \o FlattenSeq([k \in DOMAIN fs |-> DataList(fs[k], IbNow)])
    IN  /\ IsInjective(ibs) /\ ToSet(ibs) = 0 .. NumIb - 1
        /\ IsInjective(dbs) /\ ToSet(dbs) = 0 .. NumDb - 1

\* A file that nobody has open is complete on the disk, however its close was mixed
\* with other calls; one that is not in the directory there is empty.  While "open",
\* "sector" and "mark" are not admitted.
ClosedIsOnDisk ==
  LfUp => \A name \in LfName \ OpenNames :
            LET k == Named(lfdisk.dir, name)
            IN  contents[name] = IF k = {} THEN <<>>
                                 ELSE Image(lfdisk.dir.files[Min(k)], LAMBDA n : lfdisk.ib[n],
                                            LAMBDA n : lfdisk.db[n].bytes)

\* lfscreate: "Create an initially-empty file system on a disk".
CreatedCanBeOpened ==
  lfdisk = Created => Lfscheck(lfdisk.dir)
===============================================================================
