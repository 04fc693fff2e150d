------------------------------- MODULE Devices --------------------------------
(***************************************************************************)
(* The device switch, the name space and the RAM disk.  open, close, read, *)
(* write, getc, putc, seek, control and init find the device's function in *)
(* devtab and call it with interrupts disabled: a call is one step, unless *)
(* the device waits, which the modules of those devices show.  A name is a *)
(* sequence of characters without its null.                                *)
(***************************************************************************)
EXTENDS Integers, FiniteSetsExt, SequencesExt

CONSTANTS
  NDevs, DevKind, DevName,   \* the rows of devtab: minor driver and name
  NameDev,                   \* the row of the name space
  Nnames, NmMaxlen,          \* NNAMES, NM_MAXLEN
  NmPrelen, NmRepllen,       \* NM_PRELEN, NM_REPLLEN
  CharLimit,                 \* first value that a char does not hold
  OtherPrefixes,             \* what naminit mounts after the devices
  Mounts, NmNames,           \* what is mounted later, and the names that are opened
  NmStack,                   \* what namopen's buffer for the new name may hold before
  NmHazards,                 \* uses admitted: "long" names
  RamBlock, RamData

ASSUME DevicesAssumption ==
  /\ NDevs \in Nat /\ NameDev \in 0 .. NDevs - 1 /\ Nnames \in Nat
  /\ NmMaxlen \in Nat \ {0} /\ CharLimit \in Nat \ {0}
  /\ NmPrelen \in 1 .. NmMaxlen /\ NmRepllen \in 1 .. NmMaxlen

VARIABLES
  nametab,   \* the nnames entries in use
  ramdisk,   \* Ram.disk
  answer,    \* what the last call returned
  newname    \* what nammap made of the name opened last
devVars == <<nametab, ramdisk, answer, newname>>

SysErr == -1
Ok == 1
Isbaddev(d) == d < 0 \/ d >= NDevs

(***************************************************************************)
(* Names.                                                                  *)
(***************************************************************************)
Namlen(name, maxlen) == IF Len(name) + 1 <= maxlen THEN Len(name) + 1 ELSE SysErr

\* olen is a char: a length of CharLimit or more comes out negative.
Olen(name) ==
  LET len == Namlen(name, NmMaxlen) IN IF len < CharLimit THEN len ELSE len - 2 * CharLimit

NmMatches(name) == {i \in DOMAIN nametab : IsPrefix(nametab[i].prefix, name)}

NoDevice(name) == [dev |-> SysErr, name |-> name, ended |-> TRUE]

\* The first prefix that matches, and the rest of the name, its null included.
\* When the length comes out negative nothing of the rest is copied, not even the
\* null: behind the replacement the buffer holds what it held.
Namrepl(name, held) ==
  IF NmMatches(name) = {} THEN NoDevice(name)
  ELSE LET e == nametab[Min(NmMatches(name))]
           plen == Len(e.prefix)
           remain == Olen(name) - plen
           rest == IF remain > 0 THEN SubSeq(name, plen + 1, plen + remain - 1)
                   ELSE SubSeq(held, Len(e.replace) + 1, Len(held))
       IN  IF Len(e.replace) + remain > NmMaxlen THEN NoDevice(name)
           ELSE [dev |-> e.dev, ended |-> remain > 0, name |-> e.replace \o rest]

\* The rounds of nammap, as many as there are entries: another one as long as the
\* device is the name space, of what the buffer for the new name then holds.  When
\* that does not fit, namcpy fills its buffer, and the length is SYSERR again.
Rounds(name, stack) ==
  FoldLeft(LAMBDA t, k : LET r == Last(t) IN
             IF r.dev # NameDev THEN t
             ELSE Append(t, Namrepl(r.name, IF k = 1 THEN stack ELSE r.name)),
           <<[dev |-> NameDev, name |-> name, ended |-> TRUE]>>, [k \in 1 .. Len(nametab) |-> k])

\* namcpy refuses a name that does not fit.
Nammap_LastTry(name, stack) ==
  IF Namlen(name, NmMaxlen) = SysErr THEN NoDevice(name) ELSE Last(Rounds(name, stack))
Nammap(name, stack) ==
  LET last == Last(Rounds(name, stack))
  IN  IF Namlen(name, NmMaxlen) = SysErr \/ last.dev = NameDev THEN NoDevice(name) ELSE last

\* The length of the name fits a char, and that of every name made of it that may
\* be replaced again.
Short(name) ==
  \A r \in ToSet(Rounds(name, <<>>)) : r.dev = NameDev => Namlen(r.name, NmMaxlen) < CharLimit

\* With interrupts disabled.
Mountable(tab, m) ==
  /\ Namlen(m.prefix, NmPrelen) # SysErr /\ Namlen(m.replace, NmRepllen) # SysErr
  /\ ~Isbaddev(m.dev) /\ Len(tab) < Nnames
Mounted(tab, m) == IF Mountable(tab, m) THEN Append(tab, m) ELSE tab

Mount(m) ==
  /\ nametab' = Mounted(nametab, m)
  /\ answer' = IF Mountable(nametab, m) THEN Ok ELSE SysErr
  /\ UNCHANGED <<ramdisk, newname>>

\* naminit mounts every device under its own name, and then the other prefixes,
\* of which the one for the rest of /dev/ has SYSERR for its device and is refused.
Naminit ==
  FoldLeft(Mounted, <<>>,
           [d \in 1 .. NDevs |-> [prefix |-> <<"/dev/">> \o DevName[d - 1], replace |-> <<>>, dev |-> d - 1]]
           \o OtherPrefixes)

(***************************************************************************)
(* The switch.                                                             *)
(***************************************************************************)
\* What devtab has for each kind of device whose functions do no more than
\* return: ionull or ioerr.
Ops == {"init", "open", "close", "read", "write", "seek", "getc", "putc", "control"}
Ionull(kind) ==
  CASE kind = "null" -> Ops \ {"seek", "control"}
    [] kind = "tty" -> {"open", "close"}
    [] kind = "ram" -> {"close"}
    [] OTHER -> {}
Ioerr(kind) ==
  CASE kind = "null" -> {"seek", "control"}
    [] kind = "tty" -> {"seek"}
    [] kind = "eth" -> {"open", "close", "seek", "getc", "putc"}
    [] kind = "nam" -> Ops \ {"init", "open"}
    [] kind = "ram" -> {"seek", "getc", "putc", "control"}
    [] OTHER -> {}

Refused(d) == /\ Isbaddev(d)
              /\ answer' = SysErr
              /\ UNCHANGED <<nametab, ramdisk, newname>>

Returns(d, op) ==
  /\ ~Isbaddev(d)
  /\ \/ op \in Ionull(DevKind[d]) /\ answer' = Ok
     \/ op \in Ioerr(DevKind[d]) /\ answer' = SysErr
  /\ UNCHANGED <<nametab, ramdisk, newname>>

Open(d) == Refused(d) \/ Returns(d, "open")
Close(d) == Refused(d) \/ Returns(d, "close")
Read(d) == Refused(d) \/ Returns(d, "read")
Write(d) == Refused(d) \/ Returns(d, "write")
Seek(d) == Refused(d) \/ Returns(d, "seek")
Getc(d) == Refused(d) \/ Returns(d, "getc")
Putc(d) == Refused(d) \/ Returns(d, "putc")
Control(d) == Refused(d) \/ Returns(d, "control")
DevInit(d) == Refused(d) \/ Returns(d, "init")

\* namopen calls open again for the device that the name maps to.
Namopen(name, stack) ==
  LET to == Nammap(name, stack) IN
  /\ Short(name) \/ "long" \in NmHazards
  /\ \/ to.dev = SysErr /\ answer' = SysErr
     \/ ~Isbaddev(to.dev) /\ DevKind[to.dev] = "ram" /\ answer' = to.dev
     \/ ~Isbaddev(to.dev) /\ "open" \in Ionull(DevKind[to.dev]) /\ answer' = Ok
     \/ ~Isbaddev(to.dev) /\ "open" \in Ioerr(DevKind[to.dev]) /\ answer' = SysErr
     \/ ~Isbaddev(to.dev) /\ DevKind[to.dev] \in {"files", "nam"} /\ answer' \in {SysErr, Ok}
  /\ newname' = [of |-> name, to |-> to]
  /\ UNCHANGED <<nametab, ramdisk>>

(***************************************************************************)
(* The RAM disk: ramread and ramwrite copy a block, which has to exist;    *)
(* they do not look.  raminit fills it all with the same word.             *)
(***************************************************************************)
Ramopen(d) == DevKind[d] = "ram" /\ answer' = d /\ UNCHANGED <<nametab, ramdisk, newname>>
Ramread(blk) == answer' = ramdisk[blk] /\ UNCHANGED <<nametab, ramdisk, newname>>
Ramwrite(blk, data) ==
  /\ ramdisk' = [ramdisk EXCEPT ![blk] = data]
  /\ answer' = Ok
  /\ UNCHANGED <<nametab, newname>>
Raminit == [blk \in RamBlock |-> 0]

\* getdev compares with strncmp, which is zero when the names are equal.
Strncmp(a, b) == IF a = b THEN 0 ELSE 1
Getdev(name) ==
  LET found == {d \in 0 .. NDevs - 1 : Strncmp(name, DevName[d]) # 0}
  IN  IF found = {} THEN SysErr ELSE Min(found)

DevicesInit == nametab = Naminit /\ ramdisk = Raminit /\ answer = Ok
               /\ newname = [of |-> <<>>, to |-> NoDevice(<<>>)]

DevicesNext ==
  \/ \E d \in -1 .. NDevs :
       Open(d) \/ Close(d) \/ Read(d) \/ Write(d) \/ Seek(d) \/ Getc(d) \/ Putc(d) \/ Control(d) \/ DevInit(d)
  \/ \E m \in Mounts : Mount(m)
  \/ \E name \in NmNames, stack \in NmStack : Namopen(name, stack)
  \/ \E d \in 0 .. NDevs - 1 : Ramopen(d)
  \/ \E blk \in RamBlock : Ramread(blk) \/ \E data \in RamData : Ramwrite(blk, data)

DevicesSpec == DevicesInit /\ [][DevicesNext]_devVars

-------------------------------------------------------------------------------
\* Whatever is mounted, and while lengths fit a char ("long" is not admitted): a
\* mapped name ends with the null of the name it was made of, keeps all of the name
\* behind the prefix, and is never for the name space itself, whose open would
\* call itself without end.
NamesResolve ==
  LET to == newname.to
      first == nametab[Min(NmMatches(newname.of))]
  IN  to.dev # SysErr =>
        /\ to.dev # NameDev /\ to.ended
        /\ first.dev # NameDev =>
             first.prefix \o SubSeq(to.name, Len(first.replace) + 1, Len(to.name)) = newname.of

\* getdev: "Convert a device name to a device ID".
GetdevFinds == \A d \in 0 .. NDevs - 1 : Getdev(DevName[d]) = d
===============================================================================
