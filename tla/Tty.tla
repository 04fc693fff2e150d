---------------------------------- MODULE Tty ----------------------------------
(***************************************************************************)
(* The console: the input ring with its line editing, the output ring and  *)
(* the echo queue between processes that read and write and the UART's     *)
(* interrupts.  Calls of the driver run with interrupts disabled: a step   *)
(* is a call up to where it has to wait for a character or for room, an    *)
(* interrupt for one character typed, or one for an empty output FIFO.     *)
(*                                                                         *)
(* The options are those that ttyinit sets; mode and echo are what         *)
(* ttycontrol changes.  A typed character is one of the kinds the driver   *)
(* tells apart; CR is mapped to NL.  Of the echo queue only the number of  *)
(* characters is kept, modulo its length, as its two pointers have it.     *)
(***************************************************************************)
EXTENDS Integers, FiniteSetsExt, SequencesExt, Semaphores

CONSTANTS
  TtyProc,   \* processes that read and write
  IBufLen,   \* TY_IBUFLEN
  OBufLen,   \* TY_OBUFLEN
  EBufLen,   \* TY_EBUFLEN
  FifoSize,  \* UART_FIFO_SIZE, the room in the UART once it interrupts
  Texts,     \* what ttywrite is called with
  Reads,     \* counts that ttyread is called with
  TtyLimit,  \* bound on the characters typed
  TtyHazards \* uses admitted: "overrun", "eofwrap", "quiet", "slow"

ASSUME TtyAssumption ==
  /\ IBufLen \in Nat \ {0, 1} /\ OBufLen \in Nat \ {0} /\ EBufLen \in Nat \ {0, 1}
  /\ FifoSize \in Nat \ {0} /\ IsFiniteSet(TtyProc)
  /\ TtyLimit \in Nat /\ Reads \subseteq Nat /\ Texts \subseteq Seq(STRING)

VARIABLES
  ibuf, tyihead, tyitail, tyisem, tyicursor, tyimode, tyiecho,
  obuf, tyohead, tyotail, tyosem, tyoheld,
  echoed,    \* characters in the echo queue
  thre,      \* the UART will interrupt for output
  ttyon,     \* the call a process is in: none, read or write
  rest,      \* what a writer has still to put
  wants,     \* how many characters a reader has still to take, and whether it took none
  line,      \* history: the characters of the line being typed, as edited
  typed,     \* history: the characters of whole lines that nobody has read yet
  pending,   \* history: the characters written that were not sent yet
  strokes    \* characters typed so far
inVars == <<ibuf, tyihead, tyitail, tyisem, tyicursor, tyimode, line, typed>>
outVars == <<obuf, tyohead, tyotail, tyosem, pending>>
ttyVars == <<inVars, outVars, tyiecho, tyoheld, echoed, thre, ttyon, rest, wants, strokes>>

Key == {"a", "nl", "erase", "kill", "eof", "stop", "start"}

TtyMin(a, b) == IF a < b THEN a ELSE b

\* Characters put into a ring of n slots from slot at on.
Stored(ring, n, at, chars) ==
  [k \in DOMAIN ring |-> LET d == (k - at) % n
                         IN  IF k < n /\ d < Len(chars) THEN chars[d + 1] ELSE ring[k]]

\* Processes that a semaphore has let through and that have yet to go on.
LetThrough(call, s) == {p \in TtyProc : ttyon[p] = call /\ ~Queued(s, p)}

(***************************************************************************)
(* Output.  ttyputc puts CR before NL; ttywrite waits for room as often as *)
(* it takes.  Each character kicks the device.                             *)
(***************************************************************************)
Expanded(text) ==
  LET put[n \in 0 .. Len(text)] ==
        IF n = 0 THEN <<>>
        ELSE put[n - 1] \o (IF text[n] = "nl" THEN <<"cr", "nl">> ELSE <<text[n]>>)
  IN  put[Len(text)]

\* What a process puts when it already has a place, or not: as much as there
\* is room for, and if that is not all it waits.
Put(p, chars, has) ==
  LET m == TtyMin(Len(chars), has + Avail(tyosem))
      now == SubSeq(chars, 1, m)
      later == SubSeq(chars, m + 1, Len(chars))
      sem == [tyosem EXCEPT !.count = @ - (m - has)]
  IN
  /\ obuf' = Stored(obuf, OBufLen, tyotail, now)
  /\ tyotail' = (tyotail + m) % OBufLen
  /\ pending' = pending \o now
  /\ thre' = (thre \/ m > 0)
  /\ tyosem' = IF later = <<>> THEN sem ELSE Waits(sem, p)
  /\ ttyon' = [ttyon EXCEPT ![p] = IF later = <<>> THEN "none" ELSE "write"]
  /\ rest' = [rest EXCEPT ![p] = later]
  /\ UNCHANGED <<inVars, tyohead, tyiecho, tyoheld, echoed, wants, strokes>>

Ttywrite(p, text) == ttyon[p] = "none" /\ Put(p, Expanded(text), 0)

TtywriteReturns(p) == p \in LetThrough("write", tyosem) /\ Put(p, rest[p], 1)

\* ttyhandle_out: the echo queue first, then the output ring.  avail counts the
\* places not free, among them those granted to a process that has not run yet.
\* Unless "slow" is admitted, such a process runs before the device has sent
\* all that was there.  The UART interrupts again when it was given something.
Ttyhandle_out_CountEcho ==
  LET e     == TtyMin(echoed, FifoSize)
      avail == OBufLen - tyosem.count
      o     == TtyMin(avail, FifoSize - e)
  IN
  /\ thre
  /\ IF tyoheld THEN thre' = FALSE /\ UNCHANGED <<echoed, outVars>>
     ELSE /\ o <= Len(pending) \/ "slow" \in TtyHazards
          /\ thre' = (e + o > 0)
          /\ echoed' = echoed - e
          /\ tyohead' = (tyohead + o) % OBufLen
          /\ tyosem' = SignaledN(tyosem, e + o)
          /\ pending' = SubSeq(pending, o + 1, Len(pending))
          /\ UNCHANGED <<obuf, tyotail>>
  /\ UNCHANGED <<inVars, tyiecho, tyoheld, ttyon, rest, wants, strokes>>
Ttyhandle_out ==
  LET e     == TtyMin(echoed, FifoSize)
      avail == OBufLen - tyosem.count
      o     == TtyMin(avail, FifoSize - e)
  IN
  /\ thre
  /\ IF tyoheld THEN thre' = FALSE /\ UNCHANGED <<echoed, outVars>>
     ELSE /\ o <= Len(pending) \/ "slow" \in TtyHazards
          /\ thre' = (e + o > 0)
          /\ echoed' = echoed - e
          /\ tyohead' = (tyohead + o) % OBufLen
          /\ tyosem' = SignaledN(tyosem, o)
          /\ pending' = SubSeq(pending, o + 1, Len(pending))
          /\ UNCHANGED <<obuf, tyotail>>
  /\ UNCHANGED <<inVars, tyiecho, tyoheld, ttyon, rest, wants, strokes>>

(***************************************************************************)
(* Input.  semcount is the number of characters for readers; those that    *)
(* were let through but have not run hold characters that it leaves out.   *)
(***************************************************************************)
Room == IBufLen - Len(typed) - Len(line)

\* n characters into the echo queue, which wraps without a check: eputc.
Eputc(n) == echoed' = (echoed + n) % EBufLen /\ thre' = (n > 0 \/ thre)
Echoch(c) == Eputc(IF ~tyiecho THEN 0 ELSE IF c = "nl" \/ c = "eof" THEN 2 ELSE 1)

Deposit(c) ==
  /\ ibuf' = [ibuf EXCEPT ![tyitail] = c]
  /\ tyitail' = IF tyitail + 1 >= IBufLen THEN 0 ELSE tyitail + 1
DepositUnwrapped(c) ==
  /\ ibuf' = [ibuf EXCEPT ![tyitail] = c]
  /\ tyitail' = tyitail + 1

Raw(c) ==
  /\ tyimode = "raw"
  /\ IF Avail(tyisem) >= IBufLen
     THEN UNCHANGED <<ibuf, tyitail, tyisem, typed>>
     ELSE Deposit(c) /\ tyisem' = Signaled(tyisem) /\ typed' = Append(typed, c)
  /\ UNCHANGED <<tyicursor, line, tyoheld, echoed, thre>>

FlowControl_NoKick(c) ==
  /\ tyimode # "raw" /\ c \in {"start", "stop"}
  /\ tyoheld' = (c = "stop")
  /\ thre' = thre
  /\ UNCHANGED <<ibuf, tyitail, tyisem, tyicursor, line, typed, echoed>>
FlowControl(c) ==
  /\ tyimode # "raw" /\ c \in {"start", "stop"}
  /\ tyoheld' = (c = "stop")
  /\ thre' = (c = "start" \/ thre)
  /\ UNCHANGED <<ibuf, tyitail, tyisem, tyicursor, line, typed, echoed>>

\* Every other character lets output go on.
Cbreak(c) ==
  /\ tyimode = "cbreak" /\ c \notin {"start", "stop"}
  /\ tyoheld' = FALSE
  /\ IF Avail(tyisem) >= IBufLen
     THEN Eputc(1) /\ UNCHANGED <<ibuf, tyitail, tyisem, typed>>
     ELSE Deposit(c) /\ Echoch(c) /\ tyisem' = Signaled(tyisem) /\ typed' = Append(typed, c)
  /\ UNCHANGED <<tyicursor, line>>

Kill ==
  /\ tyitail' = IF tyitail - tyicursor < 0 THEN tyitail - tyicursor + IBufLen ELSE tyitail - tyicursor
  /\ tyicursor' = 0 /\ line' = <<>>
  /\ Eputc(2)
  /\ UNCHANGED <<ibuf, tyisem, typed>>

Erase1_NoWrap == tyitail' = IF tyitail = 0 THEN 0 ELSE tyitail - 1
Erase1 == tyitail' = IF tyitail = 0 THEN IBufLen - 1 ELSE tyitail - 1

Erase ==
  /\ IF tyicursor > 0
     THEN Erase1 /\ tyicursor' = tyicursor - 1 /\ line' = Front(line) /\ Eputc(IF tyiecho THEN 3 ELSE 0)
     ELSE UNCHANGED <<tyitail, tyicursor, line, echoed, thre>>
  /\ UNCHANGED <<ibuf, tyisem, typed>>

\* The end of a line is stored whether there is room or not.
EndLine ==
  /\ Deposit("nl") /\ Echoch("nl")
  /\ tyisem' = SignaledN(tyisem, tyicursor + 1)
  /\ tyicursor' = 0
  /\ typed' = typed \o Append(line, "nl") /\ line' = <<>>

\* The end-of-file character counts at the beginning of a line only, and its
\* deposit does not wrap: what follows is written behind the buffer.
Eof ==
  /\ Echoch("eof")
  /\ IF tyicursor # 0 THEN UNCHANGED <<ibuf, tyitail, tyisem, typed>>
     ELSE /\ tyitail + 1 < IBufLen \/ "eofwrap" \in TtyHazards
          /\ DepositUnwrapped("eof") /\ tyisem' = Signaled(tyisem) /\ typed' = Append(typed, "eof")
  /\ UNCHANGED <<tyicursor, line>>

Insert1(c) ==
  /\ Echoch(c) /\ Deposit(c)
  /\ tyicursor' = tyicursor + 1 /\ line' = Append(line, c)
  /\ UNCHANGED <<tyisem, typed>>

\* One place is kept for the end of the line.
Full == Avail(tyisem) + tyicursor >= IBufLen - 1

Cooked(c) ==
  /\ tyimode = "cooked" /\ c \notin {"start", "stop"}
  /\ tyoheld' = FALSE
  /\ CASE c = "kill"  -> Kill
       [] c = "erase" -> Erase
       [] c = "nl"    -> EndLine
       [] c \in {"a", "eof"} ->
            IF Full THEN Eputc(1) /\ UNCHANGED <<ibuf, tyitail, tyisem, tyicursor, line, typed>>
            ELSE IF c = "eof" THEN Eof ELSE Insert1(c)

\* A character that has no echo, and so does not kick the device.
Silent(c) == ~tyiecho \/ (c = "erase" /\ tyicursor = 0)

\* A character that goes to the buffer, as far as semcount can tell that it may.
Deposits(c) == IF tyimode = "cooked" THEN c = "nl" \/ (c \in {"a", "eof"} /\ ~Full)
             ELSE Avail(tyisem) < IBufLen

\* One character arrives.  Unless "overrun" is admitted the user does not type
\* what would be stored when the buffer has no room left, and unless "quiet" is,
\* output that is held is not let go by a character without an echo, other than
\* the one meant for it.
Ttyhandle_in(c) ==
  /\ strokes < TtyLimit /\ strokes' = strokes + 1
  /\ Room > 0 \/ ~Deposits(c) \/ "overrun" \in TtyHazards
  /\ tyoheld /\ tyimode # "raw" /\ Silent(c) => c \in {"start", "stop"} \/ "quiet" \in TtyHazards
  /\ Raw(c) \/ FlowControl(c) \/ Cbreak(c) \/ Cooked(c)
  /\ UNCHANGED <<tyihead, tyimode, tyiecho, outVars, ttyon, rest, wants>>

(***************************************************************************)
(* Reading.  ttygetc takes a character at a time: in cooked mode until the *)
(* end of the line, in the other modes as many as were asked for.          *)
(***************************************************************************)
Unread(i) == ibuf[(tyihead + i - 1) % IBufLen]

\* How many of the n that are there are taken when count are wanted: a line
\* ends the read, and so does the end-of-file character at its beginning.
EndsRead(i, first) ==
  /\ tyimode = "cooked"
  /\ Unread(i) = "nl" \/ (i = 1 /\ first /\ Unread(i) = "eof")
Wanted(count, first, n) ==
  LET ends == {i \in 1 .. n : EndsRead(i, first)}
  IN  TtyMin(count, IF ends = {} THEN n ELSE Min(ends))

Get(p, count, first, has) ==
  LET m == Wanted(count, first, has + Avail(tyisem))
      done == m = count \/ (m > 0 /\ EndsRead(m, first))
      sem == [tyisem EXCEPT !.count = @ - (m - has)]
  IN
  /\ tyihead' = (tyihead + m) % IBufLen
  /\ typed' = SubSeq(typed, m + 1, Len(typed))
  /\ tyisem' = IF done THEN sem ELSE Waits(sem, p)
  /\ ttyon' = [ttyon EXCEPT ![p] = IF done THEN "none" ELSE "read"]
  /\ wants' = [wants EXCEPT ![p] = IF done THEN [left |-> 0, first |-> TRUE]
                                  ELSE [left |-> count - m, first |-> first /\ m = 0]]
  /\ UNCHANGED <<ibuf, tyitail, tyicursor, tyimode, line, outVars, tyiecho, tyoheld, echoed,
                 thre, rest, strokes>>

\* A count of zero: in raw and cbreak mode all there is, without waiting; in
\* cooked mode the first character of a line is waited for all the same.
Ttyread(p, count) ==
  /\ ttyon[p] = "none"
  /\ Get(p, IF count > 0 THEN count ELSE IF tyimode = "cooked" THEN 1 ELSE Avail(tyisem), TRUE, 0)

TtyreadReturns(p) == p \in LetThrough("read", tyisem) /\ Get(p, wants[p].left, wants[p].first, 1)

(***************************************************************************)
(* Control.  The mode is changed between lines, while nobody reads: a line *)
(* begun in cooked mode is not counted by the semaphore yet.  TC_NEXTC     *)
(* waits and signals: it takes nothing.                                    *)
(***************************************************************************)
Ttycontrol(func) ==
  /\ IF func \in {"raw", "cooked", "cbreak"}
     THEN /\ tyicursor = 0 /\ (\A p \in TtyProc : ttyon[p] # "read")
          /\ tyimode' = func /\ UNCHANGED tyiecho
     ELSE tyiecho' = (func = "echo") /\ UNCHANGED tyimode
  /\ UNCHANGED <<ibuf, tyihead, tyitail, tyisem, tyicursor, line, typed, outVars,
                 tyoheld, echoed, thre, ttyon, rest, wants, strokes>>

TtyInit ==
  /\ ibuf = [k \in 0 .. IBufLen |-> "none"] /\ tyihead = 0 /\ tyitail = 0 /\ tyisem = NewSem(0)
  /\ tyicursor = 0 /\ tyimode = "cooked" /\ tyiecho = TRUE
  /\ obuf = [k \in 0 .. OBufLen - 1 |-> "none"] /\ tyohead = 0 /\ tyotail = 0
  /\ tyosem = NewSem(OBufLen) /\ tyoheld = FALSE
  /\ echoed = 0 /\ thre = TRUE
  /\ ttyon = [p \in TtyProc |-> "none"] /\ rest = [p \in TtyProc |-> <<>>]
  /\ wants = [p \in TtyProc |-> [left |-> 0, first |-> TRUE]]
  /\ line = <<>> /\ typed = <<>> /\ pending = <<>> /\ strokes = 0

TtyNext ==
  \/ Ttyhandle_out
  \/ \E c \in Key : Ttyhandle_in(c)
  \/ \E func \in {"raw", "cooked", "cbreak", "echo", "noecho"} : Ttycontrol(func)
  \/ \E p \in TtyProc :
       \/ \E text \in Texts : Ttywrite(p, text)
       \/ \E count \in Reads : Ttyread(p, count)
       \/ TtywriteReturns(p) \/ TtyreadReturns(p)

TtySpec == TtyInit /\ [][TtyNext]_ttyVars

-------------------------------------------------------------------------------
\* Readers get what was typed, line by line, as it was edited: the ring holds
\* from its head on the characters of the lines that are complete, then those of
\* the line being typed, and the semaphore counts the first, less those granted
\* to a reader that has not run.  Erasing, killing a line and end of file move
\* the tail over the end of the buffer like everything else.
InputFaithful ==
  LET all == typed \o line IN
  /\ Len(all) <= IBufLen
  /\ \A i \in DOMAIN all : Unread(i) = all[i]
  /\ tyitail = (tyihead + Len(all)) % IBufLen
  /\ tyicursor = Len(line)
  /\ Len(typed) = Avail(tyisem) + Cardinality(LetThrough("read", tyisem))

\* The UART is sent what was written, in that order.
OutputFaithful ==
  /\ \A i \in DOMAIN pending : obuf[(tyohead + i - 1) % OBufLen] = pending[i]
  /\ tyotail = (tyohead + Len(pending)) % OBufLen
  /\ Len(pending) = OBufLen - Avail(tyosem) - Cardinality(LetThrough("write", tyosem))

\* Output never stalls: while there is something to send and it is not held, the
\* UART is going to interrupt.
OutputGoesOn == ~tyoheld /\ (echoed > 0 \/ pending # <<>>) => thre
===============================================================================
