-------------------------------- MODULE Kernel --------------------------------
(***************************************************************************)
(* Processes: the process table, the ready list and resched, suspension,   *)
(* semaphores, messages, the delta list of sleepers, the clock interrupt   *)
(* and kill.  Every call runs with interrupts disabled, so that a step is  *)
(* a call up to the point where resched gives the processor away; what a   *)
(* call still has to do when its process comes back is a step of its own   *)
(* (cont), and nothing else happens before it.                             *)
(*                                                                         *)
(* The lists of queuetab are sequences of processes with the keys in qkey. *)
(* Deferred rescheduling starts and ends within one step: the processes    *)
(* are made ready, then resched is called once.  newpid and newsem look    *)
(* for a free entry from where they last stopped; here any may be taken.   *)
(***************************************************************************)
EXTENDS Integers, SequencesExt

CONSTANTS
  Pid,       \* slots of proctab
  Null,      \* the null process, which never blocks
  Sem,       \* entries of semtab
  Prio,      \* priorities passed to create and chprio
  Delay,     \* delays passed to sleepms and recvtime
  Count,     \* counts passed to semcreate, semreset and signaln
  MaxCount,  \* bound on scount
  Quantum,   \* QUANTUM, the ticks of a time slice
  Hazards    \* uses admitted beyond the disciplined ones: "chprio", "killrace"

ASSUME KernelAssumption ==
  /\ IsFiniteSet(Pid) /\ Null \in Pid /\ Quantum \in Nat \ {0} /\ MaxCount \in Nat
  /\ Prio \subseteq Nat \ {0} /\ Delay \subseteq Nat /\ Count \subseteq Nat

VARIABLES
  prstate, prprio, prsem, prparent, prhasmsg,  \* proctab
  qkey, readylist, sleepq,                     \* queuetab
  sused, scount, squeue,                       \* semtab: sstate = S_USED, and the rest
  prcount, currpid, preempt,
  halted,    \* xdone was called
  cont,      \* what the call a process is in still has to do
  victim,    \* the process that kill is removing, Null if none
  left       \* history: ticks a sleeper still has to sleep

procVars  == <<prprio, prsem, prparent>>
semVars   == <<sused, scount, squeue>>
schedVars == <<prstate, qkey, readylist, sleepq, currpid, preempt>>
callVars  == <<cont, victim>>
vars == <<procVars, prhasmsg, semVars, schedVars, callVars, prcount, halted, left>>

Live == {p \in Pid : prstate[p] # "free"}

(***************************************************************************)
(* The scheduler, as functions of its state: that of every process, the    *)
(* two lists with their keys, the current process and its time slice.      *)
(***************************************************************************)
Now == [state |-> prstate, key |-> qkey, list |-> readylist, sleep |-> sleepq,
        cur |-> currpid, slice |-> preempt]

Becomes(s) ==
  /\ prstate' = s.state /\ qkey' = s.key /\ readylist' = s.list /\ sleepq' = s.sleep
  /\ currpid' = s.cur /\ preempt' = s.slice

\* insert: behind the processes whose keys are not smaller.
Insert_BeforeEquals(list, key, p) ==
  LET passed == {i \in DOMAIN list : \A j \in 1 .. i : key[list[j]] > key[p]}
  IN  InsertAt(list, Cardinality(passed) + 1, p)
Insert(list, key, p) ==
  LET passed == {i \in DOMAIN list : \A j \in 1 .. i : key[list[j]] >= key[p]}
  IN  InsertAt(list, Cardinality(passed) + 1, p)

\* getitem: process p is unlinked from a list it is on.
Unlink(list, p) == RemoveAt(list, CHOOSE i \in DOMAIN list : list[i] = p)

MakeReady(s, p) ==
  LET key == [s.key EXCEPT ![p] = prprio[p]]
  IN  [s EXCEPT !.state[p] = "ready", !.key = key, !.list = Insert(@, key, p)]

Dispatch(s) ==
  [s EXCEPT !.state[Head(s.list)] = "curr", !.list = Tail(@), !.cur = Head(s.list),
            !.slice = Quantum]

\* resched: the current process keeps the processor if it has the higher priority.
Resched(s) ==
  IF s.state[s.cur] # "curr" THEN Dispatch(s)
  ELSE IF s.list = <<>> \/ prprio[s.cur] > s.key[Head(s.list)] THEN s
  ELSE Dispatch(MakeReady(s, s.cur))

\* ready for each process of a list, with rescheduling deferred to the end: the
\* state after each of them, and after all.
Readied(s, list) ==
  LET ready[i \in 0 .. Len(list)] == IF i = 0 THEN s ELSE MakeReady(ready[i - 1], list[i])
  IN  ready
ReadyAll(s, list) ==
  IF list = <<>> THEN s ELSE Resched(Readied(s, list)[Len(list)])

Ready_NoResched(s, p) == MakeReady(s, p)
Ready(s, p) == Resched(MakeReady(s, p))

\* The current process enters another state and resched is called.
Leave(s, state) == Resched([s EXCEPT !.state[s.cur] = state])

(***************************************************************************)
(* The delta list: a key is the delay after the process before.            *)
(***************************************************************************)
Sums(list, key) ==
  LET sum[i \in 0 .. Len(list)] == IF i = 0 THEN 0 ELSE sum[i - 1] + key[list[i]]
  IN  sum
Until(list, key, i) == Sums(list, key)[i]

\* insertd of the current process.
EnterSleep_KeepNext(s, d) ==
  LET passed == {i \in DOMAIN s.sleep : \A j \in 1 .. i : Until(s.sleep, s.key, j) <= d}
      n      == Cardinality(passed)
  IN  [s EXCEPT !.sleep = InsertAt(@, n + 1, s.cur),
                !.key[s.cur] = d - Until(s.sleep, s.key, n)]
EnterSleep(s, d) ==
  LET passed == {i \in DOMAIN s.sleep : \A j \in 1 .. i : Until(s.sleep, s.key, j) <= d}
      n      == Cardinality(passed)
      own    == d - Until(s.sleep, s.key, n)
      key    == [s.key EXCEPT ![s.cur] = own]
      less   == [key EXCEPT ![s.sleep[n + 1]] = @ - own]
  IN  [s EXCEPT !.sleep = InsertAt(@, n + 1, s.cur),
                !.key = IF n = Len(s.sleep) THEN key ELSE less]

\* unsleep: the process behind p waits as long as before.
Unsleep(s, p) ==
  LET i    == CHOOSE i \in DOMAIN s.sleep : s.sleep[i] = p
      more == [s.key EXCEPT ![s.sleep[i + 1]] = @ + s.key[p]]
  IN  [s EXCEPT !.sleep = Unlink(@, p), !.key = IF i = Len(s.sleep) THEN @ ELSE more]

(***************************************************************************)
(* Creation, suspension, priorities.  While a process executes its own     *)
(* code, interrupts are enabled; the null process does not block.          *)
(***************************************************************************)
Running   == ~halted /\ cont[currpid] = "user"
InProcess == Running /\ currpid # Null

Create(p, prio) ==
  /\ Running /\ prstate[p] = "free"
  /\ prcount' = prcount + 1
  /\ prstate' = [prstate EXCEPT ![p] = "susp"]
  /\ prprio' = [prprio EXCEPT ![p] = prio]
  /\ prsem' = [prsem EXCEPT ![p] = -1]
  /\ prparent' = [prparent EXCEPT ![p] = currpid]
  /\ prhasmsg' = [prhasmsg EXCEPT ![p] = FALSE]
  /\ cont' = [cont EXCEPT ![p] = "user"] /\ victim' = [victim EXCEPT ![p] = Null]
  /\ UNCHANGED <<semVars, qkey, readylist, sleepq, currpid, preempt, halted, left>>

Resume(p) ==
  /\ Running /\ prstate[p] = "susp"
  /\ Becomes(Ready(Now, p))
  /\ UNCHANGED <<procVars, prhasmsg, semVars, callVars, prcount, halted, left>>

Suspend(p) ==
  /\ InProcess /\ p # Null /\ prstate[p] \in {"curr", "ready"}
  /\ Becomes(IF prstate[p] = "curr" THEN Leave(Now, "susp")
             ELSE [Now EXCEPT !.state[p] = "susp", !.list = Unlink(@, p)])
  /\ UNCHANGED <<procVars, prhasmsg, semVars, callVars, prcount, halted, left>>

Yield ==
  /\ InProcess
  /\ Becomes(Resched(Now))
  /\ UNCHANGED <<procVars, prhasmsg, semVars, callVars, prcount, halted, left>>

\* The place of p in the ready list stays what it was, and nobody is
\* rescheduled: a program changes the priority of a ready process, or lowers
\* its own, only where "chprio" is admitted.
Chprio(p, prio) ==
  /\ InProcess /\ p \in Live
  /\ \/ "chprio" \in Hazards
     \/ prstate[p] # "ready" /\ (p = currpid => prio >= prprio[p])
  /\ prprio' = [prprio EXCEPT ![p] = prio]
  /\ UNCHANGED <<prsem, prparent, prhasmsg, semVars, schedVars, callVars, prcount, halted, left>>

(***************************************************************************)
(* Semaphores.  Interrupt handlers signal and send too, whoever is running;*)
(* the null process creates and resumes while it starts the system.        *)
(***************************************************************************)
Min0(k, n) == IF k < 0 THEN 0 ELSE IF k < n THEN k ELSE n

\* The first k processes waiting on semaphore s are made ready.
Release(s, k) ==
  /\ squeue' = [squeue EXCEPT ![s] = SubSeq(@, k + 1, Len(@))]
  /\ Becomes(ReadyAll(Now, SubSeq(squeue[s], 1, k)))

Semcreate(s, n) ==
  /\ Running /\ ~sused[s]
  /\ sused' = [sused EXCEPT ![s] = TRUE]
  /\ scount' = [scount EXCEPT ![s] = n]
  /\ UNCHANGED <<procVars, prhasmsg, schedVars, callVars, squeue, prcount, halted, left>>

Wait(s) ==
  /\ InProcess /\ sused[s]
  /\ scount' = [scount EXCEPT ![s] = @ - 1]
  /\ IF scount[s] - 1 < 0
     THEN /\ prsem' = [prsem EXCEPT ![currpid] = s]
          /\ squeue' = [squeue EXCEPT ![s] = Append(@, currpid)]
          /\ Becomes(Leave(Now, "wait"))
     ELSE UNCHANGED <<prsem, squeue, schedVars>>
  /\ UNCHANGED <<prprio, prparent, prhasmsg, callVars, sused, prcount, halted, left>>

Signal(s) ==
  /\ Running /\ sused[s] /\ scount[s] < MaxCount
  /\ scount' = [scount EXCEPT ![s] = @ + 1]
  /\ Release(s, IF scount[s] < 0 THEN 1 ELSE 0)
  /\ UNCHANGED <<procVars, prhasmsg, callVars, sused, prcount, halted, left>>

Signaln(s, n) ==
  /\ Running /\ sused[s] /\ scount[s] + n <= MaxCount
  /\ scount' = [scount EXCEPT ![s] = @ + n]
  /\ Release(s, Min0(-scount[s], n))
  /\ UNCHANGED <<procVars, prhasmsg, callVars, sused, prcount, halted, left>>

Semreset(s, n) ==
  /\ InProcess /\ sused[s]
  /\ scount' = [scount EXCEPT ![s] = n]
  /\ Release(s, Len(squeue[s]))
  /\ UNCHANGED <<procVars, prhasmsg, callVars, sused, prcount, halted, left>>

\* The loop that releases the waiting processes also counts once too often.
Semdelete(s) ==
  LET k == Min0(-scount[s], Len(squeue[s])) IN
  /\ InProcess /\ sused[s]
  /\ sused' = [sused EXCEPT ![s] = FALSE]
  /\ scount' = [scount EXCEPT ![s] = @ + k + 1]
  /\ Release(s, k)
  /\ UNCHANGED <<procVars, prhasmsg, callVars, prcount, halted, left>>

(***************************************************************************)
(* Messages: one per process, which send does not overwrite.               *)
(***************************************************************************)
\* History: who has left the delta list has nothing left to sleep.
StillAsleep == left' = [p \in Pid |-> IF p \in ToSet(sleepq') THEN left[p] ELSE 0]

Woken_KeepAsleep(p) ==
  IF prstate[p] \in {"recv", "rectim"} THEN Ready(Now, p) ELSE Now
Woken_NotTimed(p) == IF prstate[p] = "recv" THEN Ready(Now, p) ELSE Now
Woken(p) ==
  IF prstate[p] = "recv" THEN Ready(Now, p)
  ELSE IF prstate[p] = "rectim" THEN Ready(Unsleep(Now, p), p)
  ELSE Now

\* send to a process that exists and has no message; to another it is refused.
Deliver(p) ==
  IF p \in Live /\ ~prhasmsg[p]
  THEN prhasmsg' = [prhasmsg EXCEPT ![p] = TRUE] /\ Becomes(Woken(p)) /\ StillAsleep
  ELSE UNCHANGED <<prhasmsg, schedVars, left>>

Send(p) ==
  /\ Running /\ p \in Live /\ ~prhasmsg[p]
  /\ Deliver(p)
  /\ UNCHANGED <<procVars, semVars, callVars, prcount, halted>>

TakeMessage ==
  /\ prhasmsg' = [prhasmsg EXCEPT ![currpid] = FALSE]
  /\ cont' = [cont EXCEPT ![currpid] = "user"]
  /\ UNCHANGED <<procVars, semVars, schedVars, victim, prcount, halted, left>>

\* receive, recvclr and recvtime find a message.
Recvclr == InProcess /\ prhasmsg[currpid] /\ TakeMessage

Receive ==
  /\ InProcess /\ ~prhasmsg[currpid]
  /\ Becomes(Leave(Now, "recv"))
  /\ cont' = [cont EXCEPT ![currpid] = "receive"]
  /\ UNCHANGED <<procVars, prhasmsg, semVars, victim, prcount, halted, left>>

Recvtime(d) ==
  /\ InProcess /\ ~prhasmsg[currpid]
  /\ Becomes(Leave(EnterSleep(Now, d), "rectim"))
  /\ left' = [left EXCEPT ![currpid] = d]
  /\ cont' = [cont EXCEPT ![currpid] = "recvtime"]
  /\ UNCHANGED <<procVars, prhasmsg, semVars, victim, prcount, halted>>

\* The message has come, or the time is over and the flag is clear already.
ReceiveReturns ==
  /\ ~halted /\ cont[currpid] \in {"receive", "recvtime"}
  /\ TakeMessage

(***************************************************************************)
(* sleepms and the clock interrupt.                                        *)
(***************************************************************************)
Sleep(d) ==
  /\ InProcess /\ d > 0
  /\ Becomes(Leave(EnterSleep(Now, d), "sleep"))
  /\ left' = [left EXCEPT ![currpid] = d]
  /\ UNCHANGED <<procVars, prhasmsg, semVars, callVars, prcount, halted>>

\* The end of clkhandler: the time slice.
EndOfTick_KeepSlice(s) ==
  LET t == [s EXCEPT !.slice = @ - 1] IN IF t.slice <= 0 THEN Resched(t) ELSE t
EndOfTick(s) ==
  LET slice == s.slice - 1
  IN  IF slice <= 0 THEN Resched([s EXCEPT !.slice = Quantum]) ELSE [s EXCEPT !.slice = slice]

\* clkhandler counts down the first of the sleepers only.
Counted_AtSliceEnd ==
  IF sleepq = <<>> \/ preempt > 1 THEN Now ELSE [Now EXCEPT !.key[Head(sleepq)] = @ - 1]
Counted == IF sleepq = <<>> THEN Now ELSE [Now EXCEPT !.key[Head(sleepq)] = @ - 1]

\* wakeup: the processes at the head whose delay is over.
Wakeup_OneLate(s) ==
  LET due == Cardinality({i \in DOMAIN s.sleep :
                            \A j \in 1 .. i : s.key[s.sleep[j]] < 0})
  IN  ReadyAll([s EXCEPT !.sleep = SubSeq(@, due + 1, Len(@))], SubSeq(s.sleep, 1, due))
Wakeup(s) ==
  LET due == Cardinality({i \in DOMAIN s.sleep :
                            \A j \in 1 .. i : s.key[s.sleep[j]] <= 0})
  IN  ReadyAll([s EXCEPT !.sleep = SubSeq(@, due + 1, Len(@))], SubSeq(s.sleep, 1, due))

Tick ==
  LET woken  == Wakeup(Counted)
      switch == woken.cur # currpid
  IN
  /\ Running
  /\ Becomes(IF switch THEN woken ELSE EndOfTick(woken))
  /\ cont' = [cont EXCEPT ![currpid] = IF switch THEN "tick" ELSE @]
  /\ left' = [p \in Pid |-> IF p \in ToSet(sleepq') /\ left[p] > 0 THEN left[p] - 1 ELSE 0]
  /\ UNCHANGED <<procVars, prhasmsg, semVars, victim, prcount, halted>>

\* A process that wakeup took the processor from gets it back.
TickReturns ==
  /\ ~halted /\ cont[currpid] = "tick"
  /\ Becomes(EndOfTick(Now))
  /\ cont' = [cont EXCEPT ![currpid] = "user"]
  /\ UNCHANGED <<procVars, prhasmsg, semVars, victim, prcount, halted, left>>

(***************************************************************************)
(* kill.  The message to the parent may give the processor away before     *)
(* anything was taken from the process; a process that is being killed is  *)
(* killed again or kills, and one that is in kill is killed, only where    *)
(* "killrace" is admitted.                                                 *)
(***************************************************************************)
Killing(p) == p \in Live /\ cont[p] = "kill"

\* Only the null process is left.
Completed_TooEarly(n) == n <= 2
Completed(n) == n <= 1

Kill(p) ==
  /\ InProcess /\ p \in Live \ {Null}
  /\ \/ "killrace" \in Hazards
     \/ ~Killing(p) /\ \A k \in Pid : Killing(k) => victim[k] \notin {p, currpid}
  /\ prcount' = prcount - 1
  /\ IF Completed(prcount - 1)
     THEN halted' = TRUE /\ UNCHANGED <<prhasmsg, schedVars, callVars, left>>
     ELSE /\ Deliver(prparent[p])
          /\ cont' = [cont EXCEPT ![currpid] = "kill"]
          /\ victim' = [victim EXCEPT ![currpid] = p]
          /\ UNCHANGED halted
  /\ UNCHANGED <<procVars, semVars>>

\* The process leaves the list it is on, and a semaphore's count forgets it.
Removed(p) ==
  LET s == [Now EXCEPT !.state[p] = "free"]
  IN  CASE prstate[p] = "curr" -> Resched(s)
        [] prstate[p] \in {"sleep", "rectim"} -> Unsleep(s, p)
        [] prstate[p] = "ready" -> [s EXCEPT !.list = Unlink(@, p)]
        [] OTHER -> s

Forget_KeepCount(p) ==
  IF prstate[p] = "wait"
  THEN squeue' = [squeue EXCEPT ![prsem[p]] = Unlink(@, p)] /\ UNCHANGED scount
  ELSE UNCHANGED <<scount, squeue>>
Forget(p) ==
  IF prstate[p] = "wait"
  THEN /\ scount' = [scount EXCEPT ![prsem[p]] = @ + 1]
       /\ squeue' = [squeue EXCEPT ![prsem[p]] = Unlink(@, p)]
  ELSE UNCHANGED <<scount, squeue>>

FinishKill ==
  /\ ~halted /\ cont[currpid] = "kill"
  /\ Becomes(Removed(victim[currpid])) /\ Forget(victim[currpid])
  /\ cont' = [cont EXCEPT ![currpid] = "user"]
  /\ victim' = [victim EXCEPT ![currpid] = Null]
  /\ StillAsleep
  /\ UNCHANGED <<procVars, prhasmsg, sused, prcount, halted>>

\* halt() never returns.
Halt == halted /\ UNCHANGED vars

(***************************************************************************)
(* The system after sysinit: the null process runs and creates the others. *)
(***************************************************************************)
Init ==
  /\ prstate = [p \in Pid |-> IF p = Null THEN "curr" ELSE "free"]
  /\ prprio = [p \in Pid |-> 0] /\ prsem = [p \in Pid |-> -1]
  /\ prparent = [p \in Pid |-> Null] /\ prhasmsg = [p \in Pid |-> FALSE]
  /\ qkey = [p \in Pid |-> 0] /\ readylist = <<>> /\ sleepq = <<>>
  /\ sused = [s \in Sem |-> FALSE] /\ scount = [s \in Sem |-> 0]
  /\ squeue = [s \in Sem |-> <<>>]
  /\ prcount = 1 /\ currpid = Null /\ preempt = Quantum /\ halted = FALSE
  /\ cont = [p \in Pid |-> "user"] /\ victim = [p \in Pid |-> Null]
  /\ left = [p \in Pid |-> 0]

\* What a process does when it comes back from resched in the middle of a call.
Returns == ReceiveReturns \/ TickReturns \/ FinishKill

Next ==
  \/ \E p \in Pid :
       \/ Resume(p) \/ Suspend(p) \/ Send(p) \/ Kill(p)
       \/ \E prio \in Prio : Create(p, prio) \/ Chprio(p, prio)
  \/ \E s \in Sem :
       \/ Wait(s) \/ Signal(s) \/ Semdelete(s)
       \/ \E n \in Count : Semcreate(s, n) \/ Signaln(s, n) \/ Semreset(s, n)
  \/ \E d \in Delay : Recvtime(d) \/ Sleep(d)
  \/ Yield \/ Recvclr \/ Receive \/ Tick \/ Returns \/ Halt

Spec == Init /\ [][Next]_vars
==============================================================================
