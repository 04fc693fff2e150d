---------------------------- MODULE KernelInvariant ----------------------------
(***************************************************************************)
(* The inductive invariants behind the properties of Kernel.               *)
(***************************************************************************)
EXTENDS KernelProperties

\* r is list with p put in behind the first n.
Spliced(r, list, n, p) ==
  /\ r \in Seq(Pid) /\ Len(r) = Len(list) + 1
  /\ \A i \in 1 .. n : r[i] = list[i]
  /\ r[n + 1] = p
  /\ \A i \in n + 1 .. Len(list) : r[i + 1] = list[i]

\* The keys of a list do not increase: insert keeps it that way.
Sorted(list, key) ==
  \A i \in 1 .. Len(list) : \A j \in 1 .. i : key[list[j]] >= key[list[i]]

(***************************************************************************)
(* States of the scheduler.                                                *)
(***************************************************************************)
Sched == [state : [Pid -> States], key : [Pid -> Int], list : Seq(Pid), sleep : Seq(Pid),
          cur : Pid, slice : 1 .. Quantum]

Eligible == {"ready", "curr"}
Asleep == {"sleep", "rectim"}

\* Process p is on the list that its state names and not on the other.
OnItsList(s, p) == /\ s.state[p] = "ready" <=> In(s.list, p)
                   /\ s.state[p] \in Asleep <=> In(s.sleep, p)

\* Every process but those of T, which are on their way from one list to another,
\* is on the list its state names, each once; only cur may be current; the null
\* process is always there to run.
Linked(s, T) ==
  /\ \A p \in Pid \ T : OnItsList(s, p)
  /\ IsInjective(s.list) /\ IsInjective(s.sleep)
  /\ \A p \in Pid : s.state[p] = "curr" => p = s.cur
  /\ s.state[Null] \in Eligible

\* The processes of T are on neither list.
OnNone(s, T) == \A p \in T : ~In(s.list, p) /\ ~In(s.sleep, p)

\* The ready list is in the order of the priorities.
Ordered(s) == /\ Sorted(s.list, s.key)
              /\ \A p \in Pid : In(s.list, p) => s.key[p] = prprio[p]

\* r is what calls of ready make of s: the processes of T are ready, the others
\* are what they were.
Readies(s, r, T) ==
  /\ r \in Sched /\ r.sleep = s.sleep /\ r.cur = s.cur /\ r.slice = s.slice
  /\ \A p \in Pid : r.state[p] = IF p \in T THEN "ready" ELSE s.state[p]
  /\ \A p \in Pid \ T : r.key[p] = s.key[p]
  /\ Ordered(s) => Ordered(r)

\* The scheduler between two calls.
Runs(s) == s \in Sched /\ Linked(s, {}) /\ s.state[s.cur] = "curr"

\* States that differ in who of the eligible processes is current.
Alike(f, g) == \A p \in Pid : f[p] = g[p] \/ (f[p] \in Eligible /\ g[p] \in Eligible)

\* Nobody on it has a higher priority than the process that runs.
Highest(s) == \A p \in Pid : In(s.list, p) => s.key[p] <= prprio[s.cur]

(***************************************************************************)
(* What holds in every state, whatever is done with the calls.             *)
(***************************************************************************)
Scheduled == Runs(Now)

\* The queue of a semaphore holds those who wait for it, each once.
QueuesMatch ==
  /\ \A s \in Sem : /\ IsInjective(squeue[s])
                    /\ \A p \in Pid : In(squeue[s], p) <=> prstate[p] = "wait" /\ prsem[p] = s
  /\ \A p \in Pid : prstate[p] = "wait" => prsem[p] \in Sem

\* kill is never in the middle of killing the null process.
NullSpared == \A k \in Pid : cont[k] = "kill" => victim[k] # Null

KernelInv == TypeOK /\ Scheduled /\ QueuesMatch /\ CountsWaiting /\ NullSpared

(***************************************************************************)
(* What holds when no ready process is given another priority.             *)
(***************************************************************************)
InOrder == Ordered(Now) /\ Highest(Now)

(***************************************************************************)
(* What holds when no process that is being killed is killed again, or     *)
(* kills.                                                                  *)
(***************************************************************************)
Victims == {victim[k] : k \in {j \in Pid : Killing(j)}}

\* Each victim is there, has one killer, and kills nobody, itself excepted.
KillsApart ==
  /\ \A k \in Pid : Killing(k) => victim[k] \in Live \ {Null}
  /\ \A j, k \in Pid : Killing(j) /\ Killing(k) =>
       (victim[k] \in {j, victim[j]} => j = k)

\* prcount is the number of processes that nobody is killing.
ProcessesCounted == halted \/ prcount = Cardinality(Live \ Victims)

HaltInv == KillsApart /\ ProcessesCounted /\ HaltsAtTheEnd

(***************************************************************************)
(* What holds when nobody waits for a time of 0.                           *)
(***************************************************************************)
\* What the process at place i has to sleep less its own key.
Before(list, rest, i) == IF i = 1 THEN 0 ELSE rest[list[i - 1]]

\* A key of the delta list is what the process has to sleep beyond the one before it,
\* and everybody on the list has something left to sleep.
Deltas(list, key, rest) ==
  \A i \in 1 .. Len(list) :
    /\ key[list[i]] >= 0 /\ rest[list[i]] > 0
    /\ rest[list[i]] = Before(list, rest, i) + key[list[i]]

DelayInv == Deltas(sleepq, qkey, left)

(***************************************************************************)
(* Parts of the inductive step.                                            *)
(***************************************************************************)
\* The types of what the scheduler changes.
SchedTypes ==
  /\ prstate \in [Pid -> States] /\ qkey \in [Pid -> Int]
  /\ readylist \in Seq(Pid) /\ sleepq \in Seq(Pid)
  /\ currpid \in Pid /\ preempt \in 1 .. Quantum

\* And of what it does not.
OtherTypes ==
  /\ prprio \in [Pid -> Prio \cup {0}]
  /\ prsem \in [Pid -> Sem \cup {-1}] /\ prparent \in [Pid -> Pid]
  /\ prhasmsg \in [Pid -> BOOLEAN]
  /\ sused \in [Sem -> BOOLEAN] /\ scount \in [Sem -> Int] /\ squeue \in [Sem -> Seq(Pid)]
  /\ prcount \in Int /\ halted \in BOOLEAN
  /\ cont \in [Pid -> {"user", "receive", "recvtime", "tick", "kill"}]
  /\ victim \in [Pid -> Pid] /\ left \in [Pid -> Int]

\* The processes but those of T are where they were, or change the processor.
Stay(T) ==
  \A p \in Pid \ T : prstate'[p] = prstate[p] \/ (prstate'[p] \in Eligible /\ prstate[p] \in Eligible)

\* The scheduler's part of a step in which only those of T change their state.
Reschedules(T) ==
  /\ SchedTypes' /\ Scheduled' /\ Stay(T)
  /\ InOrder /\ prprio' = prprio => InOrder'

\* The delta list stays what it is.
SleepersKept == sleepq' = sleepq /\ \A p \in Pid : In(sleepq, p) => qkey'[p] = qkey[p]
Undisturbed == SleepersKept /\ left' = left

\* The keys and what is left to sleep when p enters behind the first n with a delay
\* of d, when it leaves from there, and when the first are counted down and leave.
Enters(list, key, rest, key2, rest2, n, p, d) ==
  /\ Before(list, rest, n + 1) <= d /\ (n < Len(list) => rest[list[n + 1]] > d)
  /\ key2[p] = d - Before(list, rest, n + 1) /\ rest2[p] = d
  /\ n < Len(list) => key2[list[n + 1]] = key[list[n + 1]] - key2[p]
  /\ \A q \in Pid : q # p => rest2[q] = rest[q]
  /\ \A q \in Pid : q # p /\ (n < Len(list) => q # list[n + 1]) => key2[q] = key[q]
Leaves(list, key, rest, r, key2, rest2, n, p) ==
  /\ n < Len(r) => key2[list[n + 2]] = key[list[n + 2]] + key[p]
  /\ \A q \in Pid : In(r, q) => rest2[q] = rest[q]
  /\ \A q \in Pid : (n < Len(r) => q # list[n + 2]) => key2[q] = key[q]
CountsDown(list, key, rest, r, key2, rest2, due) ==
  /\ r = SubSeq(list, due + 1, Len(list))
  /\ \A i \in 1 .. Len(list) : key2[list[i]] = IF i = 1 THEN key[list[i]] - 1 ELSE key[list[i]]
  /\ \A i \in 1 .. due : key2[list[i]] <= 0
  /\ due < Len(list) => key2[list[due + 1]] > 0
  /\ \A q \in Pid : In(r, q) /\ rest[q] > 0 => rest2[q] = rest[q] - 1

\* No process comes or goes, none begins to wait for a message or is sent one, and no
\* call of another process gets on.
Quiet ==
  /\ \A p \in Pid : prstate'[p] # prstate[p] =>
       prstate[p] \notin {"free", "recv"} /\ prstate'[p] \notin {"free", "recv", "rectim"}
  /\ \A p \in Pid : cont'[p] # cont[p] => cont[p] \in {"user", "tick"} /\ cont'[p] \in {"user", "tick"}
  /\ UNCHANGED <<prhasmsg, victim, prcount, halted>>
================================================================================
