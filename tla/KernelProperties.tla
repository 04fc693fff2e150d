--------------------------- MODULE KernelProperties ---------------------------
(***************************************************************************)
(* What the process manager promises.                                      *)
(***************************************************************************)
EXTENDS Kernel

States == {"free", "susp", "ready", "curr", "wait", "recv", "sleep", "rectim"}

\* Every variable keeps its type; the bounds are those of the tables.
TypeOK ==
  /\ prstate \in [Pid -> States] /\ prprio \in [Pid -> Prio \cup {0}]
  /\ prsem \in [Pid -> Sem \cup {-1}] /\ prparent \in [Pid -> Pid]
  /\ prhasmsg \in [Pid -> BOOLEAN] /\ qkey \in [Pid -> Int]
  /\ readylist \in Seq(Pid) /\ sleepq \in Seq(Pid)
  /\ sused \in [Sem -> BOOLEAN] /\ scount \in [Sem -> Int] /\ squeue \in [Sem -> Seq(Pid)]
  /\ prcount \in Int /\ currpid \in Pid /\ preempt \in 1 .. Quantum /\ halted \in BOOLEAN
  /\ cont \in [Pid -> {"user", "receive", "recvtime", "tick", "kill"}]
  /\ victim \in [Pid -> Pid] /\ left \in [Pid -> Int]

In(list, p) == p \in ToSet(list)

\* getitem unlinks a process from whatever list its entry of queuetab is in,
\* trusting prstate alone: a process must be on the list its state names, once,
\* and on no other, and the one on no list that is current is currpid.
ListsMatchStates ==
  /\ \A p \in Pid :
       /\ prstate[p] = "curr" <=> p = currpid
       /\ prstate[p] = "ready" <=> In(readylist, p)
       /\ prstate[p] \in {"sleep", "rectim"} <=> In(sleepq, p)
       /\ \A s \in Sem : In(squeue[s], p) <=> prstate[p] = "wait" /\ prsem[p] = s
       /\ prstate[p] = "wait" => prsem[p] \in Sem
  /\ IsInjective(readylist) /\ IsInjective(sleepq)
  /\ \A s \in Sem : IsInjective(squeue[s])

\* signal and semdelete dequeue by the count without asking whether anybody is
\* in the queue: a negative count is exactly the number of waiting processes,
\* whatever was killed, signaled, reset or deleted meanwhile, and nobody waits
\* on an entry that is free.
CountsWaiting ==
  \A s \in Sem :
    Len(squeue[s]) = IF sused[s] /\ scount[s] < 0 THEN -scount[s] ELSE 0

\* The processor is the highest priority eligible process's: after every step no
\* ready process has a higher priority than the one that runs.
HighestRuns ==
  \A p \in Pid : prstate[p] = "ready" => prprio[p] <= prprio[currpid]

\* The same said of resched alone: whenever it gives the processor to a process,
\* no process left on the ready list has a higher priority.
ReschedPicksHighest ==
  [][currpid' # currpid =>
       \A p \in Pid : prstate'[p] = "ready" => prprio'[p] <= prprio'[currpid']]_vars

\* send and the waiting calls may not miss each other: nobody waits who has a
\* message, and receive comes back only when there is one to take.
MessageWakes ==
  \A p \in Live :
    /\ prstate[p] \in {"recv", "rectim"} => ~prhasmsg[p]
    /\ cont[p] = "receive" /\ prstate[p] # "recv" => prhasmsg[p]

\* The delta list, which only ever adjusts one neighbour: the keys up to a
\* process always sum up to the ticks it still has to sleep, whoever enters,
\* times out, is sent a message or killed before it.
DeltasExact ==
  \A i \in DOMAIN sleepq : Until(sleepq, qkey, i) = left[sleepq[i]]

\* Delay the calling process n milliseconds: nobody sleeps on after that.
SleepsNoLonger == \A p \in Pid : prstate[p] = "sleep" => left[p] > 0

\* kill stops the machine only when the last user process completes: all others
\* that are still there are being killed too.
HaltsAtTheEnd ==
  halted => \A p \in Live \ {Null, currpid} : \E k \in Pid : Killing(k) /\ victim[k] = p

(***************************************************************************)
(* Liveness.  A call in progress goes on when its process has the          *)
(* processor; clock interrupts keep coming, and one that is pending is     *)
(* taken when interrupts are enabled: if they are enabled again and again, *)
(* the clock ticks again and again (strong fairness of Tick, which is      *)
(* enabled in the states Running).  Nothing is assumed of programs.        *)
(***************************************************************************)
FairSpec == /\ Spec /\ WF_vars(Returns)
            /\ []<>Running => []<><<Tick>>_vars

\* Every delay ends, also behind other processes on the delta list that come
\* and go.
DelaysEnd ==
  \A p \in Pid : prstate[p] \in {"sleep", "rectim"} ~>
                   (prstate[p] \notin {"sleep", "rectim"} \/ halted)

Overtaken(p) == \E q \in Pid : prstate[q] \in {"ready", "curr"} /\ prprio[q] > prprio[p]

\* Processes of the same priority share the processor: none stays ready for
\* ever unless processes with a higher priority keep it from running.
TimeSharing ==
  \A p \in Pid : []<>(prstate[p] # "ready" \/ Overtaken(p) \/ halted)
==============================================================================
