------------------------------- MODULE MCKernel -------------------------------
(***************************************************************************)
(* Instances of Kernel for TLC.                                            *)
(***************************************************************************)
EXTENDS KernelProperties, TLC

\* The slots of proctab but the null process's are interchangeable.
Symmetry == Permutations(Pid \ {Null})

\* States that differ only in values that are overwritten before they are read
\* are the same: the fields of a free slot of proctab or semtab, prsem of a
\* process that does not wait, the key of one that is on no list, the message of
\* the null process, which never receives.  (TypeOK is there to make TLC evaluate
\* what the view leaves out.)
Key(p) == IF In(readylist, p) \/ In(sleepq, p) THEN qkey[p] ELSE 0
View ==
  IF ~TypeOK THEN <<vars>> ELSE
  <<prstate, readylist, sleepq, squeue, prcount, currpid, preempt, halted, left,
    [s \in {t \in Sem : sused[t]} |-> scount[s]],
    [p \in Live |-> <<prprio[p], prparent[p], p # Null /\ prhasmsg[p], cont[p], victim[p], Key(p),
                      IF prstate[p] = "wait" THEN prsem[p] ELSE -1>>]>>
===============================================================================
