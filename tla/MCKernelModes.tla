---------------------------- MODULE MCKernelModes -----------------------------
(***************************************************************************)
(* An instance of Kernel in two parts: behaviours with semaphores and two  *)
(* priorities in which nobody sleeps or waits for a time, and behaviours   *)
(* with delays at one priority.                                            *)
(***************************************************************************)
EXTENDS MCKernel

VARIABLE mode

ModesInit == Init /\ mode \in {"semaphores", "delays"}

ModesNext ==
  /\ Next
  /\ mode' = mode
  /\ mode = "semaphores" => sleepq' = <<>>
  /\ mode = "delays" => (\A s \in Sem : ~sused'[s]) /\ (\A p \in Pid : prprio'[p] <= 1)

ModesSpec == ModesInit /\ [][ModesNext]_<<vars, mode>>

ModesView == <<mode, View>>
===============================================================================
