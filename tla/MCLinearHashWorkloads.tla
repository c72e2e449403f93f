------------------------ MODULE MCLinearHashWorkloads ------------------------
(***************************************************************************)
(* Two ways to use a table in which allocations fail: one thread calls     *)
(* every operation, or all threads insert, find, check and clear, a call   *)
(* less altogether.                                                        *)
(***************************************************************************)
EXTENDS MCLinearHash

CONSTANTS SingleThread, ClearingOps
VARIABLE workload
workloadVars == <<vars, workload>>

Permitted ==
  CASE workload = "alone" -> \A t \in Thread \ {SingleThread} : rec[t] = NoRecord
    [] workload = "clearing" -> calls < MaxOps /\ \A t \in Thread : op[t] \in ClearingOps

ClearingDone ==
  /\ workload = "clearing" /\ calls = MaxOps - 1
  /\ \A t \in Thread : pc[t] \in {"idle", "crashed"}

WorkloadInit == Init /\ workload \in {"alone", "clearing"}
WorkloadNext ==
  \/ Next /\ UNCHANGED workload /\ Permitted'
  \/ ClearingDone /\ UNCHANGED workloadVars

\* The fairness of LinearHash.
WorkloadSpec ==
  WorkloadInit /\ [][WorkloadNext]_workloadVars /\ \A t \in Thread : WF_vars(Step(t))
=============================================================================
