--------------------------- MODULE MCControlPlane ---------------------------
(* Instances of the control plane: training jobs j1 and j2 and a job k of a  *)
(* kind without handler, on the GPU or the CPU.                              *)
EXTENDS ControlPlane, TLC

CONSTANTS j1, j2, k, d1, d2, op

MCClients     == Daemons \cup Operators
MCMaxAttempts == [j \in Jobs |-> 2]
MCPriority    == [j \in Jobs |-> IF j = j1 THEN 0 ELSE 1]
MCKind        == [j \in Jobs |-> IF j = k THEN "rollout" ELSE TRAIN_KIND]
AllGpu        == [j \in Jobs |-> GPU]
J1OnCpu       == [j \in Jobs |-> IF j = j1 THEN CPU ELSE GPU]
MCQueues      == {InResource(GPU), InResource(CPU)}
OneSlotEach   == [r \in {GPU, CPU} |-> 1]
=============================================================================
