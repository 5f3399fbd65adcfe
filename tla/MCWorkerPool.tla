---------------------------- MODULE MCWorkerPool ----------------------------
(* Instances of the pool: a job e of a kind with a handler and a job m of a  *)
(* kind without one.                                                         *)
EXTENDS WorkerPool, TLC

CONSTANTS e, m, w1, w2, op

MCClients     == Workers \cup Outsiders
MCMaxAttempts == [j \in Jobs |-> IF j = m THEN 1 ELSE 2]
MCPriority    == [j \in Jobs |-> 0]
MCQueues      == {Jobs}
=============================================================================
