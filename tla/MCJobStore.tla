------------------------------ MODULE MCJobStore ------------------------------
(* One job, fought over by connections that are interchangeable.             *)
EXTENDS JobStore, TLC

ThreeAttempts == [j \in Jobs |-> 3]
SamePriority  == [j \in Jobs |-> 0]
MCQueues      == {Jobs}

ClientSymmetry == Permutations(Clients)
=============================================================================
