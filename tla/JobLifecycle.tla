----------------------------- MODULE JobLifecycle -----------------------------
(***************************************************************************)
(* What the job store promises its readers, with every statement, client   *)
(* and lease hidden: each job is created once, then moves along the edges  *)
(* of the transition graph, a failure being one move from the state the    *)
(* job failed in to the state its path FAILED -> ... ends in.              *)
(***************************************************************************)
EXTENDS JobStates

CONSTANT Jobs

VARIABLE phase

Init == phase = [j \in Jobs |-> ABSENT]

Create(j) == /\ phase[j] = ABSENT
             /\ phase' = [phase EXCEPT ![j] = PENDING]

Move(j, s) == /\ can_transition(phase[j], s)
              /\ phase' = [phase EXCEPT ![j] = s]

\* RUNNING -> FAILED -> (RETRYING -> PENDING | DEAD_LETTER), seen as one move.
FailPath(src, dst) ==
  /\ can_transition(src, FAILED)
  /\ \/ can_transition(FAILED, dst)
     \/ can_transition(FAILED, RETRYING) /\ can_transition(RETRYING, dst)

Fail(j, s) == /\ FailPath(phase[j], s)
              /\ phase' = [phase EXCEPT ![j] = s]

Next == \E j \in Jobs :
          \/ Create(j)
          \/ \E s \in JobState : Move(j, s) \/ Fail(j, s)

Spec == Init /\ [][Next]_phase

=============================================================================
