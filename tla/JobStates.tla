------------------------------ MODULE JobStates ------------------------------
(***************************************************************************)
(* The job states and the transition graph of platform/jobs.py.            *)
(* FAILED and RETRYING are states of the graph; fail() passes through them *)
(* without persisting them.                                                *)
(***************************************************************************)

PENDING     == "pending"
RUNNING     == "running"
PAUSED      == "paused"
SUCCEEDED   == "succeeded"
FAILED      == "failed"
RETRYING    == "retrying"
DEAD_LETTER == "dead_letter"
CANCELLED   == "cancelled"

JobState == {PENDING, RUNNING, PAUSED, SUCCEEDED,
             FAILED, RETRYING, DEAD_LETTER, CANCELLED}

\* No row with this id yet.
ABSENT == "absent"

Transitions ==
  {<<PENDING, RUNNING>>, <<PENDING, PAUSED>>, <<PENDING, CANCELLED>>,
   <<RUNNING, SUCCEEDED>>, <<RUNNING, FAILED>>, <<RUNNING, PAUSED>>,
   <<RUNNING, CANCELLED>>,
   <<PAUSED, PENDING>>, <<PAUSED, CANCELLED>>,
   <<FAILED, RETRYING>>, <<FAILED, DEAD_LETTER>>,
   <<RETRYING, PENDING>>, <<RETRYING, DEAD_LETTER>>}

TERMINAL == {SUCCEEDED, DEAD_LETTER, CANCELLED}

can_transition(src, dst) == <<src, dst>> \in Transitions

=============================================================================
