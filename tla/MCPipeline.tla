----------------------------- MODULE MCPipeline -----------------------------
(* Runs of a pipeline with one prompt per step, and a job for each          *)
(* simulation.                                                              *)
EXTENDS Pipeline, TLC

RolloutJobs  == {<<"rollout", r, s, p>> : r \in 1..Runs, s \in 1..Steps, p \in Prompts}
OptimizeJobs == {<<"optimize", r, s, "-">> : r \in 1..Runs, s \in 1..Steps}
MCSimJobs    == {<<"optimize", 0, 0, "-">>, <<"sim-rollout", 0, 0, "-">>}

MCJobs == RolloutJobs \cup OptimizeJobs \cup MCSimJobs
MCKind == [j \in Jobs |-> j[1]]
MCRollout  == [r \in 1..Runs, s \in 1..Steps, p \in Prompts |-> <<"rollout", r, s, p>>]
MCOptimize == [r \in 1..Runs, s \in 1..Steps |-> <<"optimize", r, s, "-">>]

\* The pool workers are alike.
Symmetry == Permutations(Workers)
=============================================================================
