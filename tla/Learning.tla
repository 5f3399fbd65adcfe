------------------------------ MODULE Learning -------------------------------
(***************************************************************************)
(* The learning side: what a policy is asked to do over one catalog, act   *)
(* through an episode (ShopEnv) or answer a prompt (Rewards), judged by    *)
(* the same satisfies(); and the process that trains it (Trainer). They    *)
(* share no state: a behaviour is one episode, one answer or one training. *)
(***************************************************************************)
EXTENDS Trainer, ShopEnv, Rewards

VARIABLE task

learnVars == <<task, vars, envVars, answerVars>>

\* The parts a behaviour is not about.
NoEpisode  == goal = [budget |-> 0, constraints |-> <<>>, target_items |-> 0] /\ reset
NoAnswer   == constraints = <<>> /\ has_language = FALSE /\ n_dims = 0 /\ said = <<>> /\ recs = <<>>
NoTraining == Init /\ launch = CHOOSE l \in Launches : TRUE

LearnInit ==
  \/ task = "episode"  /\ goal \in Goals /\ reset /\ NoAnswer /\ NoTraining
  \/ task = "answer"   /\ AnswerInit /\ NoEpisode /\ NoTraining
  \/ task = "training" /\ Init /\ NoEpisode /\ NoAnswer

\* An episode and an answer may end anywhere; a training must not get stuck.
LearnNext ==
  /\ \/ task = "episode"  /\ EnvNext    /\ UNCHANGED <<vars, answerVars>>
     \/ task = "answer"   /\ AnswerNext /\ UNCHANGED <<vars, envVars>>
     \/ task = "training" /\ Next       /\ UNCHANGED <<envVars, answerVars>>
     \/ task # "training" /\ UNCHANGED <<vars, envVars, answerVars>>
  /\ UNCHANGED task

LearnSpec == LearnInit /\ [][LearnNext]_learnVars

=============================================================================
