------------------------------- MODULE Trainer -------------------------------
(***************************************************************************)
(* One training process: preflight.py, then either run_experiment() of     *)
(* rl/run.py with the loop of rl/base.py and the learners of rl/grpo.py,   *)
(* rloo.py and ppo.py, or ("legacy") run_training() of grpo/trainer.py,    *)
(* which has no preflight, no evaluation and no guard on the loss; and the *)
(* alert rules of observability/alerts.py over the metrics it logs.        *)
(*                                                                         *)
(* A float is a small integer or NAN, which stands for nan and inf. The    *)
(* weights are finite or not. Torch, the model and the sampler are         *)
(* external: what they may return is a choice, and each choice that is     *)
(* not the healthy one is a fault out of FaultBudget.                      *)
(***************************************************************************)
EXTENDS Integers, Sequences, Functions

CONSTANTS
  Launches,          \* [algorithm, num_samples, prompts_per_step, skip_preflight, flaws, unchecked]
  steps, save_every,
  HeldOutLevels,     \* the mean held-out rewards, in hundredths
  Kl, Entropy, GradNorm,   \* finite metrics, in hundredths
  FaultBudget, NAN

Checks == <<"config", "dataset", "memory", "rollout", "reward", "backward">>

ASSUME TrainerAssumption ==
  /\ {steps, save_every} \subseteq Nat \ {0}
  /\ FaultBudget \in Nat
  /\ HeldOutLevels \subseteq Int
  /\ Kl \cup Entropy \cup GradNorm \subseteq Int /\ NAN \notin Int
  /\ \A l \in Launches : /\ {l.num_samples, l.prompts_per_step} \subseteq Nat \ {0}
                         /\ l.flaws \subseteq Range(Checks)
                         /\ l.unchecked \subseteq {"memory", "backward"}

VARIABLES
  launch,         \* the configuration and what is wrong with it
  checks,         \* PreflightReport.checks
  pc, step,
  weights,        \* "finite" or "nan"
  m,              \* the metrics dict of this step
  rows,           \* metrics.jsonl, and step_metrics
  stability_failures,
  saved,          \* the adapters written: [step, weights]
  before, after,  \* held-out reward means
  faults

log   == <<m, rows, stability_failures, saved>>
vars  == <<launch, checks, pc, step, weights, log, before, after, faults>>

legacy == launch.algorithm = "legacy"
batch  == launch.prompts_per_step * launch.num_samples

\* build_policy() and the trainer's constructor come first.
First(l) == IF l.algorithm = "legacy" THEN "rollout" ELSE "before"

Init ==
  /\ launch \in Launches
  /\ checks = <<>>
  /\ pc = IF launch.algorithm = "legacy" \/ launch.skip_preflight THEN First(launch) ELSE "preflight"
  /\ step = 0 /\ weights = "finite"
  /\ m = <<>> /\ rows = <<>> /\ stability_failures = 0 /\ saved = {}
  /\ before = NAN /\ after = NAN /\ faults = 0

Go(label) == pc' = label /\ UNCHANGED launch

-----------------------------------------------------------------------------
(* run_preflight(): the checks in order, up to the first that fails. A      *)
(* check that cannot be made (no memory budget given, no torch) passes and  *)
(* is marked skipped. _check_config() is the one whose verdict depends on   *)
(* the group size.                                                          *)

\* Mutant: a group of one passes.
verdict_any_group(name) == name \in launch.unchecked \/ name \notin launch.flaws

verdict(name) ==
  /\ name \in launch.unchecked \/ name \notin launch.flaws
  /\ name = "config" => launch.num_samples >= 2

Preflight ==
  /\ pc = "preflight"
  /\ LET name == Checks[Len(checks) + 1]
         ok   == verdict(name)
     IN  /\ checks' = Append(checks, [name |-> name, ok |-> ok, skipped |-> name \in launch.unchecked])
         /\ Go(IF ~ok THEN "refused"
               ELSE IF Len(checks') = Len(Checks) THEN First(launch) ELSE "preflight")
  /\ UNCHANGED <<step, weights, log, before, after, faults>>

-----------------------------------------------------------------------------
(* Generating, for training and for the held-out split. Sampling from the   *)
(* logits of non-finite weights raises, or returns noise on a device that   *)
(* does not check. What is generated and how it scores is data: no later    *)
(* branch depends on it.                                                    *)

heldout_eval(next) == Go(next) /\ UNCHANGED <<checks, step, weights, log, faults>>

BeforeEval ==
  /\ pc = "before" /\ heldout_eval("rollout")
  /\ before' \in HeldOutLevels /\ UNCHANGED after

AfterEval ==
  /\ pc = "after" /\ heldout_eval("done")
  /\ after' \in HeldOutLevels /\ UNCHANGED before

\* generate_rollouts() and calculate_rewards().
generate_rollouts ==
  /\ pc = "rollout"
  /\ Go("optimize")
  /\ UNCHANGED <<checks, step, weights, log, before, after, faults>>

GenerateRaises ==
  /\ pc \in {"rollout", "after"} /\ weights = "nan"
  /\ Go("raised")
  /\ UNCHANGED <<checks, step, weights, log, before, after, faults>>

-----------------------------------------------------------------------------
(* optimize(). GRPO's and RLOO's advantages are differences within a group  *)
(* and always finite; PPO's are standardised over the batch, by a deviation *)
(* that is nan for a batch of one.                                          *)

\* The forward pass and grpo_loss(): non-finite weights give a non-finite KL,
\* entropy and loss, a PPO batch of one a non-finite loss.
LonePpo == launch.algorithm = "ppo" /\ batch = 1

Forward(kl, ent, loss) ==
  IF weights = "nan" THEN kl = NAN /\ ent = NAN /\ loss = NAN
  ELSE kl # NAN /\ ent # NAN /\ (LonePpo => loss = NAN)

\* From finite weights anything else that is not finite is a fault.
Overflows(loss, gn) == weights = "finite" /\ NAN \in {loss, gn} /\ ~LonePpo

\* _step(): a non-finite loss is counted and skipped (not by the legacy loop,
\* whose backward makes the weights non-finite); a finite one is stepped, also
\* when its gradient is not finite, and clip_grad_norm_() then spreads that.
Skip(loss) == loss = NAN /\ ~legacy

Backward(loss, gn) ==
  IF Skip(loss)
  THEN gn = NAN /\ stability_failures' = stability_failures + 1 /\ UNCHANGED weights
  ELSE /\ loss = NAN => gn = NAN
       /\ weights' = IF gn = NAN THEN "nan" ELSE weights
       /\ UNCHANGED stability_failures

\* What is logged is the policy's part of the loss: PPO's critic may have
\* overflowed alone.
Logged(loss, part) ==
  part = loss \/ (launch.algorithm = "ppo" /\ part = 0 /\ weights = "finite" /\ ~LonePpo)

optimize ==
  /\ pc = "optimize"
  /\ \E kl \in Kl \cup {NAN}, ent \in Entropy \cup {NAN}, loss, part \in {0, NAN},
        gn \in GradNorm \cup {NAN} :
       /\ Forward(kl, ent, loss)
       /\ Logged(loss, part)
       /\ Backward(loss, gn)
       /\ Overflows(loss, gn) => faults < FaultBudget
       /\ faults' = faults + (IF Overflows(loss, gn) THEN 1 ELSE 0)
       /\ m' = [kl |-> kl, entropy |-> ent, loss |-> part, grad_norm |-> gn]
  /\ Go("log")
  /\ UNCHANGED <<checks, step, rows, saved, before, after>>

\* The device runs out of memory in the forward or the backward pass.
OutOfMemory ==
  /\ pc = "optimize" /\ faults < FaultBudget
  /\ faults' = faults + 1
  /\ Go("raised")
  /\ UNCHANGED <<checks, step, weights, log, before, after>>

\* metrics.append(m), and the row is appended to metrics.jsonl.
AppendRow ==
  /\ pc = "log"
  /\ rows' = Append(rows, m) /\ m' = <<>>
  /\ step' = step + 1
  /\ Go(IF legacy THEN "save" ELSE IF step' < steps THEN "rollout" ELSE "save")
  /\ UNCHANGED <<checks, weights, stability_failures, saved, before, after, faults>>

\* run_experiment() saves once, after train(); run_training() every save_every
\* steps and at the end.
Save ==
  /\ pc = "save"
  /\ saved' = IF step = steps \/ step % save_every = 0
              THEN saved \cup {[step |-> step, weights |-> weights]} ELSE saved
  /\ Go(IF ~legacy THEN "after" ELSE IF step < steps THEN "rollout" ELSE "done")
  /\ UNCHANGED <<checks, step, weights, m, rows, stability_failures, before, after, faults>>

Ended == pc \in {"refused", "raised", "done"} /\ UNCHANGED vars

Next ==
  \/ Preflight \/ BeforeEval \/ AfterEval
  \/ generate_rollouts \/ GenerateRaises
  \/ optimize \/ OutOfMemory \/ AppendRow \/ Save \/ Ended

Spec == Init /\ [][Next]_vars

-----------------------------------------------------------------------------
(* observability/alerts.py, with its default thresholds in hundredths.      *)

Alert(level, rule) == [level |-> level, rule |-> rule]

\* Mutant: only the loss and the KL are looked at.
nonfinite_but_grad(row) == NAN \in {row.kl, row.loss}

nonfinite(row) == NAN \in {row.kl, row.loss, row.grad_norm}

check_step(row) ==
  {a \in {Alert("critical", "nonfinite"), Alert("critical", "kl_blowup"), Alert("warning", "kl_high"),
          Alert("warning", "entropy_collapse"), Alert("warning", "grad_spike")} :
     CASE a.rule = "nonfinite"        -> nonfinite(row)
       [] a.rule = "kl_blowup"        -> row.kl # NAN /\ row.kl >= 100
       [] a.rule = "kl_high"          -> row.kl # NAN /\ row.kl \in 50..99
       [] a.rule = "entropy_collapse" -> row.entropy # NAN /\ row.entropy < 5
       [] a.rule = "grad_spike"       -> row.grad_norm # NAN /\ row.grad_norm >= 5000}

check_run(metrics, skipped, b, a) ==
  UNION {check_step(metrics[i]) : i \in DOMAIN metrics}
    \cup (IF skipped > 0 THEN {Alert("critical", "stability_failures")} ELSE {})
    \cup (IF NAN \in {a, b} THEN {}
          ELSE IF a < b - 2 THEN {Alert("warning", "reward_regression")}
          ELSE IF a = b THEN {Alert("info", "reward_stall")} ELSE {})

\* The exit code of the command line: 0 clean, 2 critical.
exit_code(alerts) ==
  IF alerts = {} THEN 0 ELSE IF \E a \in alerts : a.level = "critical" THEN 2 ELSE 1

-----------------------------------------------------------------------------
\* A run that diverged (non-finite weights, which _step() lets through when
\* only the gradient is not finite, or skipped steps) never looks healthy: the
\* rows on disk alone, without the result file that a run which raised never
\* writes, make the alert check exit with 2, also before any adapter with such
\* weights is written.
NoSilentDivergence ==
  /\ (weights = "nan" \/ stability_failures > 0) /\ pc # "log"
       => exit_code(check_run(rows, 0, NAN, NAN)) = 2
  /\ \A s \in saved : s.weights = "nan" => \E i \in 1..s.step : nonfinite(rows[i])

\* A launch that preflight cleared diverges only by a fault: what it checks
\* (a baseline within the group needs two samples) rules out the learners'
\* own division by an undefined deviation.
ClearedRunIsStable ==
  Len(checks) = Len(Checks) /\ faults = 0 => weights = "finite" /\ stability_failures = 0

=============================================================================
