---------------------------- MODULE LearningProofs ----------------------------
(***************************************************************************)
(* The trainer, and the task it is given. What is true of a training       *)
(* process for every launch, any number of steps and any number of faults: *)
(* a run that diverged says so on disk, and a launch that preflight        *)
(* cleared diverges by a fault only. And what is true of the scores it     *)
(* learns from, for every catalog, goal, prompt, episode and answer.       *)
(***************************************************************************)
EXTENDS Trainer, ShopEnv, Rewards, FiniteSetTheorems, WellFoundedInduction,
        SequenceTheorems, TLAPS

-----------------------------------------------------------------------------
(* The training process.                                                    *)

\* A row of metrics: each value is a number or non-finite.
Metric == [kl : Kl \cup {NAN}, entropy : Entropy \cup {NAN}, loss : {0, NAN},
           grad_norm : GradNorm \cup {NAN}]

\* The types; there is one row per finished step.
TypeOK ==
  /\ launch \in Launches
  /\ checks \in Seq([name : Range(Checks), ok : BOOLEAN, skipped : BOOLEAN])
  /\ step \in Nat /\ stability_failures \in Nat /\ faults \in Nat
  /\ weights \in {"finite", "nan"}
  /\ rows \in Seq(Metric) /\ step = Len(rows)
  /\ saved \in SUBSET [step : Nat, weights : {"finite", "nan"}]

\* The run is beyond repair, or a learner skipped an update.
Diverged == weights = "nan" \/ stability_failures > 0

\* The metrics say that the run diverged: those on disk, or those of the step
\* under way, which are about to be appended.
RowsTell == \E i \in DOMAIN rows : nonfinite(rows[i])

\* Metrics are taken in the same step in which weights or counters change.
DivergenceIsLogged ==
  /\ pc = "log" => m \in Metric
  /\ Diverged => RowsTell \/ (pc = "log" /\ nonfinite(m))

\* An adapter is written after the rows of its steps.
SavesAreLogged ==
  \A s \in saved : /\ s.step <= Len(rows)
                   /\ s.weights = "nan" => \E i \in 1..s.step : nonfinite(rows[i])

\* _check_config() is the first check, and no other is made once it failed.
GroupIsChecked ==
  /\ pc = "preflight" => Len(checks) < Len(Checks)
  /\ pc = "preflight" /\ Len(checks) >= 1 => launch.num_samples >= 2
  /\ Len(checks) >= 2 => launch.num_samples >= 2

\* From finite weights only a fault, or PPO on a batch of one, diverges.
FaultsExplain == faults = 0 /\ ~LonePpo => weights = "finite" /\ stability_failures = 0

\* The inductive invariant.
TrainerInv == TypeOK /\ DivergenceIsLogged /\ SavesAreLogged /\ GroupIsChecked /\ FaultsExplain

\* A row with a non-finite metric is a critical alert, by itself enough for
\* the exit code 2.
LEMMA NonfiniteIsCritical ==
  ASSUME NEW log1, NEW i \in DOMAIN log1, nonfinite(log1[i])
  PROVE  exit_code(check_run(log1, 0, NAN, NAN)) = 2
<1> DEFINE a == Alert("critical", "nonfinite")
<1>1. a.rule = "nonfinite" /\ a.level = "critical"
  BY DEF Alert
<1>2. a \in check_step(log1[i])
  <2> DEFINE S == {Alert("critical", "nonfinite"), Alert("critical", "kl_blowup"),
                   Alert("warning", "kl_high"), Alert("warning", "entropy_collapse"),
                   Alert("warning", "grad_spike")}
             P(b) == CASE b.rule = "nonfinite" -> nonfinite(log1[i])
                       [] b.rule = "kl_blowup" -> log1[i].kl # NAN /\ log1[i].kl >= 100
                       [] b.rule = "kl_high" -> log1[i].kl # NAN /\ log1[i].kl \in 50..99
                       [] b.rule = "entropy_collapse" -> log1[i].entropy # NAN /\ log1[i].entropy < 5
                       [] b.rule = "grad_spike" -> log1[i].grad_norm # NAN /\ log1[i].grad_norm >= 5000
  <2>1. check_step(log1[i]) = {b \in S : P(b)}
    BY DEF check_step
  <2> HIDE DEF a
  <2>2. a \in S
    BY DEF a
  <2>3. P(a)
    BY <1>1
  <2> HIDE DEF S, P
  <2> QED BY <2>1, <2>2, <2>3
<1>3. a \in check_run(log1, 0, NAN, NAN)
  BY <1>2 DEF check_run
<1> HIDE DEF a
<1> QED BY <1>1, <1>3 DEF exit_code

\* Appending a row keeps what the rows before it said.
LEMMA RowsStay ==
  ASSUME rows \in Seq(Metric), NEW r \in Metric, rows' = Append(rows, r)
  PROVE  /\ rows' \in Seq(Metric) /\ Len(rows') = Len(rows) + 1
         /\ \A i \in DOMAIN rows : i \in DOMAIN rows' /\ rows'[i] = rows[i]
         /\ Len(rows') \in DOMAIN rows' /\ rows'[Len(rows')] = r
OBVIOUS

\* A step that leaves the weights, the skips, the rows and the adapters alone.
LEMMA QuietStep ==
  ASSUME TypeOK, DivergenceIsLogged, SavesAreLogged, FaultsExplain,
         UNCHANGED <<launch, step, weights, rows, stability_failures, saved>>,
         faults' \in Nat, faults' >= faults, pc # "log", pc' # "log",
         checks' \in Seq([name : Range(Checks), ok : BOOLEAN, skipped : BOOLEAN])
  PROVE  TypeOK' /\ DivergenceIsLogged' /\ SavesAreLogged' /\ FaultsExplain'
<1>1. TypeOK'
  BY DEF TypeOK
<1>2. DivergenceIsLogged'
  BY DEF DivergenceIsLogged, Diverged, RowsTell
<1>3. SavesAreLogged'
  BY DEF SavesAreLogged
<1>4. FaultsExplain'
  <2>1. faults' = 0 => faults = 0
    BY DEF TypeOK
  <2> QED BY <2>1 DEF FaultsExplain, LonePpo, batch
<1> QED BY <1>1, <1>2, <1>3, <1>4

\* The step that optimizes: whatever makes the weights or the loss non-finite
\* is in the metrics it hands to the log.
LEMMA OptimizeStep ==
  ASSUME TrainerInv, optimize
  PROVE  TrainerInv'
<1> USE TrainerAssumption
<1>1. PICK kl \in Kl \cup {NAN}, ent \in Entropy \cup {NAN}, loss \in {0, NAN},
           part \in {0, NAN}, gn \in GradNorm \cup {NAN} :
        /\ Forward(kl, ent, loss) /\ Backward(loss, gn)
        /\ faults' = faults + (IF Overflows(loss, gn) THEN 1 ELSE 0)
        /\ m' = [kl |-> kl, entropy |-> ent, loss |-> part, grad_norm |-> gn]
  BY DEF optimize
<1>2. /\ pc' = "log" /\ pc = "optimize"
      /\ UNCHANGED <<launch, checks, step, rows, saved>>
  BY DEF optimize, Go
<1>3. m' \in Metric /\ m'.grad_norm = gn
  BY <1>1 DEF Metric
<1>4. /\ weights' \in {"finite", "nan"} /\ stability_failures' \in Nat
      /\ gn # NAN => weights' = weights /\ stability_failures' = stability_failures
  BY <1>1 DEF Backward, TrainerInv, TypeOK
<1>5. faults' \in Nat /\ faults' >= faults /\ (Overflows(loss, gn) => faults' > 0)
  BY <1>1 DEF TrainerInv, TypeOK
<1>6. TypeOK'
  BY <1>2, <1>4, <1>5 DEF TrainerInv, TypeOK
<1>7. DivergenceIsLogged'
  <2>1. CASE gn = NAN
    <3>1. nonfinite(m')
      BY <1>3, <2>1 DEF nonfinite
    <3> QED BY <1>2, <1>3, <3>1 DEF DivergenceIsLogged, nonfinite
  <2>2. CASE gn # NAN
    <3>1. Diverged' => Diverged
      BY <1>4, <2>2 DEF Diverged
    <3>2. Diverged => RowsTell
      BY <1>2 DEF TrainerInv, DivergenceIsLogged
    <3>3. RowsTell => RowsTell'
      BY <1>2 DEF RowsTell
    <3> QED BY <1>3, <3>1, <3>2, <3>3 DEF DivergenceIsLogged
  <2> QED BY <2>1, <2>2
<1>8. SavesAreLogged' /\ GroupIsChecked'
  BY <1>2 DEF TrainerInv, SavesAreLogged, GroupIsChecked
<1>9. FaultsExplain'
  <2> SUFFICES ASSUME faults' = 0, ~LonePpo'
               PROVE  weights' = "finite" /\ stability_failures' = 0
    BY DEF FaultsExplain
  <2>1. ~LonePpo /\ faults = 0
    BY <1>2, <1>5 DEF LonePpo, batch, TrainerInv, TypeOK
  <2>2. weights = "finite" /\ stability_failures = 0
    BY <2>1 DEF TrainerInv, FaultsExplain
  <2>3. ~Overflows(loss, gn)
    BY <1>5
  <2>4. gn # NAN
    BY <2>1, <2>2, <2>3 DEF Overflows
  <2> QED BY <1>4, <2>2, <2>4
<1> QED BY <1>6, <1>7, <1>8, <1>9 DEF TrainerInv

\* The row is appended: what the metrics said, the rows say.
LEMMA AppendRowStep ==
  ASSUME TrainerInv, AppendRow
  PROVE  TrainerInv'
<1>1. /\ pc = "log" /\ rows' = Append(rows, m) /\ step' = step + 1
      /\ UNCHANGED <<launch, checks, weights, stability_failures, saved, faults>>
      /\ pc' \in {"save", "rollout"}
  BY DEF AppendRow, Go
<1>2. m \in Metric /\ rows \in Seq(Metric)
  BY <1>1 DEF TrainerInv, TypeOK, DivergenceIsLogged
<1>3. /\ rows' \in Seq(Metric) /\ Len(rows') = Len(rows) + 1
      /\ \A i \in DOMAIN rows : i \in DOMAIN rows' /\ rows'[i] = rows[i]
      /\ Len(rows') \in DOMAIN rows' /\ rows'[Len(rows')] = m
  BY <1>1, <1>2, RowsStay
<1>4. TypeOK'
  BY <1>1, <1>3 DEF TrainerInv, TypeOK
<1>5. DivergenceIsLogged'
  <2>1. RowsTell => RowsTell'
    BY <1>3 DEF RowsTell
  <2>2. nonfinite(m) => RowsTell'
    BY <1>3 DEF RowsTell
  <2>3. Diverged' => Diverged
    BY <1>1 DEF Diverged
  <2> QED BY <1>1, <2>1, <2>2, <2>3 DEF TrainerInv, DivergenceIsLogged
<1>6. SavesAreLogged'
  <2> SUFFICES ASSUME NEW s \in saved
               PROVE  /\ s.step <= Len(rows')
                      /\ s.weights = "nan" => \E i \in 1..s.step : nonfinite(rows'[i])
    BY <1>1 DEF SavesAreLogged
  <2>1. /\ s.step \in Nat /\ s.step <= Len(rows)
        /\ s.weights = "nan" => \E i \in 1..s.step : nonfinite(rows[i])
    BY DEF TrainerInv, TypeOK, SavesAreLogged
  <2>2. Len(rows) \in Nat /\ DOMAIN rows = 1..Len(rows)
    BY <1>2
  <2>3. \A i \in 1..s.step : rows'[i] = rows[i]
    BY <1>3, <2>1, <2>2
  <2> QED BY <1>3, <2>1, <2>2, <2>3
<1>7. GroupIsChecked' /\ FaultsExplain'
  BY <1>1 DEF TrainerInv, GroupIsChecked, FaultsExplain, LonePpo, batch
<1> QED BY <1>4, <1>5, <1>6, <1>7 DEF TrainerInv

\* An adapter is saved with the weights of the last row.
LEMMA SaveStep ==
  ASSUME TrainerInv, Save
  PROVE  TrainerInv'
<1> DEFINE new == [step |-> step, weights |-> weights]
<1>1. /\ pc = "save" /\ saved' \in {saved, saved \cup {new}}
      /\ UNCHANGED <<launch, checks, step, weights, m, rows, stability_failures, faults>>
      /\ pc' \in {"after", "rollout", "done"}
  BY DEF Save, Go
<1>2. new \in [step : Nat, weights : {"finite", "nan"}] /\ Len(rows) \in Nat
      /\ DOMAIN rows = 1..Len(rows) /\ step = Len(rows)
  BY DEF TrainerInv, TypeOK
<1>3. TypeOK'
  BY <1>1, <1>2 DEF TrainerInv, TypeOK
<1>4. DivergenceIsLogged'
  BY <1>1 DEF TrainerInv, DivergenceIsLogged, Diverged, RowsTell
<1>5. weights = "nan" => \E i \in 1..step : nonfinite(rows[i])
  BY <1>1, <1>2 DEF TrainerInv, DivergenceIsLogged, Diverged, RowsTell
<1>6. SavesAreLogged'
  <2> SUFFICES ASSUME NEW s \in saved'
               PROVE  /\ s.step <= Len(rows)
                      /\ s.weights = "nan" => \E i \in 1..s.step : nonfinite(rows[i])
    BY <1>1 DEF SavesAreLogged
  <2>1. CASE s \in saved
    BY <2>1 DEF TrainerInv, SavesAreLogged
  <2>2. CASE s = new
    BY <1>2, <1>5, <2>2
  <2> QED BY <1>1, <2>1, <2>2
<1>7. GroupIsChecked' /\ FaultsExplain'
  BY <1>1 DEF TrainerInv, GroupIsChecked, FaultsExplain, LonePpo, batch
<1> QED BY <1>3, <1>4, <1>6, <1>7 DEF TrainerInv

\* A check is recorded; past the first one the group has at least two samples.
LEMMA PreflightStep ==
  ASSUME TrainerInv, Preflight
  PROVE  TrainerInv'
<1> DEFINE name == Checks[Len(checks) + 1]
           c    == [name |-> name, ok |-> verdict(name), skipped |-> name \in launch.unchecked]
           Check == [name : Range(Checks), ok : BOOLEAN, skipped : BOOLEAN]
<1>1. /\ pc = "preflight" /\ checks' = Append(checks, c)
      /\ UNCHANGED <<launch, step, weights, rows, stability_failures, saved, faults>>
  BY DEF Preflight, Go, log
<1>2. /\ ~verdict(name) => pc' = "refused"
      /\ pc' \in {"refused", "rollout", "before", "preflight"}
      /\ pc' = "preflight" => Len(checks') # Len(Checks)
  BY DEF Preflight, Go, First
<1>3. /\ checks \in Seq(Check) /\ Len(checks) \in Nat /\ Len(checks) < Len(Checks)
      /\ Len(Checks) = 6 /\ DOMAIN Checks = 1..6
  BY <1>1 DEF TrainerInv, TypeOK, GroupIsChecked, Checks
<1>4. name \in Range(Checks)
  BY <1>3 DEF Range
<1>5. verdict(name) \in BOOLEAN
  BY DEF verdict
<1>6. c \in Check
  BY <1>4, <1>5
<1>7. checks' \in Seq(Check) /\ Len(checks') = Len(checks) + 1
  BY <1>1, <1>3, <1>6
<1>8. Len(checks) = 0 => name = "config"
  BY DEF Checks
<1>9. verdict(name) /\ name = "config" => launch.num_samples >= 2
  BY DEF verdict
<1>10. GroupIsChecked'
  BY <1>1, <1>2, <1>3, <1>7, <1>8, <1>9 DEF TrainerInv, GroupIsChecked
<1>11. TypeOK' /\ DivergenceIsLogged' /\ SavesAreLogged' /\ FaultsExplain'
  BY <1>1, <1>2, <1>7, QuietStep DEF TrainerInv, TypeOK
<1> QED BY <1>10, <1>11 DEF TrainerInv

\* The invariant holds of every launch and is kept by every step of the process.
THEOREM TrainerInvariant == Spec => []TrainerInv
<1>1. Init => TrainerInv
  <2> SUFFICES ASSUME Init PROVE TrainerInv
    OBVIOUS
  <2>1. TypeOK
    BY DEF Init, TypeOK
  <2>2. pc # "log" /\ Len(checks) = 0
    BY DEF Init, First
  <2>3. DivergenceIsLogged /\ SavesAreLogged /\ FaultsExplain
    BY <2>2 DEF Init, DivergenceIsLogged, Diverged, SavesAreLogged, FaultsExplain
  <2>4. GroupIsChecked
    BY <2>2 DEF GroupIsChecked, Checks
  <2> QED BY <2>1, <2>3, <2>4 DEF TrainerInv
<1>2. TrainerInv /\ [Next]_vars => TrainerInv'
  <2> SUFFICES ASSUME TrainerInv, [Next]_vars PROVE TrainerInv'
    OBVIOUS
  <2>1. ASSUME /\ UNCHANGED <<launch, checks, step, weights, rows, stability_failures, saved>>
               /\ pc # "log" /\ pc' \notin {"log", "preflight"}
               /\ faults' \in {faults, faults + 1}
        PROVE  TrainerInv'
    <3>1. GroupIsChecked'
      BY <2>1 DEF TrainerInv, GroupIsChecked
    <3>2. TypeOK' /\ DivergenceIsLogged' /\ SavesAreLogged' /\ FaultsExplain'
      BY <2>1, QuietStep DEF TrainerInv, TypeOK
    <3> QED BY <3>1, <3>2 DEF TrainerInv
  <2>2. CASE BeforeEval \/ AfterEval \/ generate_rollouts \/ GenerateRaises
    BY <2>1, <2>2 DEF BeforeEval, AfterEval, generate_rollouts, GenerateRaises, heldout_eval, Go, log
  <2>3. CASE OutOfMemory
    BY <2>1, <2>3 DEF OutOfMemory, Go, log
  <2>4. CASE UNCHANGED vars
    BY <2>4 DEF vars, log, TrainerInv, TypeOK, DivergenceIsLogged, Diverged, RowsTell,
       SavesAreLogged, GroupIsChecked, FaultsExplain, LonePpo, batch, nonfinite
  <2> QED BY <2>2, <2>3, <2>4, PreflightStep, OptimizeStep, AppendRowStep, SaveStep DEF Next, Ended
<1> QED BY <1>1, <1>2, PTL DEF Spec

\* A run that diverged never looks healthy: as soon as the metrics of the step
\* are appended, the alert check of the rows on disk exits with 2, and no
\* adapter with non-finite weights is written before such a row. The learners
\* differ in what they skip, and _step() lets a non-finite gradient through:
\* in each case the gradient norm that is logged tells.
THEOREM DivergenceIsNeverSilent == Spec => []NoSilentDivergence
<1>1. TrainerInv => NoSilentDivergence
  <2> SUFFICES ASSUME TrainerInv PROVE NoSilentDivergence
    OBVIOUS
  <2>1. ASSUME weights = "nan" \/ stability_failures > 0, pc # "log"
        PROVE  exit_code(check_run(rows, 0, NAN, NAN)) = 2
    <3>1. PICK i \in DOMAIN rows : nonfinite(rows[i])
      BY <2>1 DEF TrainerInv, DivergenceIsLogged, Diverged, RowsTell
    <3> QED BY <3>1, NonfiniteIsCritical
  <2> QED BY <2>1 DEF NoSilentDivergence, TrainerInv, SavesAreLogged
<1> QED BY <1>1, TrainerInvariant, PTL

\* A launch that preflight cleared diverges only by a fault: with at least two
\* samples in a group no batch has one element, so the deviation that PPO
\* divides by is defined.
THEOREM ClearedLaunchesAreStable == Spec => []ClearedRunIsStable
<1>1. TrainerInv => ClearedRunIsStable
  <2> SUFFICES ASSUME TrainerInv, Len(checks) = Len(Checks), faults = 0
               PROVE  weights = "finite" /\ stability_failures = 0
    BY DEF ClearedRunIsStable
  <2>1. launch.num_samples >= 2
    BY DEF TrainerInv, GroupIsChecked, Checks
  <2>2. launch.prompts_per_step \in Nat \ {0} /\ launch.num_samples \in Nat
    BY TrainerAssumption DEF TrainerInv, TypeOK
  <2>3. batch # 1
    BY <2>1, <2>2 DEF batch
  <2> QED BY <2>3 DEF TrainerInv, FaultsExplain, LonePpo
<1> QED BY <1>1, TrainerInvariant, PTL

-----------------------------------------------------------------------------
(* The score of an episode.                                                 *)

\* An episode of fewer turns than can hide a wrong item in the rounding of the
\* score to four digits; ShopEnv() allows 8 turns unless told otherwise.
FewTurns == max_turns < 7999

\* A cart has no more items than turns were taken.
EnvInv ==
  /\ goal \in Goals /\ cart \in Seq(Skus)
  /\ turn \in Nat /\ Len(cart) <= turn /\ turn <= max_turns
  /\ ~done => turn < max_turns

\* reset() starts with an empty cart.
LEMMA EnvInvInit == goal \in Goals /\ reset => EnvInv
<1> SUFFICES ASSUME goal \in Goals, reset PROVE EnvInv
  OBVIOUS
<1>1. cart = <<>> /\ turn = 0 /\ max_turns \in Nat \ {0} /\ Len(<<>>) = 0 /\ <<>> \in Seq(Skus)
  BY EnvAssumption DEF reset
<1> QED BY <1>1 DEF EnvInv

\* list.remove() makes a list shorter by one.
LEMMA Removals ==
  ASSUME NEW s \in Seq(Skus), NEW i \in DOMAIN s
  PROVE  RemoveAt(s, i) \in Seq(Skus) /\ Len(RemoveAt(s, i)) = Len(s) - 1
<1>1. i \in 1..Len(s) /\ Len(s) \in Nat
  OBVIOUS
<1> DEFINE a == SubSeq(s, 1, i - 1) b == SubSeq(s, i + 1, Len(s))
<1>2. a \in Seq(Skus) /\ Len(a) = i - 1
  BY <1>1, SubSeqProperties
<1>3. b \in Seq(Skus) /\ Len(b) = Len(s) - i
  BY <1>1, SubSeqProperties
<1>4. RemoveAt(s, i) = a \o b
  BY DEF RemoveAt
<1> HIDE DEF a, b
<1>5. a \o b \in Seq(Skus) /\ Len(a \o b) = Len(a) + Len(b)
  BY <1>2, <1>3, ConcatProperties
<1> QED BY <1>1, <1>2, <1>3, <1>4, <1>5

\* Every action takes a turn, and adds at most one item.
LEMMA EnvInvNext == EnvInv /\ [EnvNext]_envVars => EnvInv'
<1> SUFFICES ASSUME EnvInv, [EnvNext]_envVars PROVE EnvInv'
  OBVIOUS
<1>1. CASE UNCHANGED envVars
  BY <1>1 DEF envVars, EnvInv
<1>2. ASSUME TakeTurn, cart' \in Seq(Skus), Len(cart') <= Len(cart) + 1 PROVE EnvInv'
  <2>1. Len(cart) \in Nat /\ Len(cart') \in Nat /\ max_turns \in Nat
    BY <1>2, EnvAssumption DEF EnvInv
  <2>2. /\ turn \in Nat /\ Len(cart) <= turn /\ turn < max_turns /\ turn' = turn + 1
        /\ done' = (checked_out' \/ turn + 1 >= max_turns) /\ goal' = goal
    BY <1>2 DEF EnvInv, TakeTurn
  <2>3. turn' \in Nat /\ Len(cart') <= turn' /\ turn' <= max_turns
    BY <1>2, <2>1, <2>2
  <2>4. turn + 1 >= max_turns => done'
    BY <2>2, Zenon
  <2>5. ~done' => turn' < max_turns
    BY <2>1, <2>2, <2>4
  <2> QED BY <1>2, <2>2, <2>3, <2>5 DEF EnvInv
<1>3. ASSUME NEW sku \in Skus, AddToCart(sku) PROVE EnvInv'
  <2>1. cart' \in Seq(Skus) /\ Len(cart') = Len(cart) + 1
    BY <1>3 DEF AddToCart, EnvInv
  <2>2. Len(cart) \in Nat
    BY DEF EnvInv
  <2> QED BY <1>2, <1>3, <2>1, <2>2 DEF AddToCart
<1>4. ASSUME NEW sku \in Skus, RemoveFromCart(sku) PROVE EnvInv'
  <2>1. PICK i \in DOMAIN cart : cart' = RemoveAt(cart, i)
    BY <1>4 DEF RemoveFromCart
  <2>2. cart' \in Seq(Skus) /\ Len(cart') = Len(cart) - 1 /\ Len(cart) \in Nat
    BY <2>1, Removals DEF EnvInv
  <2> QED BY <1>2, <1>4, <2>2 DEF RemoveFromCart
<1>5. CASE (\E crit \in Criteria : ApplyFilter(crit)) \/ Checkout \/ Invalid
  <2>1. cart' = cart /\ TakeTurn
    BY <1>5 DEF ApplyFilter, Checkout, Invalid
  <2>2. Len(cart) \in Nat /\ cart \in Seq(Skus)
    BY DEF EnvInv
  <2> QED BY <1>2, <2>1, <2>2
<1> QED BY <1>1, <1>3, <1>4, <1>5 DEF EnvNext

\* The quotient of a rounded share.
LEMMA Rounding ==
  ASSUME NEW x \in Nat, NEW d \in Nat \ {0}, x < 10001 * d
  PROVE  x \div d \in Nat /\ x \div d <= 10000 /\ (x \div d = 10000 <=> x >= 10000 * d)
<1> DEFINE q == x \div d
<1>1. q \in Int /\ d * q <= x /\ x < d * (q + 1)
  OBVIOUS
<1> HIDE DEF q
<1>2. ASSUME q < 0 PROVE FALSE
  <2>1. d * (q + 1) <= 0
    BY <1>1, <1>2
  <2> QED BY <1>1, <2>1
<1>3. ASSUME q > 10000 PROVE FALSE
  <2>1. d * q >= d * 10001
    BY <1>1, <1>3
  <2> QED BY <1>1, <2>1
<1>4. ASSUME q < 10000, x >= 10000 * d PROVE FALSE
  <2>1. d * (q + 1) <= d * 10000
    BY <1>1, <1>4
  <2> QED BY <1>1, <1>4, <2>1
<1>5. q = 10000 => x >= 10000 * d
  BY <1>1
<1>6. q \in Nat /\ q <= 10000 /\ (q = 10000 <=> x >= 10000 * d)
  BY <1>1, <1>2, <1>3, <1>4, <1>5
<1> QED BY <1>6 DEF q

\* How close the size of the cart comes to what was asked for.
Close(n, t) == IF Distance(n, t) > t THEN 0 ELSE t - Distance(n, t)

\* A cart of the wrong size is off by more than the rounding.
LEMMA Closeness ==
  ASSUME NEW n \in Nat \ {0}, n < 7999, NEW t \in Nat \ {0}
  PROVE  /\ Close(n, t) \in 0..t
         /\ n = t => Close(n, t) = t
         /\ n # t => t < 8000 * (t - Close(n, t))
BY DEF Close, Distance

\* The score of n items, good of which satisfy the goal. With n and the wanted
\* number t, it loses 0.6 / n at least for a wrong item, and 0.4 / t for a wrong
\* size; the products are named, so that the rest is linear.
LEMMA Blends ==
  ASSUME NEW n \in Nat \ {0}, n < 7999, NEW good \in 0..n, NEW target \in Nat
  PROVE  /\ Blend(good, n, target) \in Nat /\ Blend(good, n, target) <= 10000
         /\ Blend(good, n, target) = 10000 <=> good = n /\ target \in {0, n}
<1>0. (IF target = 0 THEN n ELSE target) \in Nat \ {0}
  OBVIOUS
<1>1. PICK t \in Nat \ {0} : t = IF target = 0 THEN n ELSE target
  BY <1>0
<1>a. /\ Close(n, t) \in 0..t
      /\ n = t => Close(n, t) = t
      /\ n # t => t < 8000 * (t - Close(n, t))
  BY Closeness
<1>2. PICK b \in 0..t : b = Close(n, t)
  BY <1>a
<1>b. (n = t => b = t) /\ (n # t => t < 8000 * (t - b))
  BY <1>a, <1>2
<1>3. PICK P \in Nat \ {0} : P = n * t
  OBVIOUS
<1>4. PICK A \in Nat : A = good * t
  OBVIOUS
<1>5. PICK B \in Nat : B = n * b
  OBVIOUS
<1>6. /\ A <= P /\ (good = n => A = P)
      /\ good # n => A <= P - t
      /\ P < 12000 * t
  <2>1. A <= P /\ (good = n => A = P)
    BY <1>3, <1>4
  <2>2. good # n => good * t <= (n - 1) * t
    OBVIOUS
  <2>3. (n - 1) * t = n * t - t
    OBVIOUS
  <2>4. n * t < 12000 * t
    OBVIOUS
  <2> QED BY <1>3, <1>4, <2>1, <2>2, <2>3, <2>4
<1>7. /\ B <= P /\ (n = t => B = P)
      /\ n # t => P < 8000 * (P - B)
  <2>1. B <= P /\ (n = t => B = P)
    BY <1>3, <1>5, <1>b
  <2>2. ASSUME n # t PROVE P < 8000 * (P - B)
    <3>1. t < 8000 * (t - b)
      BY <2>2, <1>b
    <3>2. n * t < n * (8000 * (t - b))
      BY <3>1
    <3>3. n * (8000 * (t - b)) = 8000 * (n * t - n * b)
      OBVIOUS
    <3> QED BY <1>3, <1>5, <3>2, <3>3
  <2> QED BY <2>1, <2>2
<1> DEFINE num == 6 * A + 4 * B
           den == 10 * P
           x   == 10000 * num + den \div 2
<1>8. Blend(good, n, target) = x \div den
  <2>1. 6 * good * t = 6 * A /\ 4 * n * b = 4 * B /\ 10 * n * t = 10 * P
    BY <1>3, <1>4, <1>5
  <2>2. Blend(good, n, target) =
          (10000 * (6 * good * t + 4 * n * b) + (10 * n * t) \div 2) \div (10 * n * t)
    BY <1>1, <1>2 DEF Blend, Close
  <2> QED BY <2>1, <2>2
<1>9. x \in Nat /\ den \in Nat \ {0} /\ x = 10000 * num + 5 * P
  OBVIOUS
<1>10. x < 10001 * den
  BY <1>6, <1>7, <1>9
<1>11. good = n /\ n = t => x >= 10000 * den
  BY <1>6, <1>7, <1>9
<1>12. ~(good = n /\ n = t) => x < 10000 * den
  BY <1>6, <1>7, <1>9
<1>13. n = t <=> target \in {0, n}
  BY <1>1
<1> HIDE DEF x, den
<1>14. /\ x \div den \in Nat /\ x \div den <= 10000
       /\ x \div den = 10000 <=> x >= 10000 * den
  BY <1>9, <1>10, Rounding
<1>15. x >= 10000 * den <=> good = n /\ n = t
  BY <1>9, <1>11, <1>12
<1> QED BY <1>8, <1>13, <1>14, <1>15

\* A reachable purchase is scored fairly.
LEMMA PurchaseIsFair ==
  ASSUME FewTurns, EnvInv
  PROVE  RewardIsFair
<1>1. cart \in Seq(Skus) /\ Len(cart) \in Nat /\ Len(cart) < 7999 /\ DOMAIN cart = 1..Len(cart)
  BY EnvAssumption DEF EnvInv, FewTurns
<1>2. /\ IsFiniteSet(DOMAIN cart) /\ Cardinality(DOMAIN cart) = Len(cart)
      /\ Satisfying \in SUBSET DOMAIN cart
  <2>1. 1 \in Int /\ Len(cart) \in Int
    BY <1>1
  <2>2. /\ IsFiniteSet(1..Len(cart))
        /\ Cardinality(1..Len(cart)) = IF 1 > Len(cart) THEN 0 ELSE Len(cart) - 1 + 1
    <3>1. \A a, b \in Int : /\ IsFiniteSet(a..b)
                            /\ Cardinality(a..b) = IF a > b THEN 0 ELSE b - a + 1
      BY FS_Interval
    <3> QED BY <2>1, <3>1
  <2>3. (IF 1 > Len(cart) THEN 0 ELSE Len(cart) - 1 + 1) = Len(cart)
    BY <1>1
  <2> QED BY <1>1, <2>2, <2>3 DEF Satisfying
<1>3. /\ Cardinality(Satisfying) \in 0..Len(cart)
      /\ Cardinality(Satisfying) = Len(cart) <=> Satisfying = DOMAIN cart
  <2>1. /\ IsFiniteSet(Satisfying) /\ Cardinality(Satisfying) <= Cardinality(DOMAIN cart)
        /\ Cardinality(DOMAIN cart) = Cardinality(Satisfying) => DOMAIN cart = Satisfying
    BY <1>2, FS_Subset
  <2>2. Cardinality(Satisfying) \in Nat
    BY <2>1, FS_CardinalityType
  <2> QED BY <1>1, <1>2, <2>1, <2>2
<1>4. goal.target_items \in Nat
  BY EnvAssumption DEF EnvInv
<1>5. CASE ~checked_out \/ cart = <<>>
  <2>1. episode_reward = 0
    BY <1>5 DEF episode_reward
  <2> QED BY <1>5, <2>1 DEF RewardIsFair
<1>6. CASE checked_out /\ cart # <<>>
  <2>1. Len(cart) \in Nat \ {0} /\ Len(cart) < 7999
    BY <1>1, <1>6
  <2>2. episode_reward = Blend(Cardinality(Satisfying), Len(cart), goal.target_items)
    BY <1>6 DEF episode_reward
  <2>3. /\ episode_reward \in Nat /\ episode_reward <= 10000
        /\ episode_reward = 10000 <=> /\ Cardinality(Satisfying) = Len(cart)
                                      /\ goal.target_items \in {0, Len(cart)}
    <3>1. PICK n \in Nat \ {0} : n = Len(cart)
      BY <2>1
    <3>0. n < 7999
      BY <2>1, <3>1
    <3>2. PICK good \in 0..n : good = Cardinality(Satisfying)
      BY <1>3, <3>1
    <3>3. PICK target \in Nat : target = goal.target_items
      BY <1>4
    <3>4. /\ Blend(good, n, target) \in Nat /\ Blend(good, n, target) <= 10000
          /\ Blend(good, n, target) = 10000 <=> good = n /\ target \in {0, n}
      BY <3>0, Blends
    <3>5. episode_reward = Blend(good, n, target)
      BY <2>2, <3>1, <3>2, <3>3
    <3> QED BY <3>1, <3>2, <3>3, <3>4, <3>5
  <2>4. episode_reward \in 0..10000
    <3>1. episode_reward \in Nat /\ episode_reward <= 10000
      BY <2>3
    <3> QED BY <3>1, SMTT(30)
  <2>5. episode_reward = 10000 <=> /\ checked_out /\ cart # <<>> /\ Satisfying = DOMAIN cart
                                   /\ goal.target_items \in {0, Len(cart)}
    BY <1>3, <1>6, <2>3
  <2> QED BY <2>4, <2>5, PTL DEF RewardIsFair
<1> QED BY <1>5, <1>6

\* episode_reward() is in [0, 1] and 1 exactly for a purchase of the wanted
\* number of items that all satisfy the goal, for every catalog and goal and
\* however the cart came about. The score is rounded to four digits: one wrong
\* item among 12000, or 7999 items where 8000 were wanted, would score 1 too.
THEOREM ShoppingIsScoredFairly ==
  ASSUME FewTurns
  PROVE  EnvSpec => []RewardIsFair
<1>1. EnvInv => RewardIsFair
  BY PurchaseIsFair
<1> QED BY <1>1, EnvInvInit, EnvInvNext, PTL DEF EnvSpec

-----------------------------------------------------------------------------
(* The money of an episode.                                                 *)

\* mu weighs every part of the list c by the prices of its items.
Weighs(mu, c) ==
  /\ mu \in [SUBSET DOMAIN c -> Int] /\ mu[{}] = 0
  /\ \A s \in SUBSET DOMAIN c : \A i \in s : mu[s] = Product[c[i]].price + mu[s \ {i}]

\* The fold of the cart, spelled out.
LEMMA SpentUnfolds ==
  ASSUME NEW mu, Weighs(mu, cart)
  PROVE  \E g : /\ g = [s \in SUBSET DOMAIN cart |->
                          IF s = {} THEN 0
                          ELSE Product[cart[CHOOSE x \in s : TRUE]].price + g[s \ {CHOOSE x \in s : TRUE}]]
                /\ Spent = g[DOMAIN cart]
<1> DEFINE Def(g) == [s \in SUBSET DOMAIN cart |->
                          IF s = {} THEN 0
                          ELSE Product[cart[CHOOSE x \in s : TRUE]].price + g[s \ {CHOOSE x \in s : TRUE}]]
<1>1. Spent = (CHOOSE g : g = Def(g))[DOMAIN cart]
  BY DEF Spent, FoldSeq, FoldFunction, FoldFunctionOnSet, MapThenFoldSet
<1>2. mu = Def(mu)
  <2>1. ASSUME NEW s \in SUBSET DOMAIN cart
        PROVE mu[s] = IF s = {} THEN 0
                      ELSE Product[cart[CHOOSE x \in s : TRUE]].price + mu[s \ {CHOOSE x \in s : TRUE}]
    <3>1. CASE s = {}
      BY <3>1 DEF Weighs
    <3>2. CASE s # {}
      <4>1. (CHOOSE x \in s : TRUE) \in s
        BY <3>2
      <4> QED BY <3>2, <4>1 DEF Weighs
    <3> QED BY <3>1, <3>2
  <2> QED BY <2>1 DEF Weighs
<1> HIDE DEF Def
<1>3. (CHOOSE g : g = Def(g)) = Def(CHOOSE g : g = Def(g))
  BY <1>2, Zenon
<1> QED BY <1>1, <1>3 DEF Def

\* Folding a list in any order gives what the whole list weighs: a smallest
\* part on which the two differ would have an item to take out.
LEMMA SpentIsWeight ==
  ASSUME cart \in Seq(Skus), NEW mu, Weighs(mu, cart)
  PROVE  Spent = mu[DOMAIN cart]
<1> DEFINE D == DOMAIN cart
<1>1. PICK g : /\ g = [s \in SUBSET D |->
                        IF s = {} THEN 0
                        ELSE Product[cart[CHOOSE x \in s : TRUE]].price + g[s \ {CHOOSE x \in s : TRUE}]]
               /\ Spent = g[D]
  BY SpentUnfolds
<1>2. IsFiniteSet(D)
  <2>1. D = 1..Len(cart) /\ Len(cart) \in Int
    OBVIOUS
  <2>2. \A a, b \in Int : IsFiniteSet(a..b)
    BY FS_Interval
  <2> QED BY <2>1, <2>2
<1> HIDE DEF D
<1> DEFINE T == {s \in SUBSET D : g[s] # mu[s]}
<1>3. ASSUME T # {} PROVE FALSE
  <2>1. T \subseteq FiniteSubsetsOf(D)
    BY <1>2, FS_FiniteSubsetsOfFinite
  <2>2. IsWellFoundedOn(StrictSubsetOrdering(D), FiniteSubsetsOf(D))
    BY FS_StrictSubsetOrderingWellFounded
  <2> HIDE DEF T
  <2>3. PICK s \in T : \A y \in T : ~(<<y, s>> \in StrictSubsetOrdering(D))
    BY <1>3, <2>1, <2>2, WFMin
  <2> USE DEF T
  <2>4. s # {}
    BY <1>1, <2>3 DEF Weighs, D
  <2> DEFINE x == CHOOSE x \in s : TRUE
  <2>5. x \in s
    BY <2>4
  <2>6. g[s] = Product[cart[x]].price + g[s \ {x}]
    BY <1>1, <2>4
  <2> HIDE DEF x
  <2>7. mu[s] = Product[cart[x]].price + mu[s \ {x}]
    BY <2>5 DEF Weighs, D
  <2>8. <<s \ {x}, s>> \in StrictSubsetOrdering(D)
    BY <2>5 DEF StrictSubsetOrdering
  <2>9. g[s \ {x}] = mu[s \ {x}]
    BY <2>3, <2>8
  <2> QED BY <2>6, <2>7, <2>9
<1> QED BY <1>1, <1>3 DEF D

\* One more item adds its price ...
LEMMA AppendWeighs ==
  ASSUME NEW c \in Seq(Skus), NEW sku \in Skus, NEW mu, Weighs(mu, c)
  PROVE  \E nu : /\ Weighs(nu, Append(c, sku))
                 /\ nu[DOMAIN Append(c, sku)] = mu[DOMAIN c] + Product[sku].price
<1> DEFINE n == Len(c) + 1
           p == Product[sku].price
           d == Append(c, sku)
           nu == [s \in SUBSET (1..n) |-> mu[s \ {n}] + (IF n \in s THEN p ELSE 0)]
<1>1. /\ DOMAIN c = 1..(n - 1) /\ n \in Nat \ {0} /\ DOMAIN d = 1..n /\ n \notin DOMAIN c
      /\ d[n] = sku /\ \A i \in DOMAIN c : d[i] = c[i]
  OBVIOUS
<1>2. p \in Int
  BY CatalogAssumption
<1> HIDE DEF n, p, d
<1>3. ASSUME NEW s \in SUBSET (1..n) PROVE s \ {n} \in SUBSET DOMAIN c /\ mu[s \ {n}] \in Int
  BY <1>1 DEF Weighs
<1>4. nu \in [SUBSET DOMAIN d -> Int]
  <2>1. ASSUME NEW s \in SUBSET (1..n) PROVE mu[s \ {n}] + (IF n \in s THEN p ELSE 0) \in Int
    <3>1. mu[s \ {n}] \in Int
      BY <1>3
    <3> QED BY <1>2, <3>1
  <2>2. nu \in [SUBSET (1..n) -> Int]
    BY <2>1
  <2> QED BY <1>1, <2>2, Zenon
<1>5. nu[{}] = 0
  <2>1. {} \in SUBSET (1..n) /\ {} \ {n} = {} /\ n \notin {}
    OBVIOUS
  <2>2. nu[{}] = mu[{}] + 0
    BY <2>1
  <2> QED BY <2>2 DEF Weighs
<1>6. ASSUME NEW s \in SUBSET DOMAIN d, NEW i \in s PROVE nu[s] = Product[d[i]].price + nu[s \ {i}]
  <2>0. s \in SUBSET (1..n) /\ s \ {i} \in SUBSET (1..n)
    BY <1>1
  <2>1. CASE i = n
    <3>1. nu[s] = mu[s \ {n}] + p /\ nu[s \ {i}] = mu[(s \ {n}) \ {n}] + 0
      BY <2>0, <2>1
    <3>2. mu[(s \ {n}) \ {n}] = mu[s \ {n}] /\ mu[s \ {n}] \in Int
      <4>1. (s \ {n}) \ {n} = s \ {n}
        OBVIOUS
      <4> QED BY <1>3, <2>0, <4>1, Zenon
    <3>3. Product[d[i]].price = p
      BY <1>1, <2>1 DEF p
    <3> HIDE DEF nu
    <3> QED BY <1>2, <3>1, <3>2, <3>3
  <2>2. CASE i # n
    <3> DEFINE e == IF n \in s THEN p ELSE 0
    <3>1. i \in s \ {n} /\ i \in DOMAIN c /\ d[i] = c[i]
      BY <1>1, <1>3, <2>0, <2>2
    <3>2. mu[s \ {n}] = Product[c[i]].price + mu[(s \ {n}) \ {i}]
      BY <1>3, <2>0, <3>1 DEF Weighs
    <3>3. mu[(s \ {n}) \ {i}] = mu[(s \ {i}) \ {n}] /\ (n \in s <=> n \in s \ {i})
      <4>1. (s \ {n}) \ {i} = (s \ {i}) \ {n} /\ (n \in s <=> n \in s \ {i})
        BY <2>2
      <4> QED BY <4>1, Zenon
    <3>4. nu[s] = mu[s \ {n}] + e /\ nu[s \ {i}] = mu[(s \ {i}) \ {n}] + e
      BY <2>0, <3>3
    <3>5. mu[s \ {n}] \in Int /\ mu[(s \ {i}) \ {n}] \in Int /\ e \in Int
      <4>1. mu[s \ {n}] \in Int /\ mu[(s \ {i}) \ {n}] \in Int
        BY <1>3, <2>0, Zenon
      <4>2. e \in Int
        BY <1>2
      <4> QED BY <4>1, <4>2
    <3>6. Product[c[i]].price \in Int
      <4>1. c[i] \in Skus
        BY <3>1
      <4> QED BY <4>1, CatalogAssumption
    <3> HIDE DEF e, nu
    <3> QED BY <3>1, <3>2, <3>3, <3>4, <3>5, <3>6
  <2> QED BY <2>1, <2>2
<1>7. nu[DOMAIN d] = mu[DOMAIN c] + p
  <2>1. (1..n) \ {n} = DOMAIN c /\ n \in 1..n
    BY <1>1
  <2> QED BY <1>1, <2>1
<1> HIDE DEF nu
<1>8. Weighs(nu, d)
  BY <1>4, <1>5, <1>6 DEF Weighs
<1> QED BY <1>7, <1>8 DEF d, p

\* list.remove() leaves the others in their order.
LEMMA RemovalElements ==
  ASSUME NEW c \in Seq(Skus), NEW i \in DOMAIN c
  PROVE  /\ DOMAIN RemoveAt(c, i) = 1..(Len(c) - 1)
         /\ \A k \in 1..(Len(c) - 1) : RemoveAt(c, i)[k] = c[IF k < i THEN k ELSE k + 1]
<1>1. i \in 1..Len(c) /\ Len(c) \in Nat
  OBVIOUS
<1> DEFINE a == SubSeq(c, 1, i - 1) b == SubSeq(c, i + 1, Len(c))
<1>2. a \in Seq(Skus) /\ Len(a) = i - 1 /\ \A k \in 1..(i - 1) : a[k] = c[k]
  BY <1>1, SubSeqProperties
<1>3. b \in Seq(Skus) /\ Len(b) = Len(c) - i /\ \A k \in 1..(Len(c) - i) : b[k] = c[i + k]
  BY <1>1, SubSeqProperties
<1>4. RemoveAt(c, i) = a \o b
  BY DEF RemoveAt
<1> HIDE DEF a, b
<1>5. /\ DOMAIN (a \o b) = 1..(Len(c) - 1)
      /\ \A k \in 1..(Len(c) - 1) : (a \o b)[k] = IF k < i THEN a[k] ELSE b[k - (i - 1)]
  <2>1. /\ Len(a \o b) = Len(a) + Len(b) /\ a \o b \in Seq(Skus)
        /\ \A k \in 1..(Len(a) + Len(b)) :
             (a \o b)[k] = IF k <= Len(a) THEN a[k] ELSE b[k - Len(a)]
    BY <1>2, <1>3, ConcatProperties
  <2>2. Len(a) + Len(b) = Len(c) - 1 /\ DOMAIN (a \o b) = 1..Len(a \o b)
    BY <1>1, <1>2, <1>3, <2>1
  <2>3. \A k \in 1..(Len(c) - 1) : k <= Len(a) <=> k < i
    BY <1>1, <1>2
  <2> QED BY <1>2, <2>1, <2>2, <2>3
<1>6. ASSUME NEW k \in 1..(Len(c) - 1) PROVE (a \o b)[k] = c[IF k < i THEN k ELSE k + 1]
  <2>1. CASE k < i
    BY <1>1, <1>2, <1>5, <2>1
  <2>2. CASE ~(k < i)
    <3>1. k - (i - 1) \in 1..(Len(c) - i) /\ i + (k - (i - 1)) = k + 1
      BY <1>1, <2>2
    <3> QED BY <1>3, <1>5, <2>2, <3>1
  <2> QED BY <2>1, <2>2
<1> QED BY <1>4, <1>5, <1>6

\* ... and one item less gives its price back.
LEMMA RemoveWeighs ==
  ASSUME NEW c \in Seq(Skus), NEW i \in DOMAIN c, NEW mu, Weighs(mu, c)
  PROVE  \E nu : /\ Weighs(nu, RemoveAt(c, i))
                 /\ nu[DOMAIN RemoveAt(c, i)] = mu[DOMAIN c] - Product[c[i]].price
<1> DEFINE n == Len(c) - 1
           d == RemoveAt(c, i)
           Up(k) == IF k < i THEN k ELSE k + 1
           Lift(s) == {j \in DOMAIN c : \E k \in s : j = Up(k)}
           nu == [s \in SUBSET (1..n) |-> mu[Lift(s)]]
<1>1. /\ n \in Nat /\ DOMAIN c = 1..(n + 1) /\ i \in 1..(n + 1)
  OBVIOUS
<1>2. DOMAIN d = 1..n /\ \A k \in 1..n : d[k] = c[Up(k)]
  BY RemovalElements
<1>3. /\ \A k \in 1..n : Up(k) \in DOMAIN c /\ Up(k) # i
      /\ \A k, l \in 1..n : Up(k) = Up(l) => k = l
      /\ \A j \in DOMAIN c \ {i} : \E k \in 1..n : j = Up(k)
  <2>1. \A k \in 1..n : Up(k) \in DOMAIN c /\ Up(k) # i
    BY <1>1
  <2>2. \A k, l \in 1..n : Up(k) = Up(l) => k = l
    BY <1>1
  <2>3. ASSUME NEW j \in DOMAIN c \ {i} PROVE \E k \in 1..n : j = Up(k)
    <3>1. CASE j < i
      <4>1. j \in 1..n /\ j = Up(j)
        BY <1>1, <3>1
      <4> QED BY <4>1
    <3>2. CASE ~(j < i)
      <4>1. j - 1 \in 1..n /\ j = Up(j - 1)
        BY <1>1, <3>2
      <4> QED BY <4>1
    <3> QED BY <3>1, <3>2
  <2> QED BY <2>1, <2>2, <2>3
<1> HIDE DEF n, d, Up
<1>4. nu \in [SUBSET DOMAIN d -> Int]
  <2>1. ASSUME NEW s \in SUBSET (1..n) PROVE mu[Lift(s)] \in Int
    BY DEF Weighs
  <2>2. nu \in [SUBSET (1..n) -> Int]
    BY <2>1
  <2> QED BY <1>2, <2>2, Zenon
<1>5. nu[{}] = 0
  <2>1. Lift({}) = {} /\ {} \in SUBSET (1..n)
    OBVIOUS
  <2>2. nu[{}] = mu[Lift({})]
    BY <2>1
  <2>3. mu[Lift({})] = mu[{}]
    BY <2>1, Zenon
  <2> QED BY <2>2, <2>3 DEF Weighs
<1>6. ASSUME NEW s \in SUBSET DOMAIN d, NEW k \in s PROVE nu[s] = Product[d[k]].price + nu[s \ {k}]
  <2>0. s \in SUBSET (1..n) /\ s \ {k} \in SUBSET (1..n) /\ k \in 1..n
    BY <1>2
  <2>1. Lift(s) \ {Up(k)} = Lift(s \ {k})
    BY <1>3, <2>0
  <2>2. Up(k) \in Lift(s) /\ Lift(s) \in SUBSET DOMAIN c
    BY <1>3, <2>0
  <2>3. nu[s] = mu[Lift(s)] /\ nu[s \ {k}] = mu[Lift(s \ {k})]
    BY <2>0
  <2> HIDE DEF Lift, nu
  <2>4. mu[Lift(s)] = Product[c[Up(k)]].price + mu[Lift(s) \ {Up(k)}]
    BY <2>2 DEF Weighs
  <2>5. mu[Lift(s) \ {Up(k)}] = mu[Lift(s \ {k})]
    BY <2>1, Zenon
  <2>6. d[k] = c[Up(k)]
    BY <1>2, <2>0
  <2> QED BY <2>3, <2>4, <2>5, <2>6
<1>7. nu[DOMAIN d] = mu[DOMAIN c] - Product[c[i]].price
  <2>1. Lift(1..n) = DOMAIN c \ {i}
    BY <1>3
  <2>2. nu[1..n] = mu[Lift(1..n)]
    OBVIOUS
  <2> HIDE DEF Lift, nu
  <2>3. mu[DOMAIN c] = Product[c[i]].price + mu[DOMAIN c \ {i}]
    BY DEF Weighs
  <2>4. nu[DOMAIN d] = mu[DOMAIN c \ {i}]
    BY <1>2, <2>1, <2>2, Zenon
  <2>5. mu[DOMAIN c \ {i}] \in Int
    BY DEF Weighs
  <2>6. Product[c[i]].price \in Int
    <3>1. c[i] \in Skus
      OBVIOUS
    <3> QED BY <3>1, CatalogAssumption
  <2> QED BY <2>3, <2>4, <2>5, <2>6
<1> HIDE DEF nu
<1>8. Weighs(nu, d)
  BY <1>4, <1>5, <1>6 DEF Weighs
<1> QED BY <1>7, <1>8 DEF d

\* What is left of the budget is the budget less what the cart weighs.
Balanced ==
  /\ budget_remaining \in Nat
  /\ \E mu : Weighs(mu, cart) /\ budget_remaining + mu[DOMAIN cart] = goal.budget

\* Nothing is spent on an empty cart.
LEMMA BalancedInit == goal \in Goals /\ reset => Balanced
<1> SUFFICES ASSUME goal \in Goals, reset PROVE Balanced
  OBVIOUS
<1>1. goal.budget \in Nat /\ budget_remaining = goal.budget /\ cart = <<>>
  BY EnvAssumption DEF reset
<1> DEFINE mu == [s \in SUBSET DOMAIN cart |-> 0]
<1>2. DOMAIN cart = {}
  BY <1>1
<1>3. Weighs(mu, cart)
  BY <1>2 DEF Weighs
<1>4. mu[DOMAIN cart] = 0
  OBVIOUS
<1> HIDE DEF mu
<1> QED BY <1>1, <1>3, <1>4 DEF Balanced

\* An add moves the price from the budget to the cart, a removal moves it back.
LEMMA BalancedNext == EnvInv /\ Balanced /\ [EnvNext]_envVars => Balanced'
<1> SUFFICES ASSUME EnvInv, Balanced, [EnvNext]_envVars PROVE Balanced'
  OBVIOUS
<1>1. PICK mu : Weighs(mu, cart) /\ budget_remaining + mu[DOMAIN cart] = goal.budget
  BY DEF Balanced
<1>2. /\ budget_remaining \in Nat /\ mu[DOMAIN cart] \in Int /\ cart \in Seq(Skus)
      /\ \A sku \in Skus : Product[sku].price \in Nat
  <2>1. \A sku \in Skus : Product[sku].price \in Nat
    BY CatalogAssumption
  <2> QED BY <1>1, <2>1 DEF Balanced, EnvInv, Weighs
<1>3. ASSUME NEW sku \in Skus, AddToCart(sku) PROVE Balanced'
  <2>1. /\ cart' = Append(cart, sku) /\ goal' = goal
        /\ budget_remaining' = budget_remaining - Product[sku].price
        /\ Product[sku].price <= budget_remaining
    BY <1>3 DEF AddToCart, TakeTurn
  <2>2. PICK nu : /\ Weighs(nu, Append(cart, sku))
                  /\ nu[DOMAIN Append(cart, sku)] = mu[DOMAIN cart] + Product[sku].price
    BY <1>1, <1>2, AppendWeighs
  <2>3. Weighs(nu, cart') /\ nu[DOMAIN cart'] = mu[DOMAIN cart] + Product[sku].price
    BY <2>1, <2>2, Zenon
  <2>4. budget_remaining' \in Nat /\ budget_remaining' + nu[DOMAIN cart'] = goal'.budget
    <3>1. PICK p \in Nat, b \in Nat, q \in Int :
            p = Product[sku].price /\ b = budget_remaining /\ q = mu[DOMAIN cart]
      BY <1>2
    <3>2. /\ budget_remaining' = b - p /\ nu[DOMAIN cart'] = q + p /\ goal'.budget = b + q /\ p <= b
      BY <1>1, <2>1, <2>3, <3>1
    <3>3. b - p \in Nat /\ (b - p) + (q + p) = b + q
      BY <3>2
    <3> QED BY <3>2, <3>3
  <2> QED BY <2>3, <2>4 DEF Balanced, Weighs
<1>4. ASSUME NEW sku \in Skus, RemoveFromCart(sku) PROVE Balanced'
  <2>1. /\ goal' = goal /\ budget_remaining' = budget_remaining + Product[sku].price
    BY <1>4 DEF RemoveFromCart, TakeTurn
  <2>2. PICK i \in DOMAIN cart : cart[i] = sku /\ cart' = RemoveAt(cart, i)
    BY <1>4 DEF RemoveFromCart
  <2>3. PICK nu : /\ Weighs(nu, RemoveAt(cart, i))
                  /\ nu[DOMAIN RemoveAt(cart, i)] = mu[DOMAIN cart] - Product[cart[i]].price
    BY <1>1, <1>2, RemoveWeighs
  <2>4. Weighs(nu, cart') /\ nu[DOMAIN cart'] = mu[DOMAIN cart] - Product[sku].price
    BY <2>2, <2>3, Zenon
  <2>5. budget_remaining' \in Nat /\ budget_remaining' + nu[DOMAIN cart'] = goal'.budget
    <3>1. PICK p \in Nat, b \in Nat, q \in Int :
            p = Product[sku].price /\ b = budget_remaining /\ q = mu[DOMAIN cart]
      BY <1>2
    <3>2. /\ budget_remaining' = b + p /\ nu[DOMAIN cart'] = q - p /\ goal'.budget = b + q
      BY <1>1, <2>1, <2>4, <3>1
    <3>3. b + p \in Nat /\ (b + p) + (q - p) = b + q
      BY <3>1
    <3> QED BY <3>2, <3>3
  <2> QED BY <2>4, <2>5 DEF Balanced, Weighs
<1>5. CASE (\E crit \in Criteria : ApplyFilter(crit)) \/ Checkout \/ Invalid \/ UNCHANGED envVars
  <2>1. UNCHANGED <<budget_remaining, cart, goal>>
    BY <1>5 DEF ApplyFilter, Checkout, Invalid, TakeTurn, envVars
  <2> QED BY <2>1 DEF Balanced, Weighs
<1> QED BY <1>3, <1>4, <1>5 DEF EnvNext

\* No money is made or lost, for every catalog and goal and every order of adds
\* and removes: the cart, added up in any order, and what is left are together
\* the budget, so that a cart that is checked out is within it (shopenv.py).
THEOREM BudgetIsConserved == EnvSpec => []BudgetConserved
<1>1. EnvInv /\ Balanced => BudgetConserved
  <2> SUFFICES ASSUME EnvInv, Balanced PROVE BudgetConserved
    OBVIOUS
  <2>1. PICK mu : Weighs(mu, cart) /\ budget_remaining + mu[DOMAIN cart] = goal.budget
    BY DEF Balanced
  <2>2. Spent = mu[DOMAIN cart]
    BY <2>1, SpentIsWeight DEF EnvInv
  <2>3. budget_remaining >= 0
    BY DEF Balanced
  <2> QED BY <2>1, <2>2, <2>3 DEF BudgetConserved
<1> QED BY <1>1, BalancedInit, BalancedNext, EnvInvInit, EnvInvNext, PTL DEF EnvSpec

-----------------------------------------------------------------------------
(* The reward of an answer.                                                 *)

\* A line, and what is recorded of one product.
Lines   == [skus : SUBSET Cited, specs : SpecLines]
Records == [Fields -> Nat \cup {NONE}]

\* Line i states field f of product s.
States(i, s, f) == s \in said[i].skus /\ said[i].specs[f] # NONE

\* What is recorded is the first statement, if there is one.
FirstIsKept(s, f) ==
  \/ recs[s][f] = NONE /\ \A i \in DOMAIN said : ~States(i, s, f)
  \/ \E i \in DOMAIN said : /\ States(i, s, f) /\ recs[s][f] = said[i].specs[f]
                            /\ \A k \in 1..(i - 1) : ~States(k, s, f)

\* The inductive invariant of parse_response().
AnswerInv ==
  /\ said \in Seq(Lines)
  /\ has_language \in BOOLEAN /\ n_dims \in 0..2
  /\ DOMAIN recs \subseteq Cited
  /\ \A i \in DOMAIN said : said[i].skus \subseteq DOMAIN recs
  /\ \A s \in DOMAIN recs : recs[s] \in Records
  /\ \A s \in DOMAIN recs, f \in Fields : FirstIsKept(s, f)

\* A line states numbers, or nothing.
LEMMA SpecTypes ==
  ASSUME NEW specs \in SpecLines
  PROVE  \A f \in Fields : specs[f] \in Nat \cup {NONE}
BY RewardAssumption

\* Nothing is recorded before the first line.
LEMMA AnswerInvInit == AnswerInit => AnswerInv
BY DEF AnswerInit, AnswerInv

\* A line fills in what is not there yet.
LEMMA AnswerInvNext == AnswerInv /\ [AnswerNext]_answerVars => AnswerInv'
<1> SUFFICES ASSUME AnswerInv, [AnswerNext]_answerVars PROVE AnswerInv'
  OBVIOUS
<1>1. CASE UNCHANGED answerVars
  BY <1>1 DEF answerVars, AnswerInv, FirstIsKept, States
<1>2. CASE AnswerNext
  <2>1. PICK skus \in (SUBSET Cited) \ {{}}, specs \in SpecLines : ReadLine(skus, specs)
    BY <1>2 DEF AnswerNext
  <2>0. PICK n \in Nat \ {0} : n = Len(said) + 1
    BY DEF AnswerInv
  <2> DEFINE line == [skus |-> skus, specs |-> specs]
             Old(s) == IF s \in DOMAIN recs THEN recs[s] ELSE Blank
  <2>2. /\ line \in Lines /\ said' = Append(said, line) /\ said \in Seq(Lines)
        /\ UNCHANGED <<has_language, n_dims>>
    BY <2>1 DEF ReadLine, Lines, AnswerInv
  <2>3. /\ said' \in Seq(Lines) /\ DOMAIN said = 1..(n - 1) /\ DOMAIN said' = 1..n
        /\ said'[n] = line /\ \A i \in 1..(n - 1) : said'[i] = said[i]
    BY <2>0, <2>2
  <2>4. recs' = [s \in DOMAIN recs \cup skus |-> IF s \in skus THEN Merge(Old(s), specs) ELSE Old(s)]
    BY <2>1 DEF ReadLine
  <2>5. ASSUME NEW s \in DOMAIN recs'
        PROVE  /\ s \in DOMAIN recs \cup skus /\ Old(s) \in Records
               /\ recs'[s] = IF s \in skus THEN Merge(Old(s), specs) ELSE Old(s)
    BY <2>4 DEF AnswerInv, Blank, Records
  <2> HIDE DEF line, Old
  <2>6. ASSUME NEW s \in DOMAIN recs' PROVE recs'[s] \in Records
    BY <2>5, SpecTypes DEF Merge, Records
  <2>7. ASSUME NEW s, NEW f
        PROVE  /\ \A i \in 1..(n - 1) : States(i, s, f)' <=> States(i, s, f)
               /\ States(n, s, f)' <=> s \in skus /\ specs[f] # NONE
    BY <2>3 DEF States, line
  <2>8. ASSUME NEW s \in DOMAIN recs', NEW f \in Fields PROVE FirstIsKept(s, f)'
    <3>1. \/ Old(s)[f] = NONE /\ \A i \in 1..(n - 1) : ~States(i, s, f)
          \/ \E i \in 1..(n - 1) : /\ States(i, s, f) /\ Old(s)[f] = said[i].specs[f]
                                   /\ \A k \in 1..(i - 1) : ~States(k, s, f)
      <4>1. CASE s \in DOMAIN recs
        BY <4>1, <2>3 DEF AnswerInv, FirstIsKept, Old
      <4>2. CASE s \notin DOMAIN recs
        BY <4>2, <2>3 DEF AnswerInv, Blank, States, Old
      <4> QED BY <4>1, <4>2
    <3>2. CASE Old(s)[f] = NONE /\ \A i \in 1..(n - 1) : ~States(i, s, f)
      <4>1. recs'[s][f] = IF s \in skus THEN specs[f] ELSE NONE
        BY <2>5, <3>2 DEF Merge
      <4>2. \A i \in 1..(n - 1) : ~States(i, s, f)'
        BY <2>7, <3>2
      <4>3. CASE s \in skus /\ specs[f] # NONE
        BY <2>3, <2>7, <4>1, <4>2, <4>3 DEF FirstIsKept, line
      <4>4. CASE ~(s \in skus /\ specs[f] # NONE)
        <5>1. recs'[s][f] = NONE /\ ~States(n, s, f)'
          BY <2>7, <4>1, <4>4
        <5> QED BY <2>3, <4>2, <5>1 DEF FirstIsKept
      <4> QED BY <4>3, <4>4
    <3>3. CASE \E i \in 1..(n - 1) : /\ States(i, s, f) /\ Old(s)[f] = said[i].specs[f]
                                     /\ \A k \in 1..(i - 1) : ~States(k, s, f)
      <4>1. PICK i \in 1..(n - 1) : /\ States(i, s, f) /\ Old(s)[f] = said[i].specs[f]
                                    /\ \A k \in 1..(i - 1) : ~States(k, s, f)
        BY <3>3
      <4>2. Old(s)[f] # NONE
        BY <4>1 DEF States
      <4>3. recs'[s][f] = said'[i].specs[f]
        <5>1. Merge(Old(s), specs)[f] = Old(s)[f]
          BY <4>2 DEF Merge
        <5>2. recs'[s][f] = Old(s)[f]
          BY <2>5, <5>1
        <5> QED BY <2>3, <4>1, <5>2
      <4>4. States(i, s, f)' /\ \A k \in 1..(i - 1) : ~States(k, s, f)'
        <5>1. i \in 1..(n - 1) /\ \A k \in 1..(i - 1) : k \in 1..(n - 1)
          OBVIOUS
        <5>2. \A k \in 1..(n - 1) : States(k, s, f)' <=> States(k, s, f)
          BY <2>7
        <5> QED BY <4>1, <5>1, <5>2
      <4> QED BY <2>3, <4>3, <4>4 DEF FirstIsKept
    <3> QED BY <3>1, <3>2, <3>3
  <2>9. DOMAIN recs' \subseteq Cited /\ \A i \in DOMAIN said' : said'[i].skus \subseteq DOMAIN recs'
    BY <2>3, <2>4 DEF AnswerInv, line
  <2> QED BY <2>2, <2>3, <2>6, <2>8, <2>9 DEF AnswerInv
<1> QED BY <1>1, <1>2

\* A product that does not exist is always seen by is_hallucinated(), and a
\* false spec unless an earlier line stated the same field of the same product,
\* for answers of any length.
THEOREM LiesAreJudgedByTheFirstStatement == AnswerSpec => []LieEscapesOnlyBehindAStatement
<1>1. AnswerInv => LieEscapesOnlyBehindAStatement
  <2> SUFFICES ASSUME AnswerInv, ~is_hallucinated(recs) PROVE LieEscapesOnlyBehindAStatement
    BY DEF LieEscapesOnlyBehindAStatement
  <2>1. DOMAIN recs \subseteq Skus
    BY DEF is_hallucinated, Clean, grounded
  <2>2. ASSUME NEW i \in DOMAIN said PROVE said[i].skus \cap Unknown = {}
    BY <2>1, RewardAssumption DEF AnswerInv
  <2>3. ASSUME NEW i \in DOMAIN said, NEW f \in Fields, NEW s \in said[i].skus \cap Skus,
               said[i].specs[f] # NONE, Off(said[i].specs[f], Product[s][f]) > Tolerance(f)
        PROVE  \E k \in 1..(i - 1) : s \in said[k].skus /\ said[k].specs[f] # NONE
    <3>1. s \in DOMAIN recs /\ s \in Clean(recs) /\ FirstIsKept(s, f) /\ States(i, s, f)
      BY <2>3 DEF AnswerInv, is_hallucinated, States
    <3>2. PICK k \in DOMAIN said : /\ States(k, s, f) /\ recs[s][f] = said[k].specs[f]
                                   /\ \A l \in 1..(k - 1) : ~States(l, s, f)
      BY <3>1 DEF FirstIsKept
    <3>3. Off(recs[s][f], Product[s][f]) <= Tolerance(f)
      BY <3>1, <3>2 DEF Clean, specs_consistent, States
    <3>4. DOMAIN said = 1..Len(said) /\ Len(said) \in Nat
      BY DEF AnswerInv
    <3>5. /\ recs[s][f] \in Nat /\ Product[s][f] \in Nat /\ Tolerance(f) \in Nat
          /\ said[i].specs[f] \in Nat
      <4>1. recs[s][f] \in Nat
        BY <3>1, <3>2 DEF AnswerInv, Records, States
      <4>2. said[i].specs \in SpecLines
        <5>1. said \in Seq(Lines)
          BY DEF AnswerInv
        <5>2. said[i] \in Lines
          BY <5>1
        <5> QED BY <5>2 DEF Lines
      <4>3. Product[s][f] \in Nat
        BY CatalogAssumption DEF Fields
      <4>4. Tolerance(f) \in Nat
        BY DEF Tolerance
      <4> QED BY <2>3, <4>1, <4>2, <4>3, <4>4, SpecTypes
    <3>6. k # i
      BY <2>3, <3>2, <3>3, <3>5 DEF Off
    <3>7. k < i
      BY <3>1, <3>2, <3>4, <3>6
    <3> QED BY <3>2, <3>4, <3>7 DEF States
  <2> QED BY <2>2, <2>3 DEF LieEscapesOnlyBehindAStatement
<1> QED BY <1>1, AnswerInvInit, AnswerInvNext, PTL DEF AnswerSpec

-----------------------------------------------------------------------------
\* What a part of b, out of Unit, comes to.
LEMMA Quotients ==
  ASSUME NEW a \in Nat, NEW b \in Nat \ {0}, a <= b
  PROVE  /\ (Unit * a) \div b \in 0..Unit
         /\ a = b => (Unit * a) \div b = Unit
<1> DEFINE q == (Unit * a) \div b
<1>0. Unit \in Nat \ {0} /\ Unit * a \in Nat
  BY RewardAssumption
<1>1. q \in Int /\ b * q <= Unit * a /\ Unit * a < b * (q + 1)
  <2>1. PICK x \in Nat : x = Unit * a
    BY <1>0
  <2>2. x \div b \in Int /\ b * (x \div b) <= x /\ x < b * (x \div b + 1)
    OBVIOUS
  <2> QED BY <2>1, <2>2
<1> HIDE DEF q
<1>2. Unit * a <= Unit * b
  BY <1>0
<1>3. ASSUME q < 0 PROVE FALSE
  <2>1. b * (q + 1) <= 0
    BY <1>1, <1>3
  <2> QED BY <1>0, <1>1, <2>1
<1>4. ASSUME q > Unit PROVE FALSE
  <2>1. PICK d \in Nat : q = Unit + 1 + d
    BY <1>0, <1>1, <1>4
  <2>2. b * q = Unit * b + b + b * d /\ b * d \in Nat
    BY <1>0, <2>1
  <2> QED BY <1>0, <1>1, <1>2, <2>2
<1>5. ASSUME a = b, q < Unit PROVE FALSE
  <2>1. PICK d \in Nat : Unit = q + 1 + d
    BY <1>0, <1>1, <1>5
  <2>2. Unit * b = b * (q + 1) + b * d /\ b * d \in Nat
    BY <1>1, <2>1
  <2> QED BY <1>0, <1>1, <1>5, <2>2
<1>6. q \in 0..Unit /\ (a = b => q = Unit)
  BY <1>0, <1>1, <1>3, <1>4, <1>5
<1> QED BY <1>6 DEF q

\* A share of a set is between nothing and all of it.
LEMMA Shares ==
  ASSUME NEW whole, IsFiniteSet(whole), whole # {}, NEW part \in SUBSET whole
  PROVE  Share(part, whole) \in 0..Unit /\ Share(whole, whole) = Unit
<1>1. /\ Cardinality(part) \in Nat /\ Cardinality(whole) \in Nat \ {0}
      /\ Cardinality(part) <= Cardinality(whole)
  BY FS_Subset, FS_CardinalityType, FS_EmptySet
<1> QED BY <1>1, Quotients DEF Share

\* A parsed answer.
Parsed(r) ==
  DOMAIN r \subseteq Cited /\ \A s \in DOMAIN r : r[s] \in Records

\* Each component is between 0 and Unit.
LEMMA Components ==
  ASSUME NEW r, Parsed(r), has_language \in BOOLEAN, n_dims \in 0..2
  PROVE  /\ budget_compliance(r) \in 0..Unit /\ attribute_coverage(r) \in 0..Unit
         /\ catalog_groundedness(r) \in 0..Unit /\ Format(r) \in 0..Unit
         /\ Comparison(r) \in 0..Unit
<1>0. Unit \in Nat /\ 0 \in 0..Unit /\ Unit \in 0..Unit
  BY RewardAssumption
<1>1. /\ IsFiniteSet(DOMAIN r) /\ IsFiniteSet(grounded(r)) /\ Cardinality(grounded(r)) \in Nat
      /\ Clean(r) \in SUBSET DOMAIN r
  BY RewardAssumption, FS_Subset, FS_CardinalityType DEF Parsed, grounded, Clean
<1>2. budget_compliance(r) \in 0..Unit
  <2> DEFINE Cheap == {s \in grounded(r) : meets(Product[s], "max_price", constraints["max_price"])}
  <2>1. Cheap \in SUBSET grounded(r)
    OBVIOUS
  <2>2. grounded(r) # {} => Share(Cheap, grounded(r)) \in 0..Unit
    BY <1>1, <2>1, Shares
  <2> QED BY <1>0, <2>2 DEF budget_compliance
<1>3. attribute_coverage(r) \in 0..Unit
  <2> DEFINE Good == {s \in grounded(r) : satisfies(Product[s], constraints)}
  <2>1. Good \in SUBSET grounded(r)
    OBVIOUS
  <2>2. grounded(r) # {} => Share(Good, grounded(r)) \in 0..Unit
    BY <1>1, <2>1, Shares
  <2> QED BY <1>0, <2>2 DEF attribute_coverage
<1>4. catalog_groundedness(r) \in 0..Unit
  <2>1. DOMAIN r # {} => Share(Clean(r), DOMAIN r) \in 0..Unit
    BY <1>1, Shares
  <2> QED BY <1>0, <2>1 DEF catalog_groundedness
<1>5. Format(r) \in 0..Unit
  <2>1. num_specs_stated(r) \in SUBSET ((DOMAIN r) \X Fields)
    <3> SUFFICES ASSUME NEW x \in num_specs_stated(r) PROVE x \in (DOMAIN r) \X Fields
      OBVIOUS
    <3>1. PICK s \in DOMAIN r : x \in {<<s, f>> : f \in {g \in Fields : r[s][g] # NONE}}
      BY DEF num_specs_stated
    <3> QED BY <3>1
  <2>2. IsFiniteSet(Fields) /\ Fields # {}
    <3>1. Fields = ((({} \cup {"price"}) \cup {"ram"}) \cup {"weight"}) \cup {"battery"}
      BY DEF Fields
    <3>2. IsFiniteSet({} \cup {"price"})
      BY FS_EmptySet, FS_AddElement
    <3>3. IsFiniteSet(({} \cup {"price"}) \cup {"ram"})
      BY <3>2, FS_AddElement
    <3>4. IsFiniteSet((({} \cup {"price"}) \cup {"ram"}) \cup {"weight"})
      BY <3>3, FS_AddElement
    <3>5. IsFiniteSet(((({} \cup {"price"}) \cup {"ram"}) \cup {"weight"}) \cup {"battery"})
      BY <3>4, FS_AddElement
    <3> QED BY <3>1, <3>5
  <2>3. IsFiniteSet((DOMAIN r) \X Fields)
    BY <1>1, <2>2, FS_Product
  <2>4. DOMAIN r # {} => Share(num_specs_stated(r), (DOMAIN r) \X Fields) \in 0..Unit
    <3> SUFFICES ASSUME DOMAIN r # {}
                 PROVE  Share(num_specs_stated(r), (DOMAIN r) \X Fields) \in 0..Unit
      OBVIOUS
    <3>1. (DOMAIN r) \X Fields # {}
      <4>1. PICK s \in DOMAIN r, f \in Fields : TRUE
        BY <2>2
      <4>2. <<s, f>> \in (DOMAIN r) \X Fields
        OBVIOUS
      <4> QED BY <4>2
    <3> QED BY <2>1, <2>3, <3>1, Shares
  <2> QED BY <1>0, <2>4 DEF Format
<1>6. Comparison(r) \in 0..Unit
  <2> DEFINE breadth == IF Cardinality(grounded(r)) > 2 THEN 2 ELSE Cardinality(grounded(r))
             points  == 8 + (IF has_language THEN 6 ELSE 0) + 3 * n_dims
  <2>1. breadth \in 0..2 /\ points \in 0..20
    BY <1>1
  <2>2. Comparison(r) = (Unit \div 40) * breadth * points
    BY DEF Comparison
  <2> HIDE DEF breadth, points
  <2>3. breadth = 0 \/ breadth = 1 \/ breadth = 2
    BY <2>1
  <2>4. PICK u \in Nat : u = Unit \div 40 /\ 40 * u <= Unit
    BY <1>0
  <2>5. breadth * points \in 0..40
    BY <2>1, <2>3
  <2>6. PICK p \in 0..40 : p = breadth * points
    BY <2>5
  <2>7. Comparison(r) = u * p
    BY <2>1, <2>2, <2>4, <2>6
  <2>8. u * p \in Nat /\ u * p <= u * 40
    OBVIOUS
  <2> QED BY <1>0, <2>4, <2>7, <2>8
<1> QED BY <1>2, <1>3, <1>4, <1>5, <1>6

\* What making an answer honest leaves as it was, and what it gains.
LEMMA HonestComponents ==
  ASSUME NEW r, Parsed(r)
  PROVE  LET h == Honest(r) IN
         /\ Parsed(h) /\ ~is_hallucinated(h)
         /\ budget_compliance(h) = budget_compliance(r)
         /\ attribute_coverage(h) = attribute_coverage(r)
         /\ Comparison(h) = Comparison(r)
         /\ catalog_groundedness(h) >= catalog_groundedness(r)
<1> DEFINE h == Honest(r)
<1>1. DOMAIN h = grounded(r) /\ grounded(h) = grounded(r)
  BY DEF Honest, grounded
<1>2. ASSUME NEW s \in DOMAIN h, NEW f \in Fields
      PROVE  /\ h[s][f] = IF r[s][f] = NONE THEN NONE ELSE Product[s][f]
             /\ Product[s][f] \in Nat
  <2>1. s \in Skus
    BY <1>1 DEF grounded
  <2>2. Product[s] \in [price : Nat, ram : Nat, weight : Nat, battery : Nat]
    BY <2>1, CatalogAssumption
  <2>3. Product[s][f] \in Nat
    BY <2>2 DEF Fields
  <2> QED BY <2>3 DEF Honest
<1>3. ASSUME NEW s \in DOMAIN h PROVE specs_consistent(h[s], Product[s])
  <2> SUFFICES ASSUME NEW f \in Fields, h[s][f] # NONE
               PROVE  Off(h[s][f], Product[s][f]) <= Tolerance(f)
    BY DEF specs_consistent
  <2>1. h[s][f] = Product[s][f] /\ Product[s][f] \in Nat
    BY <1>2
  <2>2. Tolerance(f) \in Nat
    BY DEF Tolerance
  <2> QED BY <2>1, <2>2 DEF Off
<1>4. Clean(h) = DOMAIN h
  BY <1>1, <1>3 DEF Clean
<1>5. Parsed(h)
  <2>1. \A s \in DOMAIN h : h[s] \in Records
    <3> SUFFICES ASSUME NEW s \in DOMAIN h PROVE h[s] \in Records
      OBVIOUS
    <3>1. h[s] = [f \in Fields |-> IF r[s][f] = NONE THEN NONE ELSE Product[s][f]]
      BY DEF Honest
    <3> QED BY <1>2, <3>1 DEF Records
  <2> QED BY <1>1, <2>1 DEF Parsed, grounded
<1>6. catalog_groundedness(h) >= catalog_groundedness(r)
  <2>0. IsFiniteSet(DOMAIN r) /\ IsFiniteSet(DOMAIN h)
    BY <1>5, RewardAssumption, FS_Subset DEF Parsed
  <2>1. CASE DOMAIN h = {}
    <3>1. Clean(r) = {} /\ catalog_groundedness(h) = 0
      BY <1>1, <2>1 DEF Clean, catalog_groundedness
    <3>2. DOMAIN r # {} => Share({}, DOMAIN r) = 0
      <4>1. DOMAIN r # {} => Cardinality(DOMAIN r) \in Nat \ {0}
        BY <2>0, FS_CardinalityType, FS_EmptySet
      <4>2. ASSUME NEW b \in Nat \ {0} PROVE (Unit * 0) \div b = 0
        BY RewardAssumption
      <4> QED BY <4>1, <4>2, FS_EmptySet DEF Share
    <3> QED BY <3>1, <3>2 DEF catalog_groundedness
  <2>2. CASE DOMAIN h # {}
    <3>1. catalog_groundedness(h) = Unit
      BY <1>4, <2>0, <2>2, Shares DEF catalog_groundedness
    <3>2. DOMAIN r # {} => Share(Clean(r), DOMAIN r) \in 0..Unit
      BY <2>0, Shares DEF Clean, grounded
    <3>3. catalog_groundedness(r) \in 0..Unit /\ Unit \in Nat
      <4>1. CASE DOMAIN r = {}
        BY <4>1, RewardAssumption DEF catalog_groundedness
      <4>2. CASE DOMAIN r # {}
        BY <3>2, <4>2, RewardAssumption DEF catalog_groundedness
      <4> QED BY <4>1, <4>2
    <3> HIDE DEF h
    <3> QED BY <3>1, <3>3
  <2> QED BY <2>1, <2>2
<1>7. budget_compliance(h) = budget_compliance(r) /\ attribute_coverage(h) = attribute_coverage(r)
  BY <1>1 DEF budget_compliance, attribute_coverage
<1>8. Comparison(h) = Comparison(r)
  BY <1>1 DEF Comparison
<1> QED BY <1>4, <1>5, <1>6, <1>7, <1>8 DEF is_hallucinated

\* Lying never pays, for any finite catalog, prompt and answer: what an invented
\* product or a false spec can gain is the share of stated specs, at most 0.15,
\* and the penalty is 0.5; no other component falls when the answer is made
\* honest (composite.py).
THEOREM HonestyAlwaysPays == AnswerSpec => []HonestyPays
<1>1. AnswerInv => HonestyPays
  <2> SUFFICES ASSUME AnswerInv PROVE HonestyPays
    OBVIOUS
  <2>0. Unit \in Nat \ {0}
    BY RewardAssumption
  <2>1. Parsed(recs) /\ has_language \in BOOLEAN /\ n_dims \in 0..2
    BY DEF AnswerInv, Parsed
  <2>2. CASE ~is_hallucinated(recs)
    <3>1. /\ budget_compliance(recs) \in 0..Unit /\ attribute_coverage(recs) \in 0..Unit
          /\ catalog_groundedness(recs) \in 0..Unit /\ Format(recs) \in 0..Unit
          /\ Comparison(recs) \in 0..Unit
      BY <2>1, Components
    <3>2. compute_reward(recs) \in 0..(100 * Unit)
      <4> DEFINE b == budget_compliance(recs) a == attribute_coverage(recs)
                 g == catalog_groundedness(recs) f == Format(recs) c == Comparison(recs)
      <4>1. compute_reward(recs) = 25 * b + 25 * g + 25 * a + 15 * f + 10 * c - 0
        BY <2>2 DEF compute_reward
      <4> HIDE DEF b, a, g, f, c
      <4>2. b \in 0..Unit /\ a \in 0..Unit /\ g \in 0..Unit /\ f \in 0..Unit /\ c \in 0..Unit
        BY <3>1 DEF b, a, g, f, c
      <4>3. /\ b \in Nat /\ a \in Nat /\ g \in Nat /\ f \in Nat /\ c \in Nat
            /\ b <= Unit /\ a <= Unit /\ g <= Unit /\ f <= Unit /\ c <= Unit
        BY <2>0, <4>2
      <4>4. compute_reward(recs) \in Nat /\ compute_reward(recs) <= 100 * Unit
        BY <2>0, <4>1, <4>3
      <4> QED BY <2>0, <4>4
    <3> QED BY <2>2, <3>2 DEF HonestyPays
  <2>3. CASE is_hallucinated(recs)
    <3> DEFINE h == Honest(recs)
    <3>1. /\ Parsed(h) /\ ~is_hallucinated(h)
          /\ budget_compliance(h) = budget_compliance(recs)
          /\ attribute_coverage(h) = attribute_coverage(recs)
          /\ Comparison(h) = Comparison(recs)
          /\ catalog_groundedness(h) >= catalog_groundedness(recs)
      BY <2>1, HonestComponents
    <3> HIDE DEF h
    <3>2. /\ budget_compliance(recs) \in 0..Unit /\ attribute_coverage(recs) \in 0..Unit
          /\ catalog_groundedness(recs) \in 0..Unit /\ Format(recs) \in 0..Unit
          /\ Comparison(recs) \in 0..Unit
      BY <2>1, Components
    <3>3. catalog_groundedness(h) \in 0..Unit /\ Format(h) \in 0..Unit
      BY <2>1, <3>1, Components
    <3>4. compute_reward(h) >= compute_reward(recs) + 35 * Unit
      <4> DEFINE b == budget_compliance(recs) a == attribute_coverage(recs)
                 g == catalog_groundedness(recs) f == Format(recs) c == Comparison(recs)
                 g2 == catalog_groundedness(h) f2 == Format(h)
      <4>1. /\ compute_reward(recs) = 25 * b + 25 * g + 25 * a + 15 * f + 10 * c - 50 * Unit
            /\ compute_reward(h) = 25 * b + 25 * g2 + 25 * a + 15 * f2 + 10 * c - 0
        BY <2>3, <3>1 DEF compute_reward
      <4>2. g2 >= g
        BY <3>1
      <4> HIDE DEF b, a, g, f, c, g2, f2
      <4>3. /\ b \in 0..Unit /\ a \in 0..Unit /\ g \in 0..Unit /\ f \in 0..Unit /\ c \in 0..Unit
            /\ g2 \in 0..Unit /\ f2 \in 0..Unit
        BY <3>2, <3>3 DEF b, a, g, f, c, g2, f2
      <4> QED BY <2>0, <4>1, <4>2, <4>3
    <3> QED BY <2>3, <3>4 DEF HonestyPays, h
  <2> QED BY <2>2, <2>3
<1> QED BY <1>1, AnswerInvInit, AnswerInvNext, PTL DEF AnswerSpec

=============================================================================
