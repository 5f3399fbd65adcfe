--------------------------- MODULE TrainingRunProofs ---------------------------
(***************************************************************************)
(* The registries agree, for any number of workers, runs and kills.        *)
(*                                                                         *)
(* RegistriesAgree is about finished runs. It is preserved because of what *)
(* a worker has already written when it reaches each statement (Progress), *)
(* and because no two workers ever write to the same run (Exclusive).      *)
(***************************************************************************)
EXTENDS TrainingRun, TLAPS

\* The statements at and after which a fact is established.
Tagged    == {"tag", "finish", "report"}
Indexed3  == {"reflect"} \cup Tagged
Published == {"published"} \cup Indexed3
Indexed2  == {"next", "publish"} \cup Published
Saved     == {"index"} \cup Indexed2
Indexed1  == {"train", "retrain", "checkpoint"} \cup Saved
Created   == {"start", "dataset"} \cup Indexed1

\* What worker w has written by now.
Progress(w) ==
  /\ pc[w] \in Created   => run[w] # NONE
  /\ pc[w] \in Indexed1  => "prompt_dataset" \in artifacts[run[w]]
  /\ pc[w] \in Saved     => ckpt[run[w]] # ABSENT
  /\ pc[w] \in Indexed2  => "checkpoint" \in artifacts[run[w]]
  /\ pc[w] = "publish"   => version[w] \in 1..(Len(policies) + 1)
  /\ pc[w] \in Published => /\ version[w] \in 1..Len(policies)
                            /\ policies[version[w]] = run[w]
  /\ pc[w] \in Indexed3  => "policy" \in artifacts[run[w]]
  /\ pc[w] \in Tagged    => record[run[w]].policy = version[w]
  /\ pc[w] = "report"    => record[run[w]].status = SUCCEEDED
  /\ pc[w] \in {"preflight", "create"} => run[w] = NONE
  /\ pc[w] # "idle"      => result[w] = "none"
  /\ result[w] = "refs"  => run[w] # NONE
  /\ pc[w] \in {"except", "recover"} /\ exc[w] = "oom" => run[w] # NONE
  /\ pc[w] = "recover" /\ exc[w] = "oom" => record[run[w]].status = FAILED
  /\ batch[w].prompts > 0 /\ batch[w].samples > 0

\* A run is in the hands of one worker, and has a record.
Exclusive ==
  /\ \A w \in Workers : run[w] # NONE => record[run[w]].status # ABSENT
  /\ \A w, v \in Workers : w # v /\ run[w] # NONE => run[w] # run[v]

\* The newest checkpoint exists.
CheckpointsStay == latest # NONE => ckpt[latest] # ABSENT

\* The inductive invariant.
IInv ==
  /\ RunTypeOK
  /\ \A w \in Workers : Progress(w)
  /\ Exclusive
  /\ CheckpointsStay
  /\ RegistriesAgree

-----------------------------------------------------------------------------
USE NoneAssumption, ConfigAssumption
USE DEF Tagged, Indexed3, Published, Indexed2, Saved, Indexed1, Created,
        ABSENT, CREATED, RUNNING, SUCCEEDED, FAILED, Labels, Fallible, Status,
        Goto, stores

\* _shrink_batch() returns a batch.
LEMMA ShrinkType ==
  ASSUME NEW b \in [prompts : Nat, samples : Nat]
  PROVE  Shrink(b) \in [prompts : Nat, samples : Nat]
BY DEF Shrink, Batch

\* Halving a batch that can shrink leaves one that is smaller but not empty.
LEMMA ShrinkShrinks ==
  ASSUME NEW b \in [prompts : Nat, samples : Nat],
         b.prompts > 0, b.samples > 0, CanShrink(b)
  PROVE  /\ Shrink(b).prompts > 0 /\ Shrink(b).samples > 0
         /\ Size(Shrink(b)) < Size(b)
<1>1. ASSUME NEW x \in Nat, NEW y \in Nat, NEW z \in Nat, x < y, z > 0
      PROVE  x * z < y * z /\ z * x < z * y
  BY <1>1
<1>2. CASE b.prompts > 1
  BY <1>1, <1>2 DEF Shrink, Batch, Size
<1>3. CASE ~(b.prompts > 1)
  BY <1>1, <1>3 DEF Shrink, Batch, Size, CanShrink
<1> QED BY <1>2, <1>3

\* A step of w that leaves the stores alone and hands w no other run.
LocalTo(w) ==
  /\ UNCHANGED stores
  /\ run'[w] \in {run[w], NONE}
  /\ result'[w] # "refs"
  /\ \A v \in Workers \ {w} :
       /\ pc'[v] = pc[v] /\ run'[v] = run[v] /\ version'[v] = version[v]
       /\ result'[v] = result[v] /\ exc'[v] = exc[v] /\ batch'[v] = batch[v]

\* Such a step has only w's own progress to account for.
LEMMA LocalStep ==
  ASSUME IInv, NEW w \in Workers, RunTypeOK', Progress(w)', LocalTo(w)
  PROVE  IInv'
<1>1. ASSUME NEW v \in Workers PROVE Progress(v)'
  BY <1>1 DEF IInv, Progress, LocalTo
<1>2. Exclusive' /\ CheckpointsStay'
  BY DEF IInv, Exclusive, CheckpointsStay, LocalTo
<1>3. RegistriesAgree'
  BY DEF LocalTo, IInv, RegistriesAgree, SucceededIsBacked, TrajectoriesAttributed,
         RefsOfSucceeded
<1> QED BY <1>1, <1>2, <1>3 DEF IInv

\* A write to w's own record leaves the refs others have returned in place.
LEMMA OwnRecord ==
  ASSUME IInv, NEW w \in Workers, pc[w] # "idle", run[w] # NONE,
         NEW s, NEW c, NEW n, Save(w, s, c, n), UNCHANGED <<run, result>>
  PROVE  RefsOfSucceeded'
<1> SUFFICES ASSUME NEW v \in Workers, result[v] = "refs"
             PROVE  record'[run[v]].status = SUCCEEDED
  BY DEF RefsOfSucceeded
<1>1. v # w /\ run[v] # NONE
  BY DEF IInv, Progress
<1>2. run[v] # run[w] /\ run[v] \in Runs
  BY <1>1 DEF IInv, Exclusive, RunTypeOK
<1>3. record'[run[v]] = record[run[v]]
  BY <1>2 DEF IInv, RunTypeOK, Save
<1> QED BY <1>3 DEF IInv, RegistriesAgree, RefsOfSucceeded

\* An exception on its way out changes nothing but the program counter.
LEMMA RaiseKeeps ==
  ASSUME IInv, NEW w \in Workers, pc[w] # "idle",
         NEW l \in {"except", "recover"}, Goto(w, l),
         NEW e \in {"oom", "error"}, exc' = [exc EXCEPT ![w] = e],
         e = "oom" => l = "except" /\ pc[w] \in {"train", "retrain"},
         UNCHANGED <<stores, batch, attempt, resume, run, version, result, kills>>
  PROVE  IInv'
<1>1. RunTypeOK'
  BY DEF IInv, RunTypeOK
<1>2. Progress(w)'
  BY DEF IInv, RunTypeOK, Progress
<1>3. result'[w] # "refs"
  BY DEF IInv, RunTypeOK, Progress
<1>4. LocalTo(w)
  BY <1>3 DEF IInv, RunTypeOK, LocalTo
<1> QED BY <1>1, <1>2, <1>4, LocalStep

\* The types of what a worker keeps to itself.
LocalsTypeOK ==
  /\ pc \in [Workers -> Labels] /\ batch \in [Workers -> [prompts : Nat, samples : Nat]]
  /\ attempt \in [Workers -> 0..MaxOomRetries] /\ resume \in [Workers -> Runs \cup {NONE}]
  /\ run \in [Workers -> Runs \cup {NONE}] /\ version \in [Workers -> Nat]
  /\ exc \in [Workers -> {"none", "oom", "error"}]
  /\ result \in [Workers -> {"none", "refs", "error", "oom", "None", "killed"}]

\* What a call that ends leaves in its locals.
LEMMA EndTypes ==
  ASSUME RunTypeOK, NEW w \in Workers, NEW how \in {"refs", "error", "oom", "None", "killed"},
         End(w, how)
  PROVE  LocalsTypeOK'
<1>1. pc' \in [Workers -> Labels]
  BY DEF RunTypeOK, End, Goto, Labels
<1>2. batch' \in [Workers -> [prompts : Nat, samples : Nat]]
  <2>1. Full \in [prompts : Nat, samples : Nat]
    BY ConfigAssumption DEF Full, Batch
  <2> QED BY <2>1 DEF RunTypeOK, End
<1>3. attempt' \in [Workers -> 0..MaxOomRetries]
  <2>1. 0 \in 0..MaxOomRetries
    BY ConfigAssumption
  <2> QED BY <2>1 DEF RunTypeOK, End
<1>4. resume' \in [Workers -> Runs \cup {NONE}] /\ version' \in [Workers -> Nat]
  BY DEF RunTypeOK, End
<1>5. run' \in [Workers -> Runs \cup {NONE}]
  BY DEF RunTypeOK, End
<1>6. /\ exc' \in [Workers -> {"none", "oom", "error"}]
      /\ result' \in [Workers -> {"none", "refs", "error", "oom", "None", "killed"}]
  BY DEF RunTypeOK, End
<1> QED BY <1>1, <1>2, <1>3, <1>4, <1>5, <1>6 DEF LocalsTypeOK

\* A call that ends without refs leaves the stores as they are.
LEMMA EndKeeps ==
  ASSUME IInv, NEW w \in Workers, NEW how \in {"error", "oom", "None", "killed"},
         End(w, how), UNCHANGED stores, kills' \in 0..KillBudget
  PROVE  IInv'
<1>1. RunTypeOK'
  <2>1. how \in {"refs", "error", "oom", "None", "killed"} /\ RunTypeOK
    BY DEF IInv
  <2>2. LocalsTypeOK'
    BY <2>1, EndTypes
  <2> QED BY <2>1, <2>2 DEF RunTypeOK, LocalsTypeOK, stores
<1>2. Progress(w)'
  BY DEF IInv, RunTypeOK, Progress, End, Full, Batch
<1>3. result'[w] # "refs"
  BY DEF IInv, RunTypeOK, Progress, End, Full, Batch
<1>4. LocalTo(w)
  BY <1>3 DEF IInv, RunTypeOK, LocalTo, End, Full, Batch
<1> QED BY <1>1, <1>2, <1>4, LocalStep

\* A call begins with no run.
LEMMA BeginKeeps ==
  ASSUME IInv, NEW w \in Workers, Begin(w)
  PROVE  IInv'
<1>1. RunTypeOK'
  BY DEF IInv, RunTypeOK, Begin
<1>2. Progress(w)'
  BY DEF IInv, RunTypeOK, Progress, Begin
<1>3. result'[w] # "refs"
  BY DEF IInv, RunTypeOK, Progress, Begin
<1>4. LocalTo(w)
  BY <1>3 DEF IInv, RunTypeOK, LocalTo, Begin
<1> QED BY <1>1, <1>2, <1>4, LocalStep

\* Preflight, training and an exception without a run change no store.
LEMMA MoveKeeps ==
  ASSUME IInv, NEW w \in Workers, NEW l, Move(w, l), UNCHANGED stores,
         <<pc[w], l>> \in {<<"preflight", "create">>, <<"train", "checkpoint">>,
                           <<"train", "retrain">>, <<"retrain", "checkpoint">>,
                           <<"except", "recover">>},
         pc[w] = "except" => run[w] = NONE
  PROVE  IInv'
<1>1. RunTypeOK'
  BY DEF IInv, RunTypeOK, Move
<1>2. Progress(w)'
  BY DEF IInv, RunTypeOK, Progress, Move
<1>3. result'[w] # "refs"
  BY DEF IInv, RunTypeOK, Progress, Move
<1>4. LocalTo(w)
  BY <1>3 DEF IInv, RunTypeOK, LocalTo, Move
<1> QED BY <1>1, <1>2, <1>4, LocalStep

\* The version read is at most one above the newest.
LEMMA NextVersionKeeps ==
  ASSUME IInv, NEW w \in Workers, NextVersion(w)
  PROVE  IInv'
<1>1. RunTypeOK'
  <2>1. RunTypeOK /\ Len(policies) + 1 \in Nat
    BY DEF IInv, RunTypeOK
  <2>2. version' \in [Workers -> Nat] /\ pc' \in [Workers -> Labels]
    BY <2>1 DEF RunTypeOK, NextVersion, Goto, Labels
  <2> QED BY <2>1, <2>2 DEF RunTypeOK, NextVersion, stores
<1>2. Progress(w)'
  BY DEF IInv, RunTypeOK, Progress, NextVersion
<1>3. result'[w] # "refs"
  BY DEF IInv, RunTypeOK, Progress, NextVersion
<1>4. LocalTo(w)
  BY <1>3 DEF IInv, RunTypeOK, LocalTo, NextVersion
<1> QED BY <1>1, <1>2, <1>4, LocalStep

\* A retry begins on a smaller batch with no run.
LEMMA RetryKeeps ==
  ASSUME IInv, NEW w \in Workers, pc[w] = "recover", Retry(w),
         UNCHANGED <<stores, kills>>
  PROVE  IInv'
<1>1. RunTypeOK'
  <2>0. RunTypeOK
    BY DEF IInv
  <2>1. /\ Shrink(batch[w]) \in [prompts : Nat, samples : Nat]
        /\ attempt[w] + 1 \in 0..MaxOomRetries
    BY <2>0, ShrinkType, ConfigAssumption DEF RunTypeOK, Retry
  <2>2. /\ batch' \in [Workers -> [prompts : Nat, samples : Nat]]
        /\ attempt' \in [Workers -> 0..MaxOomRetries]
    BY <2>0, <2>1 DEF RunTypeOK, Retry
  <2>3. /\ resume' \in [Workers -> Runs \cup {NONE}] /\ run' \in [Workers -> Runs \cup {NONE}]
        /\ version' \in [Workers -> Nat]
    BY <2>0 DEF RunTypeOK, Retry, stores
  <2>4. /\ exc' \in [Workers -> {"none", "oom", "error"}]
        /\ pc' \in [Workers -> Labels]
    BY <2>0 DEF RunTypeOK, Retry, Goto, Labels
  <2> QED BY <2>0, <2>2, <2>3, <2>4 DEF RunTypeOK, Retry, stores
<1>2. Progress(w)'
  BY ShrinkType, ShrinkShrinks DEF IInv, RunTypeOK, Progress, Retry
<1>3. result'[w] # "refs"
  BY DEF IInv, RunTypeOK, Progress, Retry
<1>4. LocalTo(w)
  BY <1>3 DEF IInv, RunTypeOK, LocalTo, Retry
<1> QED BY <1>1, <1>2, <1>4, LocalStep

\* The new record is nobody else's.
LEMMA CreateRunKeeps ==
  ASSUME IInv, NEW w \in Workers, CreateRun(w)
  PROVE  IInv'
<1>1. RunTypeOK'
  <2>0. RunTypeOK
    BY DEF IInv
  <2>1. record' \in [Runs -> [status : Status, ckpt : Runs \cup {NONE}, policy : Nat]]
    BY <2>0 DEF RunTypeOK, CreateRun, Fresh, Row, Status
  <2>2. run' \in [Workers -> Runs \cup {NONE}] /\ pc' \in [Workers -> Labels]
    BY <2>0 DEF RunTypeOK, CreateRun, Fresh, Goto, Labels
  <2>3. artifacts' \in [Runs -> SUBSET Types]
    BY <2>0 DEF RunTypeOK, CreateRun, Fresh, Types
  <2> QED BY <2>0, <2>1, <2>2, <2>3 DEF RunTypeOK, CreateRun
<1>2. \A v \in Workers : Progress(v)'
  BY DEF IInv, RunTypeOK, Progress, Exclusive, CreateRun, Fresh, Row
<1>3. Exclusive' /\ CheckpointsStay'
  <2>0. RunTypeOK /\ Exclusive /\ CheckpointsStay
    BY DEF IInv
  <2>1. PICK r \in Runs : /\ record[r].status = ABSENT
                          /\ record' = [record EXCEPT ![r] = Row(CREATED, NONE, 0)]
                          /\ run' = [run EXCEPT ![w] = r]
    BY DEF CreateRun, Fresh
  <2>2. /\ run'[w] = r /\ \A v \in Workers \ {w} : run'[v] = run[v] /\ run[v] # r
    BY <2>0, <2>1, NoneAssumption DEF RunTypeOK, Exclusive
  <2>3. /\ record'[r].status # ABSENT
        /\ \A q \in Runs : record[q].status # ABSENT => record'[q].status # ABSENT
    BY <2>0, <2>1 DEF RunTypeOK, Row
  <2>4. \A v \in Workers : run[v] # NONE => run[v] \in Runs
    BY <2>0 DEF RunTypeOK
  <2>5. Exclusive'
    BY <2>0, <2>2, <2>3, <2>4 DEF Exclusive
  <2>6. CheckpointsStay'
    BY <2>0 DEF CheckpointsStay, CreateRun
  <2> QED BY <2>5, <2>6
<1>4. SucceededIsBacked' /\ TrajectoriesAttributed'
  BY DEF IInv, RunTypeOK, Progress, RegistriesAgree, SucceededIsBacked,
         TrajectoriesAttributed, CreateRun, Fresh, Row
<1>5. RefsOfSucceeded'
  BY DEF IInv, RunTypeOK, Progress, Exclusive, RegistriesAgree,
         RefsOfSucceeded, CreateRun, Fresh, Row
<1> QED BY <1>1, <1>2, <1>3, <1>4, <1>5 DEF IInv, RegistriesAgree

\* Only the worker's own record changes.
LEMMA StartRunKeeps ==
  ASSUME IInv, NEW w \in Workers, StartRun(w)
  PROVE  IInv'
<1>1. RunTypeOK'
  BY DEF IInv, RunTypeOK, Progress, Types, StartRun, Move, Save, Row, Mine
<1>2. \A v \in Workers : Progress(v)'
  BY DEF IInv, RunTypeOK, Progress, Exclusive, StartRun, Move, Save, Row, Mine
<1>3. Exclusive' /\ CheckpointsStay'
  BY DEF IInv, RunTypeOK, Progress, Exclusive, CheckpointsStay, StartRun,
         Move, Save, Row, Mine
<1>4. SucceededIsBacked' /\ TrajectoriesAttributed'
  BY DEF IInv, RunTypeOK, Progress, RegistriesAgree, SucceededIsBacked,
         TrajectoriesAttributed, StartRun, Move, Save, Row, Mine
<1>5. RefsOfSucceeded'
  BY OwnRecord DEF IInv, Progress, StartRun, Move
<1> QED BY <1>1, <1>2, <1>3, <1>4, <1>5 DEF IInv, RegistriesAgree

\* Indexing only adds to the lineage of the worker's own run.
LEMMA IndexDatasetKeeps ==
  ASSUME IInv, NEW w \in Workers, IndexDataset(w)
  PROVE  IInv'
<1>1. RunTypeOK'
  BY DEF IInv, RunTypeOK, Progress, Types, IndexDataset, Move, Register
<1>2. \A v \in Workers : Progress(v)'
  BY DEF IInv, RunTypeOK, Progress, Exclusive, IndexDataset, Move, Register
<1>3. Exclusive' /\ CheckpointsStay'
  BY DEF IInv, Exclusive, CheckpointsStay, IndexDataset, Move
<1>4. SucceededIsBacked' /\ TrajectoriesAttributed'
  BY DEF IInv, RunTypeOK, Progress, RegistriesAgree, SucceededIsBacked,
         TrajectoriesAttributed, IndexDataset, Move, Register
<1>5. RefsOfSucceeded'
  BY DEF IInv, RunTypeOK, Progress, Exclusive, RegistriesAgree,
         RefsOfSucceeded, IndexDataset, Move, Register
<1> QED BY <1>1, <1>2, <1>3, <1>4, <1>5 DEF IInv, RegistriesAgree

\* The same for its checkpoint.
LEMMA IndexCheckpointKeeps ==
  ASSUME IInv, NEW w \in Workers, IndexCheckpoint(w)
  PROVE  IInv'
<1>1. RunTypeOK'
  BY DEF IInv, RunTypeOK, Progress, Types, IndexCheckpoint, Move, Register
<1>2. \A v \in Workers : Progress(v)'
  BY DEF IInv, RunTypeOK, Progress, Exclusive, IndexCheckpoint, Move, Register
<1>3. Exclusive' /\ CheckpointsStay'
  BY DEF IInv, Exclusive, CheckpointsStay, IndexCheckpoint, Move
<1>4. SucceededIsBacked' /\ TrajectoriesAttributed'
  BY DEF IInv, RunTypeOK, Progress, RegistriesAgree, SucceededIsBacked,
         TrajectoriesAttributed, IndexCheckpoint, Move, Register
<1>5. RefsOfSucceeded'
  BY DEF IInv, RunTypeOK, Progress, Exclusive, RegistriesAgree,
         RefsOfSucceeded, IndexCheckpoint, Move, Register
<1> QED BY <1>1, <1>2, <1>3, <1>4, <1>5 DEF IInv, RegistriesAgree

\* The same for its policy.
LEMMA IndexPolicyKeeps ==
  ASSUME IInv, NEW w \in Workers, IndexPolicy(w)
  PROVE  IInv'
<1>1. RunTypeOK'
  BY DEF IInv, RunTypeOK, Progress, Types, IndexPolicy, Move, Register
<1>2. \A v \in Workers : Progress(v)'
  BY DEF IInv, RunTypeOK, Progress, Exclusive, IndexPolicy, Move, Register
<1>3. Exclusive' /\ CheckpointsStay'
  BY DEF IInv, Exclusive, CheckpointsStay, IndexPolicy, Move
<1>4. SucceededIsBacked' /\ TrajectoriesAttributed'
  BY DEF IInv, RunTypeOK, Progress, RegistriesAgree, SucceededIsBacked,
         TrajectoriesAttributed, IndexPolicy, Move, Register
<1>5. RefsOfSucceeded'
  BY DEF IInv, RunTypeOK, Progress, Exclusive, RegistriesAgree,
         RefsOfSucceeded, IndexPolicy, Move, Register
<1> QED BY <1>1, <1>2, <1>3, <1>4, <1>5 DEF IInv, RegistriesAgree

\* A saved checkpoint exists from then on.
LEMMA SaveCheckpointKeeps ==
  ASSUME IInv, NEW w \in Workers, SaveCheckpoint(w)
  PROVE  IInv'
<1>1. RunTypeOK'
  BY DEF IInv, RunTypeOK, Progress, Types, SaveCheckpoint, Move
<1>2. \A v \in Workers : Progress(v)'
  BY DEF IInv, RunTypeOK, Progress, Exclusive, SaveCheckpoint, Move
<1>3. Exclusive' /\ CheckpointsStay'
  BY DEF IInv, RunTypeOK, Progress, Exclusive, CheckpointsStay,
         SaveCheckpoint, Move
<1>4. SucceededIsBacked' /\ TrajectoriesAttributed'
  BY DEF IInv, RunTypeOK, Progress, RegistriesAgree, SucceededIsBacked,
         TrajectoriesAttributed, SaveCheckpoint, Move
<1>5. RefsOfSucceeded'
  BY DEF IInv, RunTypeOK, Progress, Exclusive, RegistriesAgree,
         RefsOfSucceeded, SaveCheckpoint, Move
<1> QED BY <1>1, <1>2, <1>3, <1>4, <1>5 DEF IInv, RegistriesAgree

\* A version is appended, never replaced.
LEMMA PublishKeeps ==
  ASSUME IInv, NEW w \in Workers, pc[w] = "publish", version[w] > Len(policies),
         policies' = Append(policies, run[w]), Move(w, "published"),
         UNCHANGED <<record, artifacts, ckpt, latest, trajectories>>
  PROVE  IInv'
<1>1. RunTypeOK'
  BY DEF IInv, RunTypeOK, Progress, Types, Move
<1>2. \A v \in Workers : Progress(v)'
  BY DEF IInv, RunTypeOK, Progress, Exclusive, Move
<1>3. Exclusive' /\ CheckpointsStay'
  BY DEF IInv, Exclusive, CheckpointsStay, Move
<1>4. SucceededIsBacked' /\ TrajectoriesAttributed'
  BY DEF IInv, RunTypeOK, Progress, RegistriesAgree, SucceededIsBacked,
         TrajectoriesAttributed, Move
<1>5. RefsOfSucceeded'
  BY DEF IInv, RunTypeOK, Progress, Exclusive, RegistriesAgree,
         RefsOfSucceeded, Move
<1> QED BY <1>1, <1>2, <1>3, <1>4, <1>5 DEF IInv, RegistriesAgree

\* The record gets the version the run has published.
LEMMA ReflectPolicyKeeps ==
  ASSUME IInv, NEW w \in Workers, ReflectPolicy(w)
  PROVE  IInv'
<1>1. RunTypeOK'
  BY DEF IInv, RunTypeOK, Progress, Types, ReflectPolicy, Move, Save, Row,
         Mine
<1>2. \A v \in Workers : Progress(v)'
  BY DEF IInv, RunTypeOK, Progress, Exclusive, ReflectPolicy, Move, Save, Row,
         Mine
<1>3. Exclusive' /\ CheckpointsStay'
  BY DEF IInv, RunTypeOK, Progress, Exclusive, CheckpointsStay, ReflectPolicy,
         Move, Save, Row, Mine
<1>4. SucceededIsBacked' /\ TrajectoriesAttributed'
  BY DEF IInv, RunTypeOK, Progress, RegistriesAgree, SucceededIsBacked,
         TrajectoriesAttributed, ReflectPolicy, Move, Save, Row, Mine
<1>5. RefsOfSucceeded'
  BY OwnRecord DEF IInv, Progress, ReflectPolicy, Move
<1> QED BY <1>1, <1>2, <1>3, <1>4, <1>5 DEF IInv, RegistriesAgree

\* Trajectories get the version the run has published.
LEMMA TagTrajectoriesKeeps ==
  ASSUME IInv, NEW w \in Workers, TagTrajectories(w)
  PROVE  IInv'
<1>1. RunTypeOK'
  BY DEF IInv, RunTypeOK, Progress, Types, TagTrajectories, Move
<1>2. \A v \in Workers : Progress(v)'
  BY DEF IInv, RunTypeOK, Progress, Exclusive, TagTrajectories, Move
<1>3. Exclusive' /\ CheckpointsStay'
  BY DEF IInv, Exclusive, CheckpointsStay, TagTrajectories, Move
<1>4. SucceededIsBacked' /\ TrajectoriesAttributed'
  BY DEF IInv, RunTypeOK, Progress, RegistriesAgree, SucceededIsBacked,
         TrajectoriesAttributed, TagTrajectories, Move
<1>5. RefsOfSucceeded'
  BY DEF IInv, RunTypeOK, Progress, Exclusive, RegistriesAgree,
         RefsOfSucceeded, TagTrajectories, Move
<1> QED BY <1>1, <1>2, <1>3, <1>4, <1>5 DEF IInv, RegistriesAgree

\* A run that finishes has everything its record names.
LEMMA FinishKeeps ==
  ASSUME IInv, NEW w \in Workers, Finish(w)
  PROVE  IInv'
<1>1. RunTypeOK'
  BY DEF IInv, RunTypeOK, Progress, Types, Finish, Move, Save, Row, Mine
<1>2. \A v \in Workers : Progress(v)'
  BY DEF IInv, RunTypeOK, Progress, Exclusive, Finish, Move, Save, Row, Mine
<1>3. Exclusive' /\ CheckpointsStay'
  BY DEF IInv, RunTypeOK, Progress, Exclusive, CheckpointsStay, Finish, Move,
         Save, Row, Mine
<1>4. SucceededIsBacked' /\ TrajectoriesAttributed'
  BY DEF IInv, RunTypeOK, Progress, RegistriesAgree, SucceededIsBacked,
         TrajectoriesAttributed, Finish, Move, Save, Row, Mine
<1>5. RefsOfSucceeded'
  BY OwnRecord DEF IInv, Progress, Finish, Move
<1> QED BY <1>1, <1>2, <1>3, <1>4, <1>5 DEF IInv, RegistriesAgree

\* Refs are returned for the run just finished.
LEMMA ReportKeeps ==
  ASSUME IInv, NEW w \in Workers, Report(w)
  PROVE  IInv'
<1>1. RunTypeOK'
  <2>1. RunTypeOK /\ run[w] \in Runs
    BY DEF IInv, RunTypeOK, Progress, Report, Created
  <2>2. artifacts' \in [Runs -> SUBSET Types]
    BY <2>1 DEF RunTypeOK, Report, Register, Types
  <2>3. UNCHANGED <<record, ckpt, latest, policies, trajectories, kills>> /\ End(w, "refs")
    BY DEF Report
  <2>4. LocalsTypeOK'
    BY <2>1, <2>3, EndTypes
  <2> QED BY <2>1, <2>2, <2>3, <2>4 DEF RunTypeOK, LocalsTypeOK
<1>2. \A v \in Workers : Progress(v)'
  BY DEF IInv, RunTypeOK, Progress, Exclusive, Report, End, Register, Full,
         Batch
<1>3. Exclusive' /\ CheckpointsStay'
  <2>1. run' = run
    BY DEF IInv, RunTypeOK, Report, End
  <2>2. UNCHANGED <<record, ckpt, latest>>
    BY DEF Report
  <2> QED BY <2>1, <2>2 DEF IInv, Exclusive, CheckpointsStay
<1>4. SucceededIsBacked' /\ TrajectoriesAttributed'
  BY DEF IInv, RunTypeOK, Progress, RegistriesAgree, SucceededIsBacked,
         TrajectoriesAttributed, Report, End, Register, Full, Batch
<1>5. RefsOfSucceeded'
  BY DEF IInv, RunTypeOK, Progress, Exclusive, RegistriesAgree,
         RefsOfSucceeded, Report, End, Register, Full, Batch
<1> QED BY <1>1, <1>2, <1>3, <1>4, <1>5 DEF IInv, RegistriesAgree

\* A failed run is not a succeeded one.
LEMMA FailedKeeps ==
  ASSUME IInv, NEW w \in Workers, pc[w] = "except", run[w] # NONE,
         Save(w, FAILED, Mine(w).ckpt, Mine(w).policy), Move(w, "recover"),
         UNCHANGED <<artifacts, ckpt, latest, policies, trajectories>>
  PROVE  IInv'
<1>1. RunTypeOK'
  BY DEF IInv, RunTypeOK, Progress, Types, Move, Save, Row, Mine
<1>2. \A v \in Workers : Progress(v)'
  BY DEF IInv, RunTypeOK, Progress, Exclusive, Move, Save, Row, Mine
<1>3. Exclusive' /\ CheckpointsStay'
  BY DEF IInv, RunTypeOK, Progress, Exclusive, CheckpointsStay, Move, Save,
         Row, Mine
<1>4. SucceededIsBacked' /\ TrajectoriesAttributed'
  BY DEF IInv, RunTypeOK, Progress, RegistriesAgree, SucceededIsBacked,
         TrajectoriesAttributed, Move, Save, Row, Mine
<1>5. RefsOfSucceeded'
  BY OwnRecord DEF IInv, Progress, Move
<1> QED BY <1>1, <1>2, <1>3, <1>4, <1>5 DEF IInv, RegistriesAgree

\* A corrupt checkpoint still exists.
LEMMA CorruptKeeps ==
  ASSUME IInv, Corrupt
  PROVE  IInv'
<1>1. RunTypeOK'
  BY DEF IInv, RunTypeOK, Progress, Types, Corrupt, locals
<1>2. \A v \in Workers : Progress(v)'
  BY DEF IInv, RunTypeOK, Progress, Exclusive, Corrupt, locals
<1>3. Exclusive' /\ CheckpointsStay'
  BY DEF IInv, RunTypeOK, Progress, Exclusive, CheckpointsStay, Corrupt,
         locals
<1>4. SucceededIsBacked' /\ TrajectoriesAttributed'
  BY DEF IInv, RunTypeOK, Progress, RegistriesAgree, SucceededIsBacked,
         TrajectoriesAttributed, Corrupt, locals
<1>5. RefsOfSucceeded'
  BY DEF IInv, RunTypeOK, Progress, Exclusive, RegistriesAgree,
         RefsOfSucceeded, Corrupt, locals
<1> QED BY <1>1, <1>2, <1>3, <1>4, <1>5 DEF IInv, RegistriesAgree

\* Empty stores and idle workers satisfy the invariant.
LEMMA Initially == Init => IInv
BY DEF Init, IInv, RunTypeOK, Types, Row, Full, Batch, Progress, Exclusive,
       CheckpointsStay, RegistriesAgree, SucceededIsBacked,
       TrajectoriesAttributed, RefsOfSucceeded

\* One step per action; Raise, End and Move stand for the statements that share
\* them.
LEMMA Inductive == IInv /\ [Next]_vars => IInv'
<1> SUFFICES ASSUME IInv, [Next]_vars PROVE IInv'
  OBVIOUS
<1>1. CASE UNCHANGED vars
  BY <1>1 DEF vars, locals, IInv, RunTypeOK, Progress, Exclusive,
     CheckpointsStay, RegistriesAgree, SucceededIsBacked,
     TrajectoriesAttributed, RefsOfSucceeded
<1>2. CASE Corrupt
  BY <1>2, CorruptKeeps
<1>3. ASSUME NEW w \in Workers, Begin(w) PROVE IInv'
  BY <1>3, BeginKeeps
<1>4. ASSUME NEW w \in Workers, Kill(w) PROVE IInv'
  <2>1. kills' \in 0..KillBudget
    BY <1>4 DEF Kill, IInv, RunTypeOK
  <2> QED BY <1>4, <2>1, EndKeeps DEF Kill
<1>5. ASSUME NEW w \in Workers, Step(w) PROVE IInv'
  <2>1. kills \in 0..KillBudget
    BY DEF IInv, RunTypeOK
  <2>2. CASE Preflight(w)
    BY <2>2, MoveKeeps, RaiseKeeps DEF Preflight, Raise
  <2>3. CASE Train(w)
    BY <2>3, MoveKeeps, RaiseKeeps DEF Train, Raise
  <2>4. CASE TrainWithoutResume(w)
    BY <2>4, MoveKeeps, RaiseKeeps DEF TrainWithoutResume, Raise
  <2>5. CASE Publish(w)
    BY <2>5, PublishKeeps, RaiseKeeps DEF Publish, Raise
  <2>6. CASE Stumble(w)
    BY <2>6, RaiseKeeps DEF Stumble, Raise
  <2>7. CASE FailRun(w)
    BY <2>7, MoveKeeps, FailedKeeps, RaiseKeeps DEF FailRun
  <2>8. CASE Recover(w)
    BY <2>1, <2>8, EndKeeps, RetryKeeps DEF Recover
  <2> QED
    BY <1>5, <2>2, <2>3, <2>4, <2>5, <2>6, <2>7, <2>8, CreateRunKeeps,
       StartRunKeeps, IndexDatasetKeeps, SaveCheckpointKeeps,
       IndexCheckpointKeeps, NextVersionKeeps, IndexPolicyKeeps,
       ReflectPolicyKeeps, TagTrajectoriesKeeps, FinishKeeps, ReportKeeps
    DEF Step
<1> QED BY <1>1, <1>2, <1>3, <1>4, <1>5 DEF Next

\* For any workers, runs, kills and races for a policy version, the registries
\* agree about every run that succeeded.
THEOREM RegistriesAlwaysAgree == Spec => []RegistriesAgree
<1>1. IInv => RegistriesAgree
  BY DEF IInv
<1> QED BY Initially, Inductive, <1>1, PTL DEF Spec

\* A step of one worker moves no other's program counter.
LEMMA StepMoves ==
  ASSUME NEW v \in Workers, Step(v)
  PROVE  \E l : pc' = [pc EXCEPT ![v] = l]
BY DEF Step, Preflight, CreateRun, StartRun, IndexDataset, Train,
   TrainWithoutResume, SaveCheckpoint, IndexCheckpoint, NextVersion, Publish,
   IndexPolicy, ReflectPolicy, TagTrajectories, Finish, Report, Stumble, FailRun,
   Recover, Retry, Raise, Move, End

\* At "recover" there is nothing else to do.
LEMMA OnlyRecover ==
  ASSUME NEW v \in Workers, Step(v), pc[v] = "recover"
  PROVE  Recover(v)
BY DEF Step, Preflight, CreateRun, StartRun, IndexDataset, Train,
   TrainWithoutResume, SaveCheckpoint, IndexCheckpoint, NextVersion, Publish,
   IndexPolicy, ReflectPolicy, TagTrajectories, Finish, Report, Stumble, FailRun

\* For any config and any number of workers, an OOM retry starts on a strictly
\* smaller batch and only after the attempt before it is recorded as FAILED.
THEOREM RetriesAreClean == Spec => RetryIsClean
<1>1. ASSUME IInv, [Next]_vars, NEW w \in Workers, Retries(w)
      PROVE  /\ Size(batch'[w]) < Size(batch[w])
             /\ run[w] # NONE
             /\ record[run[w]].status = FAILED
  <2>1. PICK v \in Workers : Begin(v) \/ Step(v) \/ Kill(v)
    BY <1>1 DEF Retries, Next, vars, locals, Corrupt
  <2>2. v = w
    BY <1>1, <2>1, StepMoves DEF Retries, Begin, Kill, End, IInv, RunTypeOK
  <2>3. Recover(w)
    BY <1>1, <2>1, <2>2, OnlyRecover DEF Retries, Begin, Kill, End, IInv, RunTypeOK
  <2>4. Retry(w)
    BY <1>1, <2>3 DEF Retries, Recover, End, IInv, RunTypeOK
  <2> QED
    BY <1>1, <2>4, ShrinkShrinks DEF Retry, Retries, IInv, RunTypeOK, Progress
<1>2. IInv /\ [Next]_vars => [\A w \in Workers : Retries(w) =>
         /\ Size(batch'[w]) < Size(batch[w])
         /\ run[w] # NONE
         /\ record[run[w]].status = FAILED]_vars
  BY <1>1
<1> QED BY Initially, Inductive, <1>2, PTL DEF Spec, RetryIsClean

\* The platform is type correct for any workers, runs and budgets.
THEOREM RunTypeCorrect == Spec => []RunTypeOK
<1>1. IInv => RunTypeOK
  BY DEF IInv
<1> QED BY Initially, Inductive, <1>1, PTL DEF Spec

-----------------------------------------------------------------------------
(* What preflight has let through can be halved without dropping below two, *)
(* unless it is a lone group of three.                                      *)

Untried == {"idle", "preflight", "except", "recover"}

Trainable ==
  \A w \in Workers :
    pc[w] \notin Untried \/ exc[w] = "oom" => batch[w].samples >= 2

\* What halving a batch that passed preflight gives.
LEMMA ShrinkTrainable ==
  ASSUME NEW b \in [prompts : Nat, samples : Nat], CanShrink(b),
         b.prompts > 0, b.samples >= 2
  PROVE  Shrink(b).samples >= 2 \/ b = Batch(1, 3)
<1>1. CASE b.prompts > 1
  BY <1>1 DEF Shrink, Batch
<1>2. CASE ~(b.prompts > 1) /\ b.samples = 3
  BY <1>2 DEF Batch
<1>3. CASE ~(b.prompts > 1) /\ b.samples # 3
  BY <1>3 DEF Shrink, Batch, CanShrink
<1> QED BY <1>1, <1>2, <1>3

\* What a step does to the locals that matter here, of the worker that takes
\* it and of the others.
LEMMA TrainableStep ==
  ASSUME IInv, Trainable, NEW v \in Workers, Begin(v) \/ Step(v) \/ Kill(v)
  PROVE  /\ \A u \in Workers \ {v} : /\ pc'[u] = pc[u] /\ exc'[u] = exc[u]
                                      /\ batch'[u] = batch[u]
         /\ pc'[v] \notin Untried \/ exc'[v] = "oom" => batch'[v].samples >= 2
<1> USE DEF IInv, RunTypeOK, Trainable, Untried, Move, Goto, Raise, End
<1>1. CASE Begin(v)
  BY <1>1 DEF Begin
<1>2. CASE Kill(v)
  BY <1>2 DEF Kill
<1>3. CASE Preflight(v)
  <2>1. CASE PreflightOK(v) /\ Move(v, "create")
    BY <2>1 DEF PreflightOK
  <2>2. CASE Raise(v, "error")
    BY <1>3, <2>2 DEF Preflight
  <2> QED BY <1>3, <2>1, <2>2 DEF Preflight
<1>4. CASE CreateRun(v) \/ StartRun(v) \/ IndexDataset(v)
  BY <1>4 DEF CreateRun, StartRun, IndexDataset
<1>5. CASE Train(v) \/ TrainWithoutResume(v)
  BY <1>5 DEF Train, TrainWithoutResume
<1>6. CASE SaveCheckpoint(v) \/ IndexCheckpoint(v) \/ NextVersion(v) \/ Publish(v)
  <2>1. CASE SaveCheckpoint(v)
    BY <2>1 DEF SaveCheckpoint
  <2>2. CASE IndexCheckpoint(v)
    BY <2>2 DEF IndexCheckpoint
  <2>3. CASE NextVersion(v)
    BY <2>3 DEF NextVersion
  <2>4. CASE Publish(v)
    BY <2>4 DEF Publish
  <2> QED BY <1>6, <2>1, <2>2, <2>3, <2>4
<1>7. CASE IndexPolicy(v) \/ ReflectPolicy(v) \/ TagTrajectories(v) \/ Finish(v)
  BY <1>7 DEF IndexPolicy, ReflectPolicy, TagTrajectories, Finish
<1>8. CASE Report(v)
  BY <1>8 DEF Report
<1>9. CASE Stumble(v)
  BY <1>9 DEF Stumble
<1>10. CASE FailRun(v)
  BY <1>10 DEF FailRun
<1>11. CASE Recover(v)
  BY <1>11 DEF Recover, Retry
<1> QED
  BY <1>1, <1>2, <1>3, <1>4, <1>5, <1>6, <1>7, <1>8, <1>9, <1>10, <1>11 DEF Step

\* The invariant is kept by every step.
LEMMA TrainableInductive == IInv /\ Trainable /\ [Next]_vars => Trainable'
<1> SUFFICES ASSUME IInv, Trainable, [Next]_vars PROVE Trainable'
  OBVIOUS
<1>1. CASE UNCHANGED vars \/ Corrupt
  BY <1>1 DEF Trainable, vars, locals, Corrupt
<1>2. ASSUME NEW v \in Workers, Begin(v) \/ Step(v) \/ Kill(v) PROVE Trainable'
  BY <1>2, TrainableStep DEF Trainable
<1> QED BY <1>1, <1>2 DEF Next

\* For any config and any number of workers, an OOM retry gets a batch that
\* preflight accepts, unless the batch was a lone group of three.
THEOREM RetriesTrainable == Spec => RetriesAreTrainable
<1>1. Init => Trainable
  BY DEF Init, Trainable, Untried
<1>2. ASSUME IInv, Trainable, [Next]_vars, NEW w \in Workers, Retries(w)
      PROVE  batch'[w].samples >= 2 \/ batch[w] = Batch(1, 3)
  <2>1. PICK v \in Workers : Begin(v) \/ Step(v) \/ Kill(v)
    BY <1>2 DEF Retries, Next, vars, locals, Corrupt
  <2>2. v = w
    BY <1>2, <2>1, StepMoves DEF Retries, Begin, Kill, End, IInv, RunTypeOK
  <2>3. Recover(w)
    BY <1>2, <2>1, <2>2, OnlyRecover DEF Retries, Begin, Kill, End, IInv, RunTypeOK
  <2>4. Retry(w)
    BY <1>2, <2>3 DEF Retries, Recover, End, IInv, RunTypeOK
  <2>5. batch'[w] = Shrink(batch[w]) /\ exc[w] = "oom" /\ CanShrink(batch[w])
    BY <1>2, <2>4 DEF Retry, IInv, RunTypeOK
  <2>6. batch[w] \in [prompts : Nat, samples : Nat] /\ batch[w].prompts > 0
    BY <1>2 DEF IInv, RunTypeOK, Progress
  <2> QED
    BY <1>2, <2>5, <2>6, ShrinkTrainable DEF Trainable
<1>3. IInv /\ Trainable /\ [Next]_vars =>
        [\A w \in Workers : Retries(w) =>
           batch'[w].samples >= 2 \/ batch[w] = Batch(1, 3)]_vars
  BY <1>2
<1> QED
  BY Initially, Inductive, <1>1, TrainableInductive, <1>3, PTL DEF Spec, RetriesAreTrainable

=============================================================================
