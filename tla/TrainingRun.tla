------------------------------ MODULE TrainingRun ------------------------------
(***************************************************************************)
(* One execution of a training job: run_with_oom_recovery() of             *)
(* platform/control.py around run_through_platform() of rl/run.py, which   *)
(* threads the run through the registries of platform/integration.py.      *)
(*                                                                         *)
(* The workers share one platform root. Every commit to a registry is a    *)
(* step, any of them may raise, and a worker may be killed between two.    *)
(* A run record, and the checkpoint made under it, are named by their run. *)
(***************************************************************************)
EXTENDS Integers, Sequences

CONSTANTS
  Workers,              \* processes executing a training job
  Runs,                 \* run ids; their number bounds the attempts explored
  NONE,                 \* Python's None for runs and checkpoints
  Prompts, Samples,     \* prompts_per_step and num_samples of the config
  MaxOomRetries,        \* max_oom_retries (4 in the code)
  KillBudget            \* how many times a worker is killed

ASSUME NoneAssumption   == NONE \notin Runs
ASSUME ConfigAssumption == /\ Prompts \in Nat \ {0}
                           /\ Samples \in Nat \ {0}
                           /\ MaxOomRetries \in Nat
                           /\ KillBudget \in Nat

VARIABLES
  record,     \* registry.db: status, best_checkpoint, policy_version of each run
  artifacts,  \* artifacts.db: types registered under each run
  ckpt,       \* checkpoints/: what each run's checkpoint holds on disk
  latest,     \* the run whose checkpoint was saved last
  policies,   \* policies/: policies[n] is the run that published v{n}
  trajectories, \* trajectories.db: <<lineage.job_id, version in policy_id>>
  pc, batch, attempt, resume, run, version, exc,   \* locals of each worker
  result,     \* how the last execution ended
  kills

stores == <<record, artifacts, ckpt, latest, policies, trajectories>>
locals == <<pc, batch, attempt, resume, run, version, exc, result>>
vars   == <<stores, locals, kills>>

ABSENT    == "absent"
CREATED   == "created"
RUNNING   == "running"
SUCCEEDED == "succeeded"
FAILED    == "failed"

Row(s, c, v) == [status |-> s, ckpt |-> c, policy |-> v]

Batch(p, n) == [prompts |-> p, samples |-> n]
Full == Batch(Prompts, Samples)

Init ==
  /\ record    = [r \in Runs |-> Row(ABSENT, NONE, 0)]
  /\ artifacts = [r \in Runs |-> {}]
  /\ ckpt      = [r \in Runs |-> ABSENT]
  /\ latest    = NONE
  /\ policies  = <<>>
  /\ trajectories = {}
  /\ pc        = [w \in Workers |-> "idle"]
  /\ batch     = [w \in Workers |-> Full]
  /\ attempt   = [w \in Workers |-> 0]
  /\ resume    = [w \in Workers |-> NONE]
  /\ run       = [w \in Workers |-> NONE]
  /\ version   = [w \in Workers |-> 0]
  /\ exc       = [w \in Workers |-> "none"]
  /\ result    = [w \in Workers |-> "none"]
  /\ kills     = 0

Goto(w, l) == pc' = [pc EXCEPT ![w] = l]

\* Only the program counter moves among the worker's locals.
Move(w, l) ==
  Goto(w, l) /\ UNCHANGED <<batch, attempt, resume, run, version, exc, result, kills>>

Register(w, type) ==
  artifacts' = [artifacts EXCEPT ![run[w]] = artifacts[run[w]] \cup {type}]

\* INSERT OR REPLACE of the run's own record.
Save(w, s, c, v) == record' = [record EXCEPT ![run[w]] = Row(s, c, v)]
Mine(w) == record[run[w]]

Fresh == {r \in Runs : record[r].status = ABSENT}

-----------------------------------------------------------------------------
(* run_through_platform(), statement by statement.                          *)

\* The first attempt, on the config as submitted and from no checkpoint.
Begin(w) ==
  /\ pc[w] = "idle"
  /\ Goto(w, "preflight")
  /\ run'    = [run EXCEPT ![w] = NONE]
  /\ result' = [result EXCEPT ![w] = "none"]
  /\ UNCHANGED <<stores, batch, attempt, resume, version, exc, kills>>

\* The check of preflight that depends on what recovery changes.
PreflightOK(w) == batch[w].samples >= 2

Raise(w, e) ==
  /\ Goto(w, "except")
  /\ exc' = [exc EXCEPT ![w] = e]
  /\ UNCHANGED <<stores, batch, attempt, resume, run, version, result, kills>>

Preflight(w) ==
  /\ pc[w] = "preflight"
  /\ \/ PreflightOK(w) /\ Move(w, "create") /\ UNCHANGED stores
     \/ ~PreflightOK(w) /\ Raise(w, "error")

\* start(): the record is inserted CREATED, then set RUNNING, then the
\* dataset is indexed.
CreateRun(w) ==
  /\ pc[w] = "create"
  /\ \E r \in Fresh :
       /\ record' = [record EXCEPT ![r] = Row(CREATED, NONE, 0)]
       /\ run' = [run EXCEPT ![w] = r]
  /\ Goto(w, "start")
  /\ UNCHANGED <<artifacts, ckpt, latest, policies, trajectories,
                 batch, attempt, resume, version, exc, result, kills>>

StartRun(w) ==
  /\ pc[w] = "start"
  /\ Save(w, RUNNING, Mine(w).ckpt, Mine(w).policy)
  /\ Move(w, "dataset")
  /\ UNCHANGED <<artifacts, ckpt, latest, policies, trajectories>>

IndexDataset(w) ==
  /\ pc[w] = "dataset"
  /\ Register(w, "prompt_dataset")
  /\ Move(w, "train")
  /\ UNCHANGED <<record, ckpt, latest, policies, trajectories>>

\* The runner trains from the resume checkpoint, if there is one. A TypeError
\* is taken for a runner without the argument, and the runner called again.
Train(w) ==
  /\ pc[w] = "train"
  /\ \/ Move(w, "checkpoint") /\ UNCHANGED stores
     \/ Move(w, "retrain") /\ UNCHANGED stores
     \/ \E e \in {"oom", "error"} : Raise(w, e)

TrainWithoutResume(w) ==
  /\ pc[w] = "retrain"
  /\ \/ Move(w, "checkpoint") /\ UNCHANGED stores
     \/ \E e \in {"oom", "error"} : Raise(w, e)

\* register_checkpoint(): CheckpointRegistry.save() commits by one rename.
SaveCheckpoint(w) ==
  /\ pc[w] = "checkpoint"
  /\ ckpt'   = [ckpt EXCEPT ![run[w]] = "good"]
  /\ latest' = run[w]
  /\ Move(w, "index")
  /\ UNCHANGED <<record, artifacts, policies, trajectories>>

IndexCheckpoint(w) ==
  /\ pc[w] = "index"
  /\ Register(w, "checkpoint")
  /\ Move(w, "next")
  /\ UNCHANGED <<record, ckpt, latest, policies, trajectories>>

\* publish(): the next version is read from the directory ...
NextVersion(w) ==
  /\ pc[w] = "next"
  /\ version' = [version EXCEPT ![w] = Len(policies) + 1]
  /\ Goto(w, "publish")
  /\ UNCHANGED <<stores, batch, attempt, resume, run, exc, result, kills>>

\* Mutant: the ingest overwrites a version that exists.
PublishOverwrites(w) ==
  /\ pc[w] = "publish"
  /\ policies' = IF version[w] > Len(policies) THEN Append(policies, run[w])
                 ELSE [policies EXCEPT ![version[w]] = run[w]]
  /\ Move(w, "published")
  /\ UNCHANGED <<record, artifacts, ckpt, latest, trajectories>>

\* ... and ingested, unless another publisher has taken it.
Publish(w) ==
  /\ pc[w] = "publish"
  /\ \/ /\ version[w] > Len(policies)
        /\ policies' = Append(policies, run[w])
        /\ Move(w, "published")
        /\ UNCHANGED <<record, artifacts, ckpt, latest, trajectories>>
     \/ version[w] <= Len(policies) /\ Raise(w, "error")

IndexPolicy(w) ==
  /\ pc[w] = "published"
  /\ Register(w, "policy")
  /\ Move(w, "reflect")
  /\ UNCHANGED <<record, ckpt, latest, policies, trajectories>>

\* The policy version is written on the run record.
ReflectPolicy(w) ==
  /\ pc[w] = "reflect"
  /\ Save(w, Mine(w).status, Mine(w).ckpt, version[w])
  /\ Move(w, "tag")
  /\ UNCHANGED <<artifacts, ckpt, latest, policies, trajectories>>

\* The evaluation samples, put with the version this run published.
TagTrajectories(w) ==
  /\ pc[w] = "tag"
  /\ trajectories' = trajectories \cup {<<run[w], version[w]>>}
  /\ Move(w, "finish")
  /\ UNCHANGED <<record, artifacts, ckpt, latest, policies>>

Finish(w) ==
  /\ pc[w] = "finish"
  /\ Save(w, SUCCEEDED, run[w], Mine(w).policy)
  /\ Move(w, "report")
  /\ UNCHANGED <<artifacts, ckpt, latest, policies, trajectories>>

\* The call is over and its locals are gone, but for the run it returns.
End(w, how) ==
  /\ Goto(w, "idle")
  /\ result'  = [result EXCEPT ![w] = how]
  /\ batch'   = [batch EXCEPT ![w] = Full]
  /\ attempt' = [attempt EXCEPT ![w] = 0]
  /\ resume'  = [resume EXCEPT ![w] = NONE]
  /\ version' = [version EXCEPT ![w] = 0]
  /\ exc'     = [exc EXCEPT ![w] = "none"]
  /\ run'     = [run EXCEPT ![w] = IF how = "refs" THEN run[w] ELSE NONE]

Report(w) ==
  /\ pc[w] = "report"
  /\ Register(w, "eval_report")
  /\ End(w, "refs")
  /\ UNCHANGED <<record, ckpt, latest, policies, trajectories,
                 kills>>

\* Any of these calls may raise: a full disk, a locked database, a drifted
\* dataset.
Fallible == {"preflight", "create", "start", "dataset", "checkpoint", "index",
             "next", "publish", "published", "reflect", "tag", "finish", "report"}

Stumble(w) == pc[w] \in Fallible /\ Raise(w, "error")

\* Mutant: the handler only logs.
FailRunForgotten(w) == pc[w] = "except" /\ Move(w, "recover") /\ UNCHANGED stores

\* except Exception: the record, if there is one by now, becomes FAILED. When
\* that write raises too, its exception takes the place of the first.
FailRun(w) ==
  /\ pc[w] = "except"
  /\ \/ run[w] = NONE /\ Move(w, "recover") /\ UNCHANGED stores
     \/ /\ run[w] # NONE
        /\ Save(w, FAILED, Mine(w).ckpt, Mine(w).policy)
        /\ Move(w, "recover")
        /\ UNCHANGED <<artifacts, ckpt, latest, policies, trajectories>>
     \/ /\ run[w] # NONE
        /\ Goto(w, "recover")
        /\ exc' = [exc EXCEPT ![w] = "error"]
        /\ UNCHANGED <<stores, batch, attempt, resume, run, version, result, kills>>

-----------------------------------------------------------------------------
(* run_with_oom_recovery(): what it does with the exception.                *)

\* _shrink_batch(): prompts first, then the group; NONE at the minimum.
CanShrink(b) == b.prompts > 1 \/ b.samples > 2

\* Mutant: the group is halved before the prompts.
ShrinkGroupFirst(b) == IF b.samples > 1 THEN Batch(b.prompts, b.samples \div 2)
                                        ELSE Batch(b.prompts \div 2, b.samples)

Shrink(b) == IF b.prompts > 1 THEN Batch(b.prompts \div 2, b.samples)
                              ELSE Batch(b.prompts, b.samples \div 2)

Retry(w) ==
  /\ exc[w] = "oom" /\ CanShrink(batch[w]) /\ attempt[w] < MaxOomRetries
  /\ Goto(w, "preflight")
  /\ batch'   = [batch EXCEPT ![w] = Shrink(batch[w])]
  /\ attempt' = [attempt EXCEPT ![w] = attempt[w] + 1]
  /\ resume'  = [resume EXCEPT ![w] = latest]
  /\ run'     = [run EXCEPT ![w] = NONE]
  /\ version' = [version EXCEPT ![w] = 0]
  /\ exc'     = [exc EXCEPT ![w] = "none"]
  /\ UNCHANGED result

\* The last attempt's shrunk batch is never tried: the loop is over, and the
\* function returns None.
Recover(w) ==
  /\ pc[w] = "recover"
  /\ \/ exc[w] = "error" /\ End(w, "error")
     \/ exc[w] = "oom" /\ ~CanShrink(batch[w]) /\ End(w, "oom")
     \/ exc[w] = "oom" /\ CanShrink(batch[w]) /\ attempt[w] = MaxOomRetries
        /\ End(w, "None")
     \/ Retry(w)
  /\ UNCHANGED <<stores, kills>>

-----------------------------------------------------------------------------
Kill(w) ==
  /\ pc[w] # "idle"
  /\ kills < KillBudget
  /\ kills' = kills + 1
  /\ End(w, "killed")
  /\ UNCHANGED stores

\* sim_corrupt_checkpoint(), or bit rot in the newest checkpoint.
Corrupt ==
  /\ latest # NONE
  /\ ckpt' = [ckpt EXCEPT ![latest] = "corrupt"]
  /\ UNCHANGED <<record, artifacts, latest, policies, trajectories, locals, kills>>

Step(w) ==
  \/ Preflight(w) \/ CreateRun(w) \/ StartRun(w) \/ IndexDataset(w)
  \/ Train(w) \/ TrainWithoutResume(w)
  \/ SaveCheckpoint(w) \/ IndexCheckpoint(w)
  \/ NextVersion(w) \/ Publish(w) \/ IndexPolicy(w) \/ ReflectPolicy(w)
  \/ TagTrajectories(w) \/ Finish(w) \/ Report(w)
  \/ Stumble(w) \/ FailRun(w) \/ Recover(w)

Next == Corrupt \/ \E w \in Workers : Begin(w) \/ Step(w) \/ Kill(w)

Spec == Init /\ [][Next]_vars

-----------------------------------------------------------------------------
Labels == {"idle", "train", "retrain", "except", "recover"} \cup Fallible
Status == {ABSENT, CREATED, RUNNING, SUCCEEDED, FAILED}
Types  == {"prompt_dataset", "checkpoint", "policy", "eval_report"}

RunTypeOK ==
  /\ record \in [Runs -> [status : Status, ckpt : Runs \cup {NONE}, policy : Nat]]
  /\ artifacts \in [Runs -> SUBSET Types]
  /\ ckpt \in [Runs -> {ABSENT, "good", "corrupt"}]
  /\ latest \in Runs \cup {NONE}
  /\ policies \in Seq(Runs)
  /\ trajectories \subseteq Runs \X Nat
  /\ pc \in [Workers -> Labels]
  /\ batch \in [Workers -> [prompts : Nat, samples : Nat]]
  /\ attempt \in [Workers -> 0..MaxOomRetries]
  /\ resume \in [Workers -> Runs \cup {NONE}]
  /\ run \in [Workers -> Runs \cup {NONE}]
  /\ version \in [Workers -> Nat]
  /\ exc \in [Workers -> {"none", "oom", "error"}]
  /\ result \in [Workers -> {"none", "refs", "error", "oom", "None", "killed"}]
  /\ kills \in 0..KillBudget

SucceededIsBacked ==
  \A r \in Runs : record[r].status = SUCCEEDED =>
    /\ record[r].ckpt = r
    /\ ckpt[r] # ABSENT
    /\ record[r].policy \in 1..Len(policies)
    /\ policies[record[r].policy] = r
    /\ {"prompt_dataset", "checkpoint", "policy"} \subseteq artifacts[r]

TrajectoriesAttributed ==
  \A t \in trajectories : t[2] \in 1..Len(policies) /\ policies[t[2]] = t[1]

RefsOfSucceeded ==
  \A w \in Workers : result[w] = "refs" => record[run[w]].status = SUCCEEDED

\* The registries agree about a run that succeeded, although they are separate
\* stores written one after the other by workers that race for the same policy
\* version: its record names its own checkpoint and a version it published
\* itself, its lineage is indexed, and every trajectory is attributed to the
\* run whose policy generated it. Refs are returned for such runs only.
RegistriesAgree ==
  SucceededIsBacked /\ TrajectoriesAttributed /\ RefsOfSucceeded

Retries(w) == pc[w] = "recover" /\ pc'[w] = "preflight"

Size(b) == b.prompts * b.samples

\* An OOM retry starts on a smaller batch, and only after the attempt before it
\* is closed as FAILED: retrying never leaves a RUNNING record behind.
RetryIsClean ==
  [][\A w \in Workers : Retries(w) =>
        /\ Size(batch'[w]) < Size(batch[w])
        /\ run[w] # NONE
        /\ record[run[w]].status = FAILED]_vars

\* Recovery makes a batch that preflight refuses ("undefined for a group of 1",
\* preflight.py) in one case only, when it halves a lone group of three: every
\* other OOM is retried on a batch that can be trained, and is not turned into
\* a configuration error.
RetriesAreTrainable ==
  [][\A w \in Workers : Retries(w) =>
        batch'[w].samples >= 2 \/ batch[w] = Batch(1, 3)]_vars

\* A checkpoint that no longer matches its manifest is never trained from:
\* corruption is detected "before any resume" (ARCHITECTURE.md section 4).
ResumeIsVerified ==
  [][\A w \in Workers :
        pc[w] = "train" /\ pc'[w] = "checkpoint" /\ resume[w] # NONE =>
          ckpt[resume[w]] = "good"]_vars

=============================================================================
