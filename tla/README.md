# A TLA+ model of shoprl-fabric

shoprl-fabric trains small language models with RL on one machine. Around the
training code it builds a control plane: a SQLite job queue with leases and
retries, a scheduler with resource slots, worker daemons with a heartbeat and a
reaper, a worker pool and a pipeline on top of it, a recovery controller, and
registries for runs, checkpoints, policies, prompts, artifacts and trajectories.
This project models that control plane, the control flow of the trainers, and
the shopping task they train on; it checks and proves what must hold when
processes, threads, crashes, retries and corrupted files meet.

Paths below are relative to `src/src/shoprl/platform/` unless they say otherwise.

## 1. Inventory

| Component | State | Operations | What makes it correct |
|---|---|---|---|
| Job lifecycle (`jobs.py`) | the transition graph | `can_transition` | a job's history is a walk of the graph; ended jobs stay ended |
| Job store (`store.py`) | `jobs` table: state, attempts, lease, priority, age; `job_results` | `create`, `transition`, `fail`, `complete`, `claim`, `claim_priority`, `renew_lease`, `reap_expired`, `update_payload`, `record_result` | bounded retry in spite of stale reads; one winner per claim; only RUNNING jobs have leases; no crash point strands a job |
| Scheduler (`scheduler.py`) | none: capacity is derived from the table | `schedule`, `submit`, `complete`, `fail`, `cancel` | running jobs fit the slots and the cap |
| Worker daemon (`control.py`) | the pass it is in, the jobs it admitted, a heartbeat thread | `serve_pending`, `serve_forever`, `run_with_oom_recovery` | every job ends; the worker survives lost races; OOM retries shrink and end |
| API (`api.py`) | none | jobs, training jobs, pause, resume, cancel, runs, artifacts, simulations | a refused or lost request changes nothing |
| Training run (`integration.py`, `rl/run.py`) | current run, policy version | `run_through_platform` | the registries agree about a succeeded run |
| File registries (`_atomic.py`, `checkpoints.py`, `policy.py`, `prompt_registry.py`) | directories with a manifest, a staging area | `save`, `save_state`, `publish`, `materialize`, `verify`, `load_state`, `sweep_staging`, `prune`, `PolicyClient` | nothing half-written is visible; versions are never overwritten; retention keeps the newest; a corruption is found before it is loaded |
| Metadata registries (`registry.py`, `artifacts.py`, `traj_store.py`, `trajectory.py`) | run records, artifact and trajectory rows | `save`, `start`, `finish`, `register`, `ancestors`, `put`, `prune`, `ancestry` | updates are not undone by the next one; lineage is complete |
| Recovery controller (`failures.py`) | none | `classify`, `handle` | the effective batch is kept; a job is not left where nobody finds it |
| Worker pool (`workers.py`) | per-process loop | `run_once`, `run_local_pool` | what a redelivered job has recorded is not produced again; the pool ends |
| Pipeline (`pipeline.py`) | step, policy, metrics rows | `run` | recorded groups are complete; the run ends |
| Simulations (`dash_data.py`) | none | `sim_*` | the demo leaves the queue usable |
| Environment and rewards (`env/`, `reward/`) | an episode; an answer | `reset`, `step`, scores | money is conserved; the score cannot be gamed by inventing |
| Trainers (`rl/`, `grpo/`), preflight (`preflight.py`), alerts (`observability/alerts.py`) | weights, metrics rows, adapters | preflight, `train`, evaluation, alert rules | a divergence never looks healthy |
| Rollout engines, evaluation, benchmarks, dashboards | tensors, files | - | not modelled, section 8 |

**How they interact.** Workers, the API, the pool and the dashboard are separate
processes that share one SQLite file per store and one directory tree; a worker
also has a heartbeat thread with its own connection. Nothing is locked from a
SELECT to the UPDATE that follows it: the only protection of the job table is
the guard `WHERE id=? AND state=?`, run records have none, and directories are
told apart by `os.replace()`. A worker that admits a training job calls
`run_through_platform()`, which writes six stores one after the other, without a
transaction over them. The pipeline's pool claims jobs of every kind, also those
that others put into the queue.

**What is hard here.** Statements of several processes interleave (stale
attempts, a state that comes back, counting before claiming); a process may be
killed between any two statements or system calls; leases run out while their
holder is alive; exceptions of one call are caught and those of another are not;
registries are written in sequence and any write may raise; publishers want the
same version; a janitor removes what others are writing or reading; a non-finite
number spreads through the weights. `PROJECT.json` lists these as hazards, each
at its line.

## 2. Modules

```
JobStates ─┬─ JobLifecycle (abstract) <─── implemented by JobStore and Pipeline
           ├─ JobStore ──┬─ JobStoreProofs ──┬───────┐
           │             ├─ ControlPlane ────┴─ ControlPlaneProofs
           │             └─ WorkerPool ──────────────┴─ WorkerPoolProofs
           └─ Recovery ─── Pipeline ── PipelineProofs
TrainingRun ── TrainingRunProofs     FileRegistry ─┬─> PolicyLog (abstract)
Trainer ─────────────┐                             └── FileRegistryProofs
Catalog ─┬─ ShopEnv ─┼─ Learning
         └─ Rewards ─┴─ LearningProofs             RunRegistry ─┬─ RunRegistryProofs
                                                                └─ Lineage
```

* **JobStates**: states and transition graph of `jobs.py`.
* **JobLifecycle**: what a reader of the table may rely on. A job is created,
  then moves along an edge of the graph, or fails: one move for the whole path
  FAILED -> RETRYING -> PENDING, or FAILED -> DEAD_LETTER.
* **JobStore**: the table, and clients that issue its statements. A step is one
  SELECT or one UPDATE + commit. `call[c]` is what client `c` carries between
  the two: the state it read and the values it will write, or a page of claim
  candidates. `reaping[c]` is the list `reap_expired()` has read. A client may
  make any call some caller in the repository makes, so what holds here holds
  for every program over the store. Time is reduced to what the code compares:
  a lease is NULL, LIVE or EXPIRED. `fails` is a history variable, the failures
  really committed, counted up to the budget.
* **ControlPlane**: the daemons as programs over those calls. `pc[d]` follows
  `serve_pending()`: reap, count, admit GPU, admit CPU, then per admitted job
  reject, or renew, train, and complete or fail. Each place where the code
  catches an exception continues; each place where it does not sends the daemon
  to `raised`. `Kill` and `Restart` may come between any two statements.
  Operators send pause, resume and cancel requests.
* **WorkerPool**: `run_local_pool()` over the same calls. `pc[w]` follows
  `run_once()`: claim, look the result up, handle, record, complete or fail, and
  exit on an empty queue. `complete()` of a handled job is inside the code's
  `try`, so that what it raises leads to `fail`; everything else that is raised
  ends the process. `ledger` is the table `job_results`. Outsiders are the reapers
  and operators of other processes. Two history variables: `runs` counts handler
  starts, `effects` the starts beside another run of the same job and the results
  recorded over one that was there.
* **TrainingRun**: one call of `run_with_oom_recovery()`, one step per commit of
  `run_through_platform()`. Any fallible call may raise, a worker may be killed,
  the newest checkpoint may rot. The run record, its checkpoint, its policy
  version and its trajectories are named by the run that wrote them, so that
  "whose is it" can be asked. Batches are real numbers of prompts and samples,
  because the halving matters.
* **Recovery**: the recovery controller and the simulations. `transition()` and
  `fail()` are a SELECT and an UPDATE that is guarded by the state alone; between
  them a process carries the `row` it read, so a stale count of attempts may be
  written. A call of the controller is a sequence of these, `reap_expired()` is a list
  and then a `fail()` of each, and a process may be killed between any two statements.
  The `Visitor` is whoever else works on the queue: a simulation, or a consumer that
  reports its failure to the controller; the `Reaper` is a daemon on the same table.
  `fails` is a history variable, the failures committed.
* **Pipeline**: the pipeline process, its pool and the rollout handler over
  Recovery's table, with the injected OOM, kills, lost leases, handler errors, and
  a second run on the same root. A trajectory is a commit of its own; `complete()`
  and the `fail()` after it are separate statements, between which another worker
  may have the job.
* **FileRegistry**: the ingest that the checkpoint, policy and prompt registries
  share, system call by system call; a janitor that sweeps and prunes entry by
  entry; a corruption; a reader that verifies, then loads; a policy client. A
  directory is known by the ingest that made it, wherever it is: `rmtree()`
  unlinks through the open directory, also after a rename.
* **PolicyLog**: what the policy registry promises: an append-only log of versions,
  each with one publisher, and a worker that follows its end or is pinned.
* **RunRegistry**: run records that clients read and later write back as a whole;
  artifacts with any parents; trajectories that are pruned while `ancestry()` is
  followed row by row.
* **Lineage**: the `ancestors()` walk over those artifacts, and `children()`. The walk
  is a recursive operator, which the prover cannot have in a module it reasons
  about; so it has a module of its own.
* **Catalog, ShopEnv, Rewards**: products and constraints; the environment and its
  episode reward; the parser's merge and every component of the composite reward
  of one answer. Amounts are in cents, weights in tenths, fractions out of `Unit`, a
  common multiple of all that is divided by: exact integers for a catalog of any size.
* **Trainer**: one training process: preflight, the loop of `rl/base.py` with the
  three learners or the older loop of `grpo/trainer.py`, the evaluations, and the
  alert rules over the rows it wrote.
* **Learning**: the three side by side, for TLC. A behaviour is an episode, an answer
  or a training; they share no state.
* **...Proofs**: the theorems about the module of that name, section 6.
  **LearningProofs** is about Trainer, and about ShopEnv and Rewards, the task.
* **MC...**: instances for TLC, one per module that is run.

Operators marked *Mutant* in the modules are plausible slips of the definition
that follows them. Substituted for it, each makes TLC report the property it is
listed with in `PROJECT.json`.

## 3. Runs that pass

| Run | Instance | What it shows |
|---|---|---|
| `store_races` | 1 job, 3 interchangeable clients, 3 attempts | whatever three connections interleave: `RetryBudget`, `NoPhantomFailure`, `TerminalIsFinal`, and that the store implements the lifecycle |
| `daemon_duo` | 1 job, 2 daemons, an operator, requests and a kill, late heartbeats | a job runs twice at once only after a charged failure or a pause and resume (`OverlapIsAccounted`); SUCCEEDED is never written without an execution (`SucceededWasExecuted`); nothing is stranded; the system implements the store; a queued job is settled |
| `daemon_unattended` | 3 jobs on GPU and CPU, cap 2, 1 daemon, 2 kills, no operator | slots and cap hold at every statement (`SlotCapacity`); every job ends SUCCEEDED or DEAD_LETTER |
| `pool_races` | 2 jobs (one without handler), 2 workers, 1 outsider, 1 kill, 1 reap, 2 requests | no SUCCEEDED without a recorded result; what is recorded is produced again only where two runs overlap (`RepeatsAreOverlaps`); handlers are started again only after a failure or a resume (`RunsAreCharged`); a kill strands one job at most (`EachKillStrandsOne`); the pool ends |
| `training_races` | 2 workers, 3 runs, batch 2 x 3, 1 kill | the registries agree; OOM retries are clean; the batch of a retry is one preflight accepts, but for a lone group of three (`RetriesAreTrainable`) |
| `registry_files` | a checkpoint root with 2 saves, or a policy or prompt root with 3 writers; 2 files, 1 kill, 1 corruption, sweeps and prunes at any time | nothing half-written is listed (`VisibleIsWhole`); what a call returned is visible; a pruned checkpoint has a newer one that was kept (`RetentionKeepsNewest`); what `load_state()` returns is what was saved (`LoadIsGenuine`); the versions are a log (`ImplementsPolicyLog`) |
| `pipeline_faults` | 2 runs of 1 step, 1 prompt, groups of 2, microbatch 4, 2 interchangeable pool workers, both simulations, 2 faults of any kind | a recorded rollout is complete; trajectories are written again only after a committed failure (`DuplicatesArePaid`); recovery keeps the effective batch; a job is stranded only by a call that is under way or was killed (`StrandedHasCulprit`); a run raises only if disturbed |
| `pipeline_ends` | 1 run of 2 steps, groups of 2, microbatch 2, 2 pool workers, 2 faults, no simulations | every run ends, whatever is requeued (`PipelineEnds`) |
| `learning_tasks` | 2 products, an invented one; all episodes of 4 turns, all answers of 2 lines; 4 learners, groups of 1 and 2, each preflight flaw, 3 steps, 2 faults | money is conserved; the score is 1 exactly for the right cart (`RewardIsFair`); lying never pays (`HonestyPays`); a lie that was read escapes only behind an earlier statement (`LieEscapesOnlyBehindAStatement`); a run that diverged is critical by its rows on disk alone (`NoSilentDivergence`); a cleared run diverges only by a fault (`ClearedRunIsStable`) |
| `registry_races` | 2 clients; 2 runs and 4 updates, or 4 artifacts, or 5 trajectories, or some of each | updates that do not overlap accumulate; lineage is the transitive closure; a returned ancestry has no gap |

**Bounds.** The races of the store are between two or three statements on one
row. Rows share nothing but the order of a claim page, so one job with three
clients (a victim, an interferer and a reaper) shows them; three attempts leave
room for a stale value two failures old. In `daemon_unattended` two jobs share
the GPU slot and the third has the CPU slot, so both the slots and the cap of 2
are reached. `max_attempts` is 2 elsewhere, the least with both a retry and a dead
letter. `ClaimLimit` is the code's 8; a page longer than the table behaves like
any other. Kills and requests are budgets: without them the graph is infinite in
effect, with one or two each place is still hit. Two requests are what a pause
and a resume take. In `training_races` the number of run ids bounds the attempts;
three allow two concurrent runs and a retry, and 2 x 3 has both a halving of the
prompts and the odd group. In `registry_files` two files are the least where one
is there and one is not; the ingest through `save_state()` has a source that a
sweep can reach; three publishers allow a loser who tries the next number. Two
saves are enough for a prune that decides from an old list; that a later prune counts
what an earlier one left half removed takes three, and rests on the proof
(`RetentionIsSafe`). In `pipeline_faults` the visits, kills, lost leases and handler errors share a budget
of two: a disturbance, and one while it is dealt with. That is what a lost count
takes: a reap between the SELECT and the UPDATE of a `fail()`, with the job claimed
again meanwhile. Two runs are needed for what an earlier run leaves behind; a
microbatch of 4, where the code starts with 8, can be shrunk twice, also from a
payload that is out of date. `pipeline_ends` has the second step and, at a microbatch of 2, the dead letter of a batch that cannot shrink; liveness
does not go with symmetry, so it leaves out the simulations, which add jobs without
a handler and fail them. An answer of two lines is the least with a contradiction; the spec lines include a price
off by exactly the tolerance. In a training the metrics are on both sides of each
alert threshold, and the third step comes after a save and after a divergence. Each store of
`registry_races` is filled alone, as they share nothing, and once all together.

Symmetry is used where clients, or the workers of a pool, are interchangeable and the
run has no liveness property.

`CHECK_DEADLOCK FALSE` is set where the system may stop: pools, pipelines and
ingests end, run ids and bounds are used up, a table of ended jobs may rest.

**Fairness** (`FairSpec`). In ControlPlane a daemon's next statement is eventually
executed: processes are scheduled and training ends, as the code has no other way
to finish. A dead worker is started again, which the recovery of
`ARCHITECTURE.md` section 3 presumes ("on restart"). Time passes, so a lease
nobody renews runs out. A request that has read its row is finished. In WorkerPool
and Pipeline the workers and the main process that live go on, and their handlers
return or raise. Weak fairness suffices. Nothing is assumed of kills, requests,
submissions, visits, restarts of a pipeline, heartbeats, or of how training ends.
A heartbeat may keep its job's lease alive, but only while its daemon trains, and
training ends.

## 4. Where code and documentation disagree

Two runs state, as a property, a sentence of the documentation or of a
docstring, and TLC finds a behaviour of the code that violates it. The quoted
lines are in `PROJECT.json` under `findings`.

| Run | Sentence | What happens |
|---|---|---|
| `cancel_ends_worker` | a cancel during execution is benign | the cancel commits inside `complete()`: ConcurrentModification ends the worker |
| `corrupt_resume` | a corrupt checkpoint is never silently resumed | the OOM retry takes the newest directory and does not verify it |

The models show more places where the code does not do what is written. They are
not runs of their own; where a passing property says how far the deviation goes,
it is named.

* *Failures bump attempts* (`ARCHITECTURE.md` section 3): a pause that read the row
  before a failure writes the old count back, and so does a `fail()` whose row was
  failed and claimed again meanwhile. What is written back never exceeds the budget
  (`RetryBudget`) and never invents failures (`NoPhantomFailure`); `RunsAreCharged` and
  `DuplicatesArePaid` therefore speak of the failures committed, not of `attempts`.
* *A healthy long job is never reaped*: the reaper's list is stale; the job was
  failed and claimed again meanwhile. The overlap is accounted for
  (`OverlapIsAccounted`).
* *Returns the run refs, or re-raises* (`control.py`): on 4 x 16, after five OOMs,
  the retry loop ends while the batch can still shrink, and the function returns
  None. `Report` in ControlPlane is the consequence: the worker ends.
* *An OOM that cannot shrink is re-raised*: 12, 6, 3, 1: a group of one is refused
  by preflight instead. `RetriesAreTrainable` says that a lone group of three is
  the only batch halved to one that is refused.
* *True if the response ... stated a spec that contradicts the catalog*
  (`reward/functions.py`): a false spec on a later line is not seen when an
  earlier line stated the same field of the same product.
  `LieEscapesOnlyBehindAStatement` says that of the specs `_extract_specs()` finds no
  other escapes. What its regular expressions miss (a second value on a line, a line
  without a sku) is not judged at all, and not modelled.
* A sweep during `save_state()` empties the source that is being staged: the
  checkpoint is committed with an empty manifest, which `verify()` accepts.
  `sweep_staging()` is meant for the leftovers of dead processes; `VisibleIsWhole`
  speaks of ingests that no sweep touched.
* The pipeline aggregates by policy id, and policy ids are those of the step: a
  second run on the same root counts the first one's trajectories too.
* A hard kill leaves as many RUNNING jobs as the pass had admitted, where
  `ARCHITECTURE.md` section 3 says at most one. The reaper recovers each of them.
* `scheduler.py` says that a job is admitted only when a slot is free: two
  daemons may count before either claims. `SlotCapacity` is a property of one
  daemon, and fails with two.
* A pool worker killed between `record_result()` and `complete()` on the last
  attempt leaves a job that the reaper dead-letters although its result is
  recorded; and stale failures allow more handler starts than `max_attempts`
  (`RunsAreCharged` says what each start is paid with).
* Overlapping updates of a run record are lost whole; `UpdatesAccumulate` is about
  the others.

A worker that ends on a lost race strands nothing (`NothingStranded`,
`QueuedJobSettles`), and a lone worker without operator has none of the races
(`daemon_unattended`).

## 5. Correspondence with the code

`PROJECT.json` maps each definition to its lines. Abstractions to know of:

* Payloads other than the batch, error texts, timestamps and events written to
  `recovery_events.jsonl` are left out. `created_at` is the rank of the INSERT;
  ties are not modelled.
* A SELECT is atomic, an UPDATE with its commit is atomic (SQLite, WAL).
  A busy timeout (SQLITE_BUSY after 5 s) is not modelled in the job store; in
  TrainingRun it is one of the reasons why a call may raise.
* `_transition()` of the API reads the row twice; the model reads once. The
  first read only decides between two refusals, or is repeated by the second.
* After `join(timeout=2.0)` a heartbeat thread may outlive its context by one
  renewal; `renew_lease` by any client at any time is a step of JobStore, so the
  store's theorems cover it, while ControlPlane stops the beat at once.
* The `--drain` flag of the worker, which ends it on an empty queue, is not
  modelled: the daemons of ControlPlane poll for ever.
* In WorkerPool a claim has no kind filter, as in `_pool_worker_entry()`. Jobs are
  produced before a pool starts, which its docstring demands. A control daemon
  on the same database is not part of that model; the store's theorems cover it.
* In TrainingRun a checkpoint or policy ingest is one step (its rename; FileRegistry
  has the steps of it); `latest` follows the order of these steps. The samples of a
  run are tagged in one step; a failure half way is a failure after it as far as
  the properties go. Preflight's checks other than the group size, drift of the
  prompt dataset and any I/O error are one nondeterministic failure (`Stumble`);
  Trainer has preflight itself.
* In Recovery the class of an exception is an input: `classify()` looks at its type
  and text. The consumer of the visitor is the caller that `tests/test_failures.py` plays. A
  lease is lost by a step of the reaper, which lists it; the statements that fail the
  job follow. `claim()` is one commit, as its page and its guarded UPDATE race in
  JobStore already, and a pool worker looks its job's result up with the claim.
* `Restart` of the pipeline waits until the orphaned workers of the killed run have
  drained the queue; while they run, the second run's jobs would be theirs too.
* In FileRegistry a directory listing is one step; one janitor works at a time;
  `sim_corrupt_checkpoint()` is the only corruption. Power loss, against which
  `fsync` is called, is not modelled: a kill keeps what the kernel has.
* In Rewards a line of an answer is what the regular expressions extract from it,
  the cited skus and the stated specs; how text is recognised is left out, and so
  is the rounding of floats at a tolerance.
* In Trainer a float is a small integer or NAN, for nan and inf alike. Weights are
  finite or not, prompts and rewards are data on which no branch depends. From
  finite weights, a non-finite loss or gradient is a fault, but for PPO's batch of
  one. What a preflight check measures is an input of the launch.

## 6. What is proved

All theorems hold for every value of the constants, under the named assumptions
of the modules. These say that the sets of jobs, ingests, pool clients and
pipeline workers are finite (they are counted), that budgets, group sizes and
limits are numbers of the range the code accepts, that a claim filters a set of
jobs, that clients are daemons or operators (workers or outsiders), that the reaper
is none of the controllers, and that NONE and NAN are none of the values they are
told apart from. `RewardAssumption` says that the sku tokens an answer may cite are
finitely many, however many, and that `Unit` is a multiple of 40 and of four times
each number of products up to theirs, so that no share is rounded. TLC evaluates each of them
in the run of the module. Nothing is assumed of kills, corruptions, faults,
requests, or the number of processes, except where a theorem says so. In
`PROJECT.json` each theorem stands with the property it establishes.

**JobStoreProofs.** `RetryBudget`, `NoPhantomFailure` and `LeaseOnlyWhileRunning`
are not inductive: an UPDATE writes what its client read long before. `IInv` adds
`PlansAreSound`, which says of every value in flight what stays true until it is
written: the planned move is legal from the state it was read in, the planned
attempts are within the budget whatever happened since, and are at most one more
than the failures counted then; and `FailsCapped`, because the history counter
stops at the budget. From `IInv` follow `TypeCorrect`, `RetryBudgetHolds`,
`NoPhantomFailureHolds`, `LeaseDiscipline`, the action property `TerminalFinal`
(the guard cannot match a terminal state, as no legal plan starts in one) and
the refinement `StoreImplementsLifecycle`.

**ControlPlaneProofs.** `ControlPlaneImplementsStore`: every step of the daemons,
the operators, the clock and the killer is one statement of the store, or leaves
the table alone. It needs `HoldsItsJob`, that a daemon acting on a job holds one
it admitted. `RunningSystemRetries` and `RunningSystemEndsJobs` carry the store's
theorems over to the running system. `ControlInvariant` adds to `IInv`:
`PlansAreKnown` (which kind of write each client can have in flight, at which
place; a planned SUCCEEDED is of a job whose training returned, a planned resume
has two requests behind it) and `Accounting` (a job on a daemon's list is back in
the queue, or on another daemon's list, only if it failed or two requests were
made). From it follow `NoJobIsStranded`, `SuccessMeansExecution` and
`OverlapsAreAccounted`. `AdmissionRespectsCapacity` assumes a single daemon,
because with two the property is false (section 4). Its invariant `Capacity`
relates what the pass believes to be free to what runs now: between count and
claim others can only take jobs out of RUNNING, so the belief errs on the safe
side, and each claim uses up what it takes.

**WorkerPoolProofs.** `PoolImplementsStore` and `PoolRetries`, as above, and
`SuccessIsRecorded`. SUCCEEDED is written one statement after it was planned, by a
worker that may have recorded the result itself or found it; the invariant adds
that a worker about to complete holds a job of the ledger (`HoldsItsJob`) and that
every planned success is of such a job (`PlansAreRecorded`).
`DeliveriesAreCharged` is an account kept in halves (`Charged`): handler starts,
starts that are due, what the row is still worth (2 when queued, 1 when paused)
and writes that operators have in flight never exceed the first delivery plus the
failures plus the requests. `PoolLosesOnePerKill` is about pools that no reaper and
no operator disturbed; `Alone` says that then every held job is RUNNING and held by
one worker, so no store call raises, and `EachHasOne` that after the first worker
found the queue empty each unfinished job has a worker that lives or was killed.
`RecordedIsNotRunAgain` is an account too (`EffectsAccounted`): the runs of a job's
handler under way, its result and what was recorded over it are at most one more than
the overlaps, and nothing is recorded over a result that is not there; so a handler
that starts beside no other run, with no result to be found, is the only run.

**TrainingRunProofs.** `RunTypeCorrect`. `RegistriesAlwaysAgree` is about finished
runs; it is preserved because of what a worker has written when it reaches each
statement (`Progress`), and because no two workers hold the same run
(`Exclusive`). `RetriesAreClean` adds the arithmetic of halving.
`RetriesTrainable` is about any configured batch. Its invariant `Trainable` says
that a worker past preflight, or with an OOM in hand, has a group of at least two;
so a batch that is halved after an OOM had passed preflight, and only a lone group
of three is halved to a group of one.

**FileRegistryProofs.** `FilesInvariant` says what is on disk at each statement of
an ingest, twice: what is so whatever the janitor does (`Holding`), and what is so
as long as it kept away from that ingest (`Undisturbed`). `IngestIsAtomic` and
`IngestIsDurable` follow from the second. `RetentionIsSafe` is not inductive as it
stands, since `prune()` decides from a list and removes later: `Retained` says of
every directory that is condemned already, removed or not, that enough newer ones
stay, which needs that `created_at` is taken once (`BornOnce`). `LoadsAreGenuine`
needs that the state file is still to be hashed, or is as it was (`LoadIsOnTrack`).
`PoliciesAreALog` is the refinement of PolicyLog, over `Numbered`: the visible
versions are 1..n, and a publisher under way has a number of at most n + 1, so its
rename fails or appends.

**PipelineProofs.** `PipelineInvariant` is the conjunction of `Culprits` (who is to
blame for each job in a state nobody looks at), `Readings` (what a row that was read
and not yet written back still says of its job), `Accounted` (what a worker has put
at each place) and `Paid` (trajectories written and still to be put fit the
deliveries, which are counted by the failures committed: attempts may go back). It gives `GroupsAreWhole`, `RedeliveriesArePaid`,
`StrandedJobsHaveCulprits` and the refinement `PipelineImplementsLifecycle` of
JobLifecycle, which no run repeats.
`PipelineStaysOnCourse` assumes two attempts and a microbatch of at least 2: with
one attempt, or nothing to shrink, the injected OOM ends the job, and the run
raises undisturbed (the code's defaults are 3 and 8). Its invariant `OnCourse` says
that the optimize job the process claims by age is its own. `RecoveryKeepsTheBatch`
is for every microbatch that can be halved exactly down to one, which is what the
property needs: 5 would become 2 x 2. `DefaultBatchIsKept` is its instance for the
8 that the code writes.

**LearningProofs.** `TrainerInvariant` says that a divergence is in the rows, or in
the metrics about to be appended, and that a saved adapter with non-finite weights
has such a row before it. `DivergenceIsNeverSilent` follows with what the alert
rules make of one such row; `ClearedLaunchesAreStable` with `GroupIsChecked`, that
the first check has refused groups of one before any other is made.
The theorems about the task are about `EnvSpec`, an episode, and `AnswerSpec`, an
answer, as in Learning. `ShoppingIsScoredFairly` assumes
fewer than 7999 turns (the default is 8). It is needed: the score is rounded to four
digits, and 7999 good items where 8000 were wanted round to 1. Its invariant is
that the cart has at most as many items as turns; the rest is arithmetic, with
every product named so that it becomes linear. `BudgetIsConserved` is about a sum:
`Spent` folds the prices of the cart in an order that is left open. The fold is not
in the invariant. `Balanced` says that some function gives every part of the cart a
weight, {} the weight 0 and each item its price on top of the others
(`Weighs`), and that the weight of the whole cart and the remaining budget are the
budget; an append and a removal change that function explicitly (`AppendWeighs`,
`RemoveWeighs`). Such a function solves the recursion that defines the fold, so the
fold exists (`SpentUnfolds`), and it is the only solution on a finite cart: a smallest
part on which two solutions differ has an item to take out (`SpentIsWeight`, by
the well-foundedness of the strict subsets of a finite set). `LiesAreJudgedByTheFirstStatement`
needs that what is recorded of a field is its first statement (`FirstIsKept`).
`HonestyAlwaysPays` is for any catalog and any number of products cited. It compares
the components one by one: only the share of stated specs can fall when an answer is
made honest.

**RunRegistryProofs.** `UpdatesAreKept`: a client that wrote from a fresh record
took nothing away. `AncestryIsNeverCut`: the rows the walk has are a derivation
chain (`WalkIsSound`), and it ends at a root or returns nothing.

**Only model-checked.** Liveness (`QueuedJobSettles`, `UnattendedJobEnds`,
`PoolEnds`, `PipelineEnds`): it needs fairness and ENABLED. `LineageIsTheClosure`:
the walk is a RECURSIVE operator, which the prover cannot take, and what it computes
needs induction over its depth. The two violated sentences of section 4 are
counterexamples, and need no proof.

**What proving changed in the models.** The outcome of a preflight check was a CASE
whose guards overlap, of which TLC takes the first that holds and TLA+ says
nothing; it is an IF now. A corruption that comes while a load is under way marks
that load for good; the mark could be reset by a second corruption elsewhere, which
only one corruption per behaviour hid. The assumptions that the constants are
finite or told apart from NONE were implicit. The lines of an answer were
`SUBSET Cited \ {{}}`, which TLC and the prover bracket differently.

## 7. Plan

Every part the inventory names is modelled, or listed in section 8, and every
invariant that a run checks is proved, except `LineageIsTheClosure`. Worth doing next:

1. **Lineage**: the walk as a loop, one iteration per step, whose invariant (what is
   seen, stacked and listed) can be proved without recursion.
2. **Trainer, RunRegistry**: state the alert thresholds, and the overlap of updates,
   as properties of single steps.
3. **Abstract specifications** for the file registries other than policies, and for
   the training run: what a reader of the registries may rely on.

## 8. Not modelled

* Losses, log-probabilities, KL terms, gradients and advantages: floats and
  tensors. Trainer keeps whether they are finite.
* Rollout engines (`rollout/`), evaluation (`eval/`), benchmarks (`bench/`): model
  inference, statistics and timing, without shared state. Trainer has a
  `generate()` that returns or raises.
* Generating catalogs, prompts and shortlists (`data/`): seeded data generation.
  Catalog has what is done with a product and a constraint.
* The staleness report and gate of `policy.py`: pure functions of two version
  numbers.
* Dashboards, the operations console, GPU telemetry, the API client and the read
  endpoints: they read and render. A read that another process's write can
  disturb is modelled where it returns more than a row (claim pages, `ancestry()`,
  `load_state()`, `PolicyClient`).
* Command lines and configuration files.

## 9. Running

In this directory: `tlc -config MCJobStoreRaces.cfg MCJobStore`, and likewise
for the other configurations with the module `PROJECT.json` names;
`tlapm JobStoreProofs.tla` for a proof module.
