------------------------------- MODULE Pipeline -------------------------------
(***************************************************************************)
(* platform/pipeline.py: for each step, enqueue a rollout job per prompt,  *)
(* let a pool of local workers drain the queue, then run an optimize job   *)
(* that aggregates the trajectories and checkpoints; at one step an OOM is *)
(* injected and handed to the recovery controller. Around it: simulations  *)
(* and consumers on the same root (module Recovery), a reaper, kills, and  *)
(* the pipeline started again on the same root.                            *)
(***************************************************************************)
EXTENDS Recovery, FiniteSetsExt

CONSTANTS
  Main,             \* the controller call of the pipeline process
  Runs, Steps,      \* 1..n: runs of the pipeline, cfg.steps
  Prompts,          \* cfg.prompts_per_step
  Samples,          \* cfg.num_samples
  OomAt,            \* cfg.oom_at_step
  Workers,          \* cfg.n_workers
  Rollout,          \* job ids: of a run, step and prompt,
  Optimize          \* and of a run and step

ASSUME PipelineAssumption ==
  /\ Controllers = {Main, Visitor} /\ Main # Visitor
  /\ \A r \in 1..Runs, s \in 1..Steps :
       /\ Optimize[r, s] \in Jobs /\ Kind[Optimize[r, s]] = "optimize"
       /\ \A p \in Prompts : Rollout[r, s, p] \in Jobs /\ Kind[Rollout[r, s, p]] = "rollout"
  /\ Runs \in Nat \ {0} /\ Steps \in Nat \ {0} /\ Samples \in Nat
  /\ IsFiniteSet(Workers) /\ Workers # {}

VARIABLES
  main,      \* the pipeline process: where it is, its run and step
  worker,    \* each pool worker: where it is, its job, trajectories still to put
  trajs,     \* trajectories persisted for each rollout job
  results,   \* jobs with a row in job_results
  ckpts,     \* checkpoints saved: run and step
  rows,      \* pipeline_metrics.jsonl: trajectories aggregated in each step
  agg,       \* trajectories aggregated by the step under way
  deaths     \* history: a pool worker was killed or raised

pipeVars == <<main, worker, trajs, results, ckpts, rows, agg, deaths>>
vars     == <<recVars, pipeVars>>

Kinds == {Kind[j] : j \in Jobs}
Gone  == [pc |-> "gone", job |-> NONE, left |-> 0, row |-> NONE]

Init ==
  /\ TableInit
  /\ main   = [pc |-> "enqueue", run |-> 1, step |-> 1, row |-> NONE]
  /\ worker = [w \in Workers |-> Gone]
  /\ trajs  = [j \in Jobs |-> 0]
  /\ results = {} /\ ckpts = {} /\ rows = <<>> /\ agg = 0 /\ deaths = FALSE

-----------------------------------------------------------------------------
(* The pipeline process.                                                    *)

MainAt(l)  == main.pc = l
MainTo(l)  == main' = [main EXCEPT !.pc = l, !.row = NONE]
Own        == Optimize[main.run, main.step]
RecFrame   == UNCHANGED <<visits, kills, errors, broken, reaped>>

\* _enqueue_rollouts(): one create() per prompt.
Enqueue(p) ==
  /\ MainAt("enqueue")
  /\ create(Rollout[main.run, main.step, p])
  /\ UNCHANGED <<ctl, pipeVars>> /\ RecFrame

\* run_local_pool(): start the workers, ...
StartPool ==
  /\ MainAt("enqueue")
  /\ \A p \in Prompts : state[Rollout[main.run, main.step, p]] # ABSENT
  /\ MainTo("pool")
  /\ worker' = [w \in Workers |-> [Gone EXCEPT !.pc = "claim"]]
  /\ UNCHANGED <<tableVars, ctl, trajs, results, ckpts, rows, agg, deaths>> /\ RecFrame

\* ... and join them; then the optimize job is created.
JoinPool ==
  /\ MainAt("pool") /\ \A w \in Workers : worker[w].pc = "gone"
  /\ create(Own)
  /\ MainTo("claim")
  /\ UNCHANGED <<ctl, worker, trajs, results, ckpts, rows, agg, deaths>> /\ RecFrame

\* Mutant: the requeued job is not claimed again.
ClaimOnce ==
  /\ \/ /\ MainAt("claim") /\ MainTo(IF main.step = OomAt THEN "oom" ELSE "aggregate")
        /\ \/ \E j \in Jobs : claim(j, {"optimize"})
           \/ NothingToClaim({"optimize"}) /\ UNCHANGED tableVars
     \/ MainAt("reclaim") /\ MainTo("aggregate") /\ UNCHANGED tableVars
  /\ UNCHANGED <<ctl, worker, trajs, results, ckpts, rows, agg, deaths>> /\ RecFrame

\* claim(kinds=["optimize"]): its result is not looked at.
ClaimOptimize ==
  /\ \/ MainAt("claim") /\ MainTo(IF main.step = OomAt THEN "oom" ELSE "aggregate")
     \/ MainAt("reclaim") /\ MainTo("aggregate")
  /\ \/ \E j \in Jobs : claim(j, {"optimize"})
     \/ NothingToClaim({"optimize"}) /\ UNCHANGED tableVars
  /\ UNCHANGED <<ctl, worker, trajs, results, ckpts, rows, agg, deaths>> /\ RecFrame

\* The injected OOM, through the controller; what handle() raises ends the run.
InjectOom ==
  /\ MainAt("oom")
  /\ Handle(Main, Own, "oom")
  /\ MainTo("handling")
  /\ UNCHANGED <<worker, trajs, results, ckpts, rows, agg, deaths>> /\ RecFrame

OomHandled ==
  /\ MainAt("handling") /\ ctl[Main].pc \in {"handled", "raised"}
  /\ MainTo(IF ctl[Main].pc = "handled" THEN "reclaim" ELSE "raised")
  /\ Control(Main, Resting)
  /\ UNCHANGED <<tableVars, worker, trajs, results, ckpts, rows, agg, deaths>> /\ RecFrame

\* by_policy(): every trajectory of the step, also of an earlier run.
OfStep(s) == {Rollout[r, s, p] : r \in 1..Runs, p \in Prompts}

Aggregate ==
  /\ MainAt("aggregate")
  /\ agg' = MapThenSumSet(LAMBDA j : trajs[j], OfStep(main.step))
  /\ MainTo("save")
  /\ UNCHANGED <<tableVars, ctl, worker, trajs, results, ckpts, rows, deaths>> /\ RecFrame

\* save_state(), before the job is completed.
SaveCheckpoint ==
  /\ MainAt("save")
  /\ ckpts' = ckpts \cup {<<main.run, main.step>>}
  /\ MainTo("complete")
  /\ UNCHANGED <<tableVars, ctl, worker, trajs, results, rows, agg, deaths>> /\ RecFrame

NextStep == IF main.step = Steps THEN MainTo("done")
            ELSE main' = [main EXCEPT !.pc = "enqueue", !.step = @ + 1, !.row = NONE]

\* complete() raises unless the job is RUNNING, when it is read and when it is
\* written; else the metrics row is appended and the next step begins.
SelectOptimize ==
  /\ MainAt("complete") /\ main.row = NONE
  /\ main' = [main EXCEPT !.row = Row(Own)]
  /\ UNCHANGED <<tableVars, ctl, worker, trajs, results, ckpts, rows, agg, deaths>> /\ RecFrame

CompleteOptimize ==
  /\ MainAt("complete") /\ main.row # NONE
  /\ \/ transition(Own, main.row, SUCCEEDED) /\ NextStep /\ rows' = Append(rows, agg)
     \/ /\ Refused(Own, main.row, SUCCEEDED)
        /\ MainTo("raised") /\ UNCHANGED <<tableVars, rows>>
  /\ agg' = 0
  /\ UNCHANGED <<ctl, worker, trajs, results, ckpts, deaths>> /\ RecFrame

MainKilled ==
  /\ main.pc \notin {"done", "raised", "killed"} /\ FaultsLeft
  /\ kills' = kills + 1
  /\ MainTo("killed")
  /\ broken' = broken \cup {j \in Jobs : HeldBy(Main, j)}
  /\ Control(Main, Resting)
  /\ agg' = 0
  /\ UNCHANGED <<tableVars, visits, errors, reaped, worker, trajs, results, ckpts, rows, deaths>>

\* run_pipeline() again on the same root, once the orphaned pool has drained;
\* the metrics file is emptied, everything else is kept.
Restart ==
  /\ main.pc \in {"raised", "killed"} /\ main.run < Runs
  /\ \A w \in Workers : worker[w].pc = "gone"
  /\ main' = [pc |-> "enqueue", run |-> main.run + 1, step |-> 1, row |-> NONE]
  /\ rows' = <<>>
  /\ UNCHANGED <<tableVars, ctl, worker, trajs, results, ckpts, agg, deaths>> /\ RecFrame

MainStep ==
  \/ (\E p \in Prompts : Enqueue(p)) \/ StartPool \/ JoinPool \/ ClaimOptimize
  \/ InjectOom \/ (HandleStep(Main) /\ UNCHANGED pipeVars) \/ OomHandled
  \/ Aggregate \/ SaveCheckpoint \/ SelectOptimize \/ CompleteOptimize

-----------------------------------------------------------------------------
(* The pool workers: Worker.run_once() with rollout_handler().              *)

WorkerTo(w, r) == worker' = [worker EXCEPT ![w] = r]
WorkerNext(w) == WorkerTo(w, [Gone EXCEPT !.pc = "claim"]) /\ UNCHANGED deaths
WorkerDies(w) == WorkerTo(w, Gone) /\ deaths' = TRUE
PoolFrame == UNCHANGED <<ctl, main, ckpts, rows, agg>> /\ RecFrame

\* What run_once() does with a claimed job: a recorded result is not produced
\* again, only rollouts have a handler.
Task(j) == [Gone EXCEPT !.pc = CASE j \in results -> "recorded"
                                 [] j \notin results /\ Kind[j] = "rollout" -> "put"
                                 [] OTHER -> "fail",
                        !.job = j, !.left = Samples]

\* Mutant: an empty queue is polled again.
WorkerClaimPolls(w) ==
  /\ worker[w].pc = "claim"
  /\ \/ \E j \in Jobs : claim(j, Kinds) /\ WorkerTo(w, Task(j))
     \/ NothingToClaim(Kinds) /\ UNCHANGED <<tableVars, worker>>
  /\ UNCHANGED <<trajs, results, deaths>> /\ PoolFrame

\* claim() of any kind; an empty queue ends the worker.
WorkerClaim(w) ==
  /\ worker[w].pc = "claim"
  /\ \/ \E j \in Jobs : claim(j, Kinds) /\ WorkerTo(w, Task(j))
     \/ NothingToClaim(Kinds) /\ WorkerTo(w, Gone) /\ UNCHANGED tableVars
  /\ UNCHANGED <<trajs, results, deaths>> /\ PoolFrame

\* rollout_handler(): each trajectory of the group is a commit.
Put(w) ==
  /\ worker[w].pc = "put" /\ worker[w].left > 0
  /\ trajs' = [trajs EXCEPT ![worker[w].job] = @ + 1]
  /\ WorkerTo(w, [worker[w] EXCEPT !.left = @ - 1])
  /\ UNCHANGED <<tableVars, results, deaths>> /\ PoolFrame

\* Mutant: the result is recorded before the trajectories are written.
RecordFirst(w) ==
  /\ worker[w].pc = "put"
  /\ results' = results \cup {worker[w].job}
  /\ WorkerTo(w, [worker[w] EXCEPT !.pc = IF worker[w].left = 0 THEN "complete" ELSE "put"])
  /\ UNCHANGED <<tableVars, trajs, deaths>> /\ PoolFrame

Record(w) ==
  /\ worker[w].pc = "put" /\ worker[w].left = 0
  /\ results' = results \cup {worker[w].job}
  /\ WorkerTo(w, [worker[w] EXCEPT !.pc = "complete"])
  /\ UNCHANGED <<tableVars, trajs, deaths>> /\ PoolFrame

\* The SELECT of complete() and of fail().
WorkerSelects(w) ==
  /\ worker[w].pc \in {"complete", "recorded", "fail"} /\ worker[w].row = NONE
  /\ WorkerTo(w, [worker[w] EXCEPT !.row = Row(worker[w].job)])
  /\ UNCHANGED <<tableVars, trajs, results, deaths>> /\ PoolFrame

\* complete(): within the try, what it raises is followed by fail(), whoever
\* has the job by then; for a recorded result it ends the worker process.
WorkerCompletes(w) ==
  /\ worker[w].pc \in {"complete", "recorded"} /\ worker[w].row # NONE
  /\ \/ transition(worker[w].job, worker[w].row, SUCCEEDED) /\ WorkerNext(w)
     \/ /\ Refused(worker[w].job, worker[w].row, SUCCEEDED) /\ UNCHANGED tableVars
        /\ \/ /\ worker[w].pc = "complete" /\ UNCHANGED deaths
              /\ WorkerTo(w, [worker[w] EXCEPT !.pc = "fail", !.row = NONE])
           \/ worker[w].pc = "recorded" /\ WorkerDies(w)
  /\ UNCHANGED <<trajs, results>> /\ PoolFrame

\* The handler raises on the way.
HandlerRaises(w) ==
  /\ worker[w].pc = "put" /\ FaultsLeft
  /\ errors' = errors + 1
  /\ WorkerTo(w, [worker[w] EXCEPT !.pc = "fail"])
  /\ UNCHANGED <<tableVars, ctl, visits, kills, broken, reaped, main, trajs, results,
                 ckpts, rows, agg, deaths>>

\* fail(): the handler or complete() raised, or there is no handler for this
\* kind; what fail() raises ends the worker process.
WorkerFails(w) ==
  /\ worker[w].pc = "fail" /\ worker[w].row # NONE
  /\ \/ fail(worker[w].job, worker[w].row) /\ WorkerNext(w)
     \/ /\ Refused(worker[w].job, worker[w].row, FAILED)
        /\ WorkerDies(w) /\ UNCHANGED tableVars
  /\ UNCHANGED <<trajs, results>> /\ PoolFrame

WorkerKilled(w) ==
  /\ worker[w].pc # "gone" /\ FaultsLeft
  /\ kills' = kills + 1
  /\ WorkerTo(w, Gone)
  /\ deaths' = TRUE
  /\ UNCHANGED <<tableVars, ctl, visits, errors, broken, reaped, main, trajs, results, ckpts, rows,
                 agg>>

WorkerStep(w) == \/ WorkerClaim(w) \/ Put(w) \/ Record(w)
                 \/ WorkerSelects(w) \/ WorkerCompletes(w) \/ WorkerFails(w)

Next ==
  \/ MainStep \/ MainKilled \/ Restart
  \/ \E w \in Workers : WorkerStep(w) \/ HandlerRaises(w) \/ WorkerKilled(w)
  \/ (VisitorStep \/ VisitorKilled \/ ReaperStep) /\ UNCHANGED pipeVars

Spec == Init /\ [][Next]_vars

\* Processes that are not killed keep running; a handler ends. Kills, restarts,
\* visits and lost leases may happen or not.
Fairness == /\ WF_vars(MainStep)
            /\ \A w \in Workers : WF_vars(WorkerStep(w))

FairSpec == Spec /\ Fairness

-----------------------------------------------------------------------------
\* A rollout that is recorded or SUCCEEDED has all its trajectories: a kill
\* between them never leaves a group that a redelivery or the aggregation of
\* the step takes for complete.
RecordedIsComplete ==
  \A j \in Jobs :
    j \in results \/ (Kind[j] = "rollout" /\ state[j] = SUCCEEDED) => trajs[j] >= Samples

\* Trajectories are written again only when a failure of the job was committed:
\* a job has at most one group more than failures. Its attempts may be fewer: a
\* stale UPDATE takes counts back.
DuplicatesArePaid == \A j \in Jobs : trajs[j] <= Samples * (fails[j] + 1)

\* The table only ever moves as the abstract lifecycle says.
Lifecycle == INSTANCE JobLifecycle WITH phase <- state
ImplementsLifecycle == Lifecycle!Spec

\* The pipeline completes the optimize job it created, although it claims the
\* oldest one: what an earlier run left behind is drained by the pool, so a
\* run raises only where a simulation, a consumer or a dead worker interfered.
RaisesOnlyIfDisturbed == MainAt("raised") => \/ visits > 0 \/ deaths
                       \/ \E j \in reaped : Kind[j] = "optimize"

\* run() comes to an end: every pool drains, whatever is requeued into it and
\* whoever dies, so the pipeline completes its steps, raises or is killed.
PipelineEnds == []<>(main.pc \in {"done", "raised", "killed"})

=============================================================================
