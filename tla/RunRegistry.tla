----------------------------- MODULE RunRegistry -----------------------------
(***************************************************************************)
(* The metadata of the platform: the run records of registry.py, the       *)
(* artifact index of artifacts.py and the trajectories of traj_store.py,   *)
(* as the API endpoints, PlatformRun (integration.py) and the simulations  *)
(* of dash_data.py use them from several processes. A statement of SQLite  *)
(* is atomic; a read that a later write depends on is a step of its own.   *)
(* Ids are uuids, here in the order they are drawn; so are creation times. *)
(***************************************************************************)
EXTENDS Integers, Sequences, FiniteSets, SequencesExt

CONSTANTS
  Clients,                    \* processes that update runs
  Loads,                      \* how much of each store a behaviour fills: the bounds
  NONE

ASSUME RegistryAssumption ==
  /\ Loads \subseteq [runs : Nat, updates : Nat, artifacts : Nat, trajectories : Nat]
  /\ NONE \notin Nat \cup {"ckpt", "metrics", "error"}

VARIABLES
  load,        \* the bounds of this behaviour
  runs,        \* the rows of registry.db, in order of run_id
  held,        \* client -> NONE, or the record it read and what it will do
  done, torn,  \* the updates that were written; the runs on which some overlapped
  artifacts,   \* the rows of artifacts.db: [run_id, parents]
  trajs,       \* the ids in trajectories.db
  parent,      \* lineage.parent_id of every trajectory ever stored
  walk,        \* an ancestry() under way: [of, cur, chain], or what it returned
  updates

vars == <<load, runs, held, done, torn, artifacts, trajs, parent, walk, updates>>

Init ==
  /\ load \in Loads
  /\ runs = <<>> /\ held = [c \in Clients |-> NONE]
  /\ done = {} /\ torn = {} /\ updates = 0
  /\ artifacts = <<>>
  /\ trajs = {} /\ parent = <<>> /\ walk = NONE

-----------------------------------------------------------------------------
(* Run records.                                                             *)

\* save() of a new record: every run_id is a fresh uuid.
save(status, result) ==
  /\ Len(runs) < load.runs
  /\ runs' = Append(runs, [status |-> status, best_checkpoint |-> NONE,
                           policy_version |-> NONE, eval_result |-> result])
  /\ UNCHANGED <<load, held, done, torn, artifacts, trajs, parent, walk, updates>>

\* POST /runs and PlatformRun.start().
create_run == save("created", NONE)

\* The import of a result file as a finished run.
register_rl_result == save("succeeded", "metrics")

\* start() looks at no status: a finished run can be started again.
Started(rec) == [rec EXCEPT !.status = "running"]

\* publish_policy() notes the version in the record.
Published(rec) == [rec EXCEPT !.policy_version = 1]

\* Mutant: a value that is not given clears the field.
FinishedBlank(rec, status, ckpt, result) ==
  [rec EXCEPT !.status = status,
              !.best_checkpoint = ckpt, !.eval_result = result]

Finished(rec, status, ckpt, result) ==
  [rec EXCEPT !.status = status,
              !.best_checkpoint = IF ckpt = NONE THEN rec.best_checkpoint ELSE ckpt,
              !.eval_result = IF result = NONE THEN rec.eval_result ELSE result]

\* An update of a record that was read before. A run that raised is finished
\* as failed, with its error for a result; the API may finish one with a
\* status only.
Updated(rec, op) ==
  CASE op = "start"   -> Started(rec)
    [] op = "publish" -> Published(rec)
    [] op = "succeed" -> Finished(rec, "succeeded", "ckpt", "metrics")
    [] op = "fail"    -> Finished(rec, "failed", NONE, "error")
    [] op = "cancel"  -> Finished(rec, "cancelled", NONE, NONE)

Ops == {"start", "publish", "succeed", "fail", "cancel"}

\* get(): the record the update starts from.
ReadRun(c, r, op) ==
  /\ held[c] = NONE /\ updates < load.updates
  /\ held' = [held EXCEPT ![c] = [run |-> r, op |-> op, rec |-> runs[r]]]
  /\ updates' = updates + 1
  /\ UNCHANGED <<load, runs, done, torn, artifacts, trajs, parent, walk>>

\* save(): the whole row is replaced.
WriteRun(c) ==
  /\ held[c] # NONE
  /\ LET r == held[c].run
     IN  /\ runs' = [runs EXCEPT ![r] = Updated(held[c].rec, held[c].op)]
         /\ torn' = IF runs[r] = held[c].rec THEN torn ELSE torn \cup {r}
         /\ done' = done \cup {<<r, held[c].op>>}
  /\ held' = [held EXCEPT ![c] = NONE]
  /\ UNCHANGED <<load, artifacts, trajs, parent, walk, updates>>

ClientDies(c) ==
  /\ held[c] # NONE
  /\ held' = [held EXCEPT ![c] = NONE]
  /\ UNCHANGED <<load, runs, done, torn, artifacts, trajs, parent, walk, updates>>

-----------------------------------------------------------------------------
(* Artifacts. Parents are what the caller says, known or not; 0 stands for  *)
(* an id that no artifact has. Who descends from whom is Lineage.           *)

register(run, parents) ==
  /\ Len(artifacts) < load.artifacts
  /\ artifacts' = Append(artifacts, [run_id |-> run, parents |-> parents])
  /\ UNCHANGED <<load, runs, held, done, torn, trajs, parent, walk, updates>>

\* POST /artifacts, and the registrars of the platform.
create_artifact ==
  \E run \in DOMAIN runs, parents \in SeqOf(0..Len(artifacts), 2) : register(run, parents)

-----------------------------------------------------------------------------
(* Trajectories.                                                            *)

Drawn == Len(parent)

\* put() of a trajectory with this parent.
put(p) ==
  /\ Drawn < load.trajectories
  /\ p = NONE \/ p \in trajs
  /\ parent' = Append(parent, p)
  /\ trajs' = trajs \cup {Drawn + 1}
  /\ UNCHANGED <<load, runs, held, done, torn, artifacts, walk, updates>>

\* A fresh rollout, by from_completion().
from_completion == put(NONE)

\* The replay endpoint stores a derive() of a stored trajectory.
sim_duplicate_trajectory == \E p \in trajs : put(p)

\* prune(): all but the newest.
prune(keep_last_n) ==
  /\ Cardinality(trajs) > keep_last_n
  /\ trajs' = {t \in trajs : Cardinality({u \in trajs : u > t}) < keep_last_n}
  /\ UNCHANGED <<load, runs, held, done, torn, artifacts, parent, walk, updates>>

\* ancestry(), one get() per step; TrajectoryNotFound ends it, and the endpoint
\* answers 404.
StartWalk(t) ==
  /\ walk = NONE /\ t \in trajs
  /\ walk' = [of |-> t, cur |-> t, chain |-> <<>>]
  /\ UNCHANGED <<load, runs, held, done, torn, artifacts, trajs, parent, updates>>

\* Mutant: a missing parent is taken for the root.
WalkToGap ==
  /\ walk # NONE /\ walk.cur # NONE
  /\ walk' = IF walk.cur \in trajs
             THEN [walk EXCEPT !.cur = parent[walk.cur], !.chain = <<walk.cur>> \o @]
             ELSE [walk EXCEPT !.cur = NONE]
  /\ UNCHANGED <<load, runs, held, done, torn, artifacts, trajs, parent, updates>>

Walk ==
  /\ walk # NONE /\ walk.cur # NONE
  /\ walk' = IF walk.cur \in trajs
             THEN [walk EXCEPT !.cur = parent[walk.cur], !.chain = <<walk.cur>> \o @]
             ELSE NONE
  /\ UNCHANGED <<load, runs, held, done, torn, artifacts, trajs, parent, updates>>

EndWalk ==
  /\ walk # NONE /\ walk.cur = NONE
  /\ walk' = NONE
  /\ UNCHANGED <<load, runs, held, done, torn, artifacts, trajs, parent, updates>>

-----------------------------------------------------------------------------
Next ==
  \/ create_run \/ register_rl_result
  \/ \E c \in Clients : \/ \E r \in DOMAIN runs, op \in Ops : ReadRun(c, r, op)
                        \/ WriteRun(c) \/ ClientDies(c)
  \/ create_artifact
  \/ from_completion \/ sim_duplicate_trajectory
  \/ \E n \in 0..load.trajectories : prune(n)
  \/ \E t \in trajs : StartWalk(t)
  \/ Walk \/ EndWalk

Spec == Init /\ [][Next]_vars

-----------------------------------------------------------------------------
\* What one client records of a run is not undone by the next: as long as no
\* update of the row was made from a record read before another one was
\* written, the checkpoint and the policy version of every update are there,
\* and a finished run has a result; also after a run that succeeded is finished
\* again as failed (by the API, or by a late exception). With an overlap the
\* last writer wins and all of it may be lost.
UpdatesAccumulate ==
  \A r \in DOMAIN runs \ torn :
    /\ <<r, "succeed">> \in done => runs[r].best_checkpoint # NONE
    /\ <<r, "publish">> \in done => runs[r].policy_version # NONE
    /\ {<<r, "succeed">>, <<r, "fail">>} \cap done # {} => runs[r].eval_result # NONE

\* A derivation chain that ancestry() returns is the whole chain, root first,
\* also when prune() runs between its reads: it raises rather than leave out
\* an ancestor.
AncestryIsWhole ==
  walk # NONE /\ walk.cur = NONE =>
    /\ walk.chain # <<>> /\ Last(walk.chain) = walk.of
    /\ parent[Head(walk.chain)] = NONE
    /\ \A i \in 2..Len(walk.chain) : parent[walk.chain[i]] = walk.chain[i - 1]

=============================================================================
