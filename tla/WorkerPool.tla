------------------------------ MODULE WorkerPool ------------------------------
(***************************************************************************)
(* The local worker pool of platform/workers.py over the job store, with   *)
(* the results ledger that makes redelivery harmless.                      *)
(*                                                                         *)
(* run_local_pool() spawns the workers once the jobs are created; each     *)
(* loops over run_once() until it finds the queue empty. Nobody renews the *)
(* leases and nobody in the pool reaps: reapers and operators are other    *)
(* processes over the same database.                                       *)
(***************************************************************************)
EXTENDS JobStore

CONSTANTS
  Workers, Outsiders,   \* the clients: pool processes, and reapers / operators
  NONE,                 \* no job
  Handled,              \* jobs of a kind the pool has a handler for
  PoolBudget,           \* how many times a pool is run
  KillBudget,           \* how many workers are killed
  ReapBudget,           \* how many reap_expired() calls come from outside
  RequestBudget         \* how many pause / resume / cancel requests are made

ASSUME PoolClientsAssumption ==
  /\ Clients = Workers \cup Outsiders
  /\ Workers \cap Outsiders = {}
  /\ IsFiniteSet(Clients)
  /\ NONE \notin Jobs
ASSUME PoolConfigAssumption ==
  /\ Jobs \in Queues
  /\ Handled \subseteq Jobs
  /\ {PoolBudget, KillBudget, ReapBudget, RequestBudget} \subseteq Nat

VARIABLES
  pc,        \* where each worker is in run_once()
  held,      \* the job a worker's run_once() has claimed
  ledger,    \* job_results: the jobs with a recorded result
  runs,      \* history: how often a handler was started for each job
  effects,   \* history: of each job, how often its handler was started beside
             \* another run of it, and how often it had a result already when
             \* one was recorded
  pools, kills, reaps, requests

poolVars == <<storeVars, pc, held, ledger, runs, effects, pools, kills, reaps, requests>>
counters == <<effects, pools, kills, reaps, requests>>

Ended    == {"exited", "killed", "raised"}
AllEnded == \A w \in Workers : pc[w] \in Ended

Init ==
  /\ StoreInit
  /\ pc     = [w \in Workers |-> "exited"]
  /\ held   = [w \in Workers |-> NONE]
  /\ ledger = {}
  /\ runs   = [j \in Jobs |-> 0]
  /\ effects = [j \in Jobs |-> [overlaps |-> 0, repeats |-> 0]]
  /\ pools = 0 /\ kills = 0 /\ reaps = 0 /\ requests = 0

Goto(w, l) == pc' = [pc EXCEPT ![w] = l]

\* A worker goes on with the job it holds.
Step(w, l) == Goto(w, l) /\ UNCHANGED <<held, ledger, runs, counters>>

\* run_once() returns, or an exception leaves it and ends the process.
Leave(w, l) ==
  /\ Goto(w, l)
  /\ held' = [held EXCEPT ![w] = NONE]
  /\ UNCHANGED <<ledger, runs, counters>>

\* A step of others.
Outside == UNCHANGED <<pc, held, ledger, runs>>

-----------------------------------------------------------------------------
(* run_local_pool(): "Producers must have already created the jobs."        *)

Produce(j) ==
  /\ AllEnded
  /\ pools < PoolBudget
  /\ create(j)
  /\ Outside /\ UNCHANGED counters

Spawn ==
  /\ AllEnded
  /\ pools < PoolBudget
  /\ pools' = pools + 1
  /\ pc' = [w \in Workers |-> "claim"]
  /\ UNCHANGED <<storeVars, held, ledger, runs, effects, kills, reaps, requests>>

-----------------------------------------------------------------------------
(* run_once()                                                               *)

ClaimSelect(w) ==
  pc[w] = "claim" /\ SelectPage(w, "age", Jobs) /\ Step(w, "claim")

ClaimTry(w) ==
  /\ pc[w] = "claim"
  /\ \E j \in Jobs :
       \/ /\ ClaimWon(w, j)
          /\ Goto(w, "check")
          /\ held' = [held EXCEPT ![w] = j]
          /\ UNCHANGED <<ledger, runs, counters>>
       \/ ClaimLost(w, j) /\ Step(w, "claim")

\* Mutant: drain_and_exit is not passed on, an idle worker polls.
DrainedPolls(w) ==
  /\ pc[w] = "claim"
  /\ Free(w)
  /\ Pending(Jobs) = {}
  /\ Step(w, "claim")
  /\ UNCHANGED storeVars

\* The queue is observed empty: drain_and_exit.
Drained(w) ==
  /\ pc[w] = "claim"
  /\ Free(w)
  /\ Pending(Jobs) = {}
  /\ Step(w, "exited")
  /\ UNCHANGED storeVars

has_result(j) == j \in ledger

\* The workers that run the handler of a job, or are about to record its result.
Handling(j) == {w \in Workers : pc[w] \in {"handle", "record"} /\ held[w] = j}

StartHandler(w, j) ==
  /\ Goto(w, "handle")
  /\ runs' = [runs EXCEPT ![j] = @ + 1]
  /\ effects' = IF Handling(j) = {} THEN effects ELSE [effects EXCEPT ![j].overlaps = @ + 1]
  /\ UNCHANGED <<held, ledger, pools, kills, reaps, requests>>

\* Mutant: the ledger is not asked.
CheckResultBlind(w) ==
  /\ pc[w] = "check"
  /\ IF held[w] \in Handled THEN StartHandler(w, held[w]) ELSE Step(w, "fail")
  /\ UNCHANGED storeVars

\* has_result(), then the handler for the kind is looked up and called.
CheckResult(w) ==
  /\ pc[w] = "check"
  /\ \/ has_result(held[w]) /\ Step(w, "finish")
     \/ ~has_result(held[w]) /\ held[w] \notin Handled /\ Step(w, "fail")
     \/ ~has_result(held[w]) /\ held[w] \in Handled /\ StartHandler(w, held[w])
  /\ UNCHANGED storeVars

\* The handler returns or raises.
Handle(w) ==
  /\ pc[w] = "handle"
  /\ Step(w, "record") \/ Step(w, "fail")
  /\ UNCHANGED storeVars

\* Mutant: the result is kept in memory only.
RecordForgotten(w) ==
  pc[w] = "record" /\ Step(w, "complete") /\ UNCHANGED storeVars

\* record_result(): INSERT OR IGNORE.
RecordResult(w) ==
  /\ pc[w] = "record"
  /\ Goto(w, "complete")
  /\ ledger' = ledger \cup {held[w]}
  /\ effects' = IF has_result(held[w]) THEN [effects EXCEPT ![held[w]].repeats = @ + 1] ELSE effects
  /\ UNCHANGED <<storeVars, held, runs, pools, kills, reaps, requests>>

\* complete() of a job just handled is inside the try, so that whatever it raises
\* is taken for a failure of the job; complete() of a redelivered job is not.
Complete(w) ==
  \/ /\ pc[w] \in {"complete", "finish"}
     /\ BeginTransition(w, held[w], SUCCEEDED, 0)
     /\ UNCHANGED <<rowVars, reaping>>
     /\ Step(w, IF pc[w] = "complete" THEN "completing" ELSE "finishing")
  \/ /\ pc[w] \in {"complete", "finish"}
     /\ ~can_transition(state[held[w]], SUCCEEDED)
     /\ IF pc[w] = "complete" THEN Step(w, "fail") ELSE Leave(w, "raised")
     /\ UNCHANGED storeVars

CompleteWrite(w) ==
  \/ pc[w] \in {"completing", "finishing"} /\ Update(w) /\ Leave(w, "claim")
  \/ pc[w] = "completing" /\ UpdateConflict(w) /\ Step(w, "fail")
  \/ pc[w] = "finishing" /\ UpdateConflict(w) /\ Leave(w, "raised")

\* fail(): what it raises ends the process.
FailJob(w) ==
  /\ pc[w] = "fail"
  /\ \/ fail(w, held[w]) /\ Step(w, "failing")
     \/ /\ ~can_transition(state[held[w]], FAILED)
        /\ UNCHANGED storeVars
        /\ Leave(w, "raised")

\* Mutant: a worker whose job failed leaves the retry to others.
FailWriteExits(w) ==
  /\ pc[w] = "failing"
  /\ \/ Update(w) /\ Leave(w, "exited")
     \/ UpdateConflict(w) /\ Leave(w, "raised")

FailWrite(w) ==
  /\ pc[w] = "failing"
  /\ \/ Update(w) /\ Leave(w, "claim")
     \/ UpdateConflict(w) /\ Leave(w, "raised")

Kill(w) ==
  /\ pc[w] \notin Ended
  /\ kills < KillBudget
  /\ kills' = kills + 1
  /\ Goto(w, "killed")
  /\ held' = [held EXCEPT ![w] = NONE]
  /\ Abandon(w) \/ (Free(w) /\ UNCHANGED storeVars)
  /\ UNCHANGED <<ledger, runs, effects, pools, reaps, requests>>

-----------------------------------------------------------------------------
(* The other processes over the same database.                              *)

Reap(o) ==
  /\ reaps < ReapBudget
  /\ ReapSelect(o)
  /\ reaps' = reaps + 1
  /\ Outside /\ UNCHANGED <<effects, pools, kills, requests>>

\* The next id of the list; an illegal edge raises and ends the call.
ReapOne(o) ==
  /\ \E j \in reaping[o] :
       \/ ReapNext(o, j)
       \/ Free(o) /\ ~can_transition(state[j], FAILED) /\ Abandon(o)
  /\ Outside /\ UNCHANGED counters

Request(o, j) ==
  /\ requests < RequestBudget
  /\ reaping[o] = {}
  /\ \/ BeginTransition(o, j, PAUSED, 0)
     \/ BeginTransition(o, j, PENDING, 0)
     \/ BeginTransition(o, j, CANCELLED, 0)
  /\ requests' = requests + 1
  /\ UNCHANGED <<rowVars, reaping>>
  /\ Outside /\ UNCHANGED <<effects, pools, kills, reaps>>

OutsideWrite(o) ==
  /\ Update(o) \/ UpdateConflict(o)
  /\ Outside /\ UNCHANGED counters

LeaseRunsOut(j) == Expire(j) /\ Outside /\ UNCHANGED counters

-----------------------------------------------------------------------------
run_once(w) ==
  \/ ClaimSelect(w) \/ ClaimTry(w) \/ Drained(w)
  \/ CheckResult(w) \/ Handle(w) \/ RecordResult(w)
  \/ Complete(w) \/ CompleteWrite(w) \/ FailJob(w) \/ FailWrite(w)

Next ==
  \/ Spawn
  \/ \E w \in Workers : run_once(w) \/ Kill(w)
  \/ \E j \in Jobs : Produce(j) \/ LeaseRunsOut(j)
  \/ \E o \in Outsiders : \/ Reap(o) \/ ReapOne(o) \/ OutsideWrite(o)
                          \/ \E j \in Jobs : Request(o, j)

Spec == Init /\ [][Next]_poolVars

\* A live worker goes on, and its handlers return or raise.
FairSpec == Spec /\ \A w \in Workers : WF_poolVars(run_once(w))

-----------------------------------------------------------------------------
\* Where a worker may be.
Labels == {"claim", "check", "handle", "record", "complete", "completing",
           "finish", "finishing", "fail", "failing"} \cup Ended

\* The pool, too, moves the table only by the store's own statements.
ImplementsStore == StoreSpec

\* Whoever wrote SUCCEEDED, the job's result is in the ledger, although the two
\* tables are written by different statements, of different workers when the
\* job was redelivered (workers.py run_once()).
SucceededHasResult ==
  \A j \in Jobs : state[j] = SUCCEEDED => j \in ledger

\* A result that was recorded is produced again only where two runs overlap: a
\* job redelivered after its result was recorded, by a worker that died before
\* it could complete the job or by a reap or a resume that came later, is
\* finished without running it again (workers.py: "don't re-run the side effect - just
\* finish the lifecycle").
RepeatsAreOverlaps ==
  \A j \in Jobs : effects[j].repeats <= effects[j].overlaps

\* A handler is started again only for a job that failed since, was reaped, or
\* was paused and resumed (two requests): claims alone never deliver a job
\* twice, whatever the workers read before (store.py claim()). The history
\* counter stops at the budget, so this speaks of jobs that have not failed so
\* often.
RunsAreCharged ==
  \A j \in Jobs : fails[j] < MaxAttempts[j] =>
    2 * runs[j] <= 2 + 2 * fails[j] + requests

\* Without reapers and operators no store exception ends a worker, and when
\* run_local_pool() returns after at least one worker found the queue empty,
\* each killed worker has left at most one job unfinished: workers exit while
\* others may still put jobs back in the queue, and no retry is lost by it.
EachKillStrandsOne ==
  reaps + requests = 0 =>
    /\ \A w \in Workers : pc[w] # "raised"
    /\ pools = PoolBudget /\ AllEnded /\ (\E w \in Workers : pc[w] = "exited")
         => Cardinality({j \in Jobs : state[j] \notin TERMINAL \cup {ABSENT}}) <= kills

\* run_local_pool() returns: its workers end, however often handlers fail and
\* whatever others do to the jobs meanwhile.
PoolEnds == pools > 0 ~> AllEnded

=============================================================================
