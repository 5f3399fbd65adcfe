----------------------------- MODULE ControlPlane -----------------------------
(***************************************************************************)
(* The worker daemons of platform/control.py over the job store, with the  *)
(* admission control of platform/scheduler.py and the job endpoints of     *)
(* platform/api.py.                                                        *)
(*                                                                         *)
(* A daemon repeats serve_pending(): reap the expired leases, count the    *)
(* running jobs once, admit queued jobs into the free slots, then handle   *)
(* the admitted jobs one after the other, each training under a heartbeat  *)
(* thread. Every store call is the two-statement call of JobStore. An      *)
(* exception serve_pending() does not catch ends the process.              *)
(***************************************************************************)
EXTENDS JobStore, Sequences

CONSTANTS
  Daemons, Operators,   \* the clients: worker processes and API requests
  Resource, Kind,       \* jobs.resource and jobs.kind of each job
  Slots,                \* ResourceConfig: gpu_slots and cpu_worker_slots
  MaxConcurrent,        \* ResourceConfig.max_concurrent_jobs
  Outcomes,             \* what execute_training_job() may do
  KillBudget,           \* how many times a daemon is killed
  RequestBudget,        \* how many pause / resume / cancel requests are made
  HeartbeatTimely       \* a lease cannot run out under a live heartbeat thread

GPU == "gpu"
CPU == "cpu"
TRAIN_KIND == "train"

InResource(r) == {j \in Jobs : Resource[j] = r}

ASSUME ClientsAssumption ==
  /\ Clients = Daemons \cup Operators
  /\ Daemons \cap Operators = {}
ASSUME JobColumnsAssumption ==
  /\ DOMAIN Resource = Jobs
  /\ DOMAIN Kind = Jobs
  /\ {InResource(GPU), InResource(CPU)} \subseteq Queues
ASSUME ConfigAssumption ==
  /\ Slots \in [{GPU, CPU} -> Nat]
  /\ MaxConcurrent \in Nat
  /\ Outcomes \subseteq {"ref", "none", "error"}
  /\ KillBudget \in Nat /\ RequestBudget \in Nat
  /\ HeartbeatTimely \in BOOLEAN

VARIABLES
  pc,         \* where each daemon is in serve_pending()
  free,       \* what schedule() still believes free: slots per resource, and all
  admitted,   \* jobs schedule() admitted and the daemon has yet to finish
  beating,    \* the heartbeat thread of the job in training is alive
  outcome,    \* what execute_training_job() returned: a dict or None
  returned,   \* history: outcomes execute_training_job() returned for each job
  kills, requests

daemonVars == <<pc, free, admitted, beating, outcome>>
cpVars     == <<storeVars, daemonVars, returned, kills, requests>>

Dead    == {"killed", "raised"}
NoSlots == [gpu |-> 0, cpu |-> 0, all |-> 0]

Running    == {j \in Jobs : state[j] = RUNNING}
Current(d) == Head(admitted[d])
Goto(d, l) == pc' = [pc EXCEPT ![d] = l]

Init ==
  /\ StoreInit
  /\ pc       = [d \in Daemons |-> "pass"]
  /\ free     = [d \in Daemons |-> NoSlots]
  /\ admitted = [d \in Daemons |-> <<>>]
  /\ beating  = [d \in Daemons |-> FALSE]
  /\ outcome  = [d \in Daemons |-> "ref"]
  /\ returned = [j \in Jobs |-> {}]
  /\ kills = 0 /\ requests = 0

\* The process ends: everything it held in memory, and its heartbeat, is gone.
Exit(d, how) ==
  /\ Goto(d, how)
  /\ free'     = [free EXCEPT ![d] = NoSlots]
  /\ admitted' = [admitted EXCEPT ![d] = <<>>]
  /\ beating'  = [beating EXCEPT ![d] = FALSE]
  /\ outcome'  = [outcome EXCEPT ![d] = "ref"]
  /\ UNCHANGED <<returned, requests>>

Raise(d) == Exit(d, "raised") /\ UNCHANGED kills

Step(d, l) ==
  Goto(d, l) /\ UNCHANGED <<free, admitted, beating, outcome, returned, kills, requests>>

\* Done with the current job: on to the next admitted one.
NextJob(d) ==
  /\ Goto(d, "work")
  /\ admitted' = [admitted EXCEPT ![d] = Tail(@)]
  /\ outcome'  = [outcome EXCEPT ![d] = "ref"]
  /\ UNCHANGED <<free, beating, returned, kills, requests>>

-----------------------------------------------------------------------------
(* 1. reap_expired(). Nothing it raises is caught.                          *)

ReapStart(d) ==
  /\ pc[d] = "pass"
  /\ \/ ReapSelect(d) /\ Step(d, "reap")
     \/ Expired = {} /\ UNCHANGED storeVars /\ Step(d, "count")

ReapGet(d) ==
  /\ pc[d] = "reap"
  /\ \E j \in reaping[d] :
       \/ ReapNext(d, j) /\ Step(d, "reaping")
       \/ ~can_transition(state[j], FAILED) /\ Abandon(d) /\ Raise(d)

ReapWrite(d) ==
  /\ pc[d] = "reaping"
  /\ \/ Update(d) /\ Step(d, IF reaping[d] = {} THEN "count" ELSE "reap")
     \/ UpdateConflict(d) /\ Raise(d)

-----------------------------------------------------------------------------
(* 2. schedule(): one count, then admissions against it, GPU before CPU.    *)

FreeSlots(r) == Slots[r] - Cardinality(Running \cap InResource(r))

\* Mutant: jobs admitted in an earlier pass are not counted.
CountNothing(d) ==
  /\ pc[d] = "count"
  /\ free' = [free EXCEPT ![d] = [gpu |-> Slots[GPU], cpu |-> Slots[CPU],
                                  all |-> MaxConcurrent]]
  /\ Goto(d, GPU)
  /\ UNCHANGED <<storeVars, admitted, beating, outcome, returned, kills, requests>>

Count(d) ==
  /\ pc[d] = "count"
  /\ free' = [free EXCEPT ![d] =
                [gpu |-> FreeSlots(GPU), cpu |-> FreeSlots(CPU),
                 all |-> MaxConcurrent - Cardinality(Running)]]
  /\ Goto(d, GPU)
  /\ UNCHANGED <<storeVars, admitted, beating, outcome, returned, kills, requests>>

HasRoom(d, r) == free[d][r] > 0 /\ free[d].all > 0

AdmitSelect(d) ==
  LET r == pc[d] IN
  /\ r \in {GPU, CPU}
  /\ HasRoom(d, r)
  /\ SelectPage(d, "priority", InResource(r))
  /\ UNCHANGED <<daemonVars, returned, kills, requests>>

TakeSlot(d, r) ==
  free' = [free EXCEPT ![d][r] = free[d][r] - 1, ![d].all = free[d].all - 1]

AdmitTry(d) ==
  LET r == pc[d] IN
  /\ r \in {GPU, CPU}
  /\ \E j \in Jobs :
       \/ /\ ClaimWon(d, j)
          /\ TakeSlot(d, r)
          /\ admitted' = [admitted EXCEPT ![d] = Append(@, j)]
          /\ UNCHANGED <<pc, beating, outcome, returned, kills, requests>>
       \/ ClaimLost(d, j) /\ UNCHANGED <<daemonVars, returned, kills, requests>>

\* No room, or claim_priority() found nothing: the next resource class.
AdmitDone(d) ==
  LET r == pc[d] IN
  /\ r \in {GPU, CPU}
  /\ Free(d)
  /\ ~HasRoom(d, r) \/ Pending(InResource(r)) = {}
  /\ Step(d, IF r = GPU THEN CPU ELSE "work")
  /\ UNCHANGED storeVars

-----------------------------------------------------------------------------
(* 3. The admitted jobs, in order.                                          *)

PassDone(d) ==
  /\ pc[d] = "work"
  /\ admitted[d] = <<>>
  /\ Goto(d, "pass")
  /\ free' = [free EXCEPT ![d] = NoSlots]
  /\ UNCHANGED <<storeVars, admitted, beating, outcome, returned, kills, requests>>

\* scheduler.fail() on a kind without handler; nothing it raises is caught.
Reject(d) ==
  /\ pc[d] = "work"
  /\ admitted[d] # <<>>
  /\ Kind[Current(d)] # TRAIN_KIND
  /\ \/ fail(d, Current(d)) /\ Step(d, "rejecting")
     \/ /\ ~can_transition(state[Current(d)], FAILED)
        /\ UNCHANGED storeVars /\ Raise(d)

RejectWrite(d) ==
  /\ pc[d] = "rejecting"
  /\ \/ Update(d) /\ NextJob(d)
     \/ UpdateConflict(d) /\ Raise(d)

\* renew_lease() to the length of a training job, outside every try; then the
\* heartbeat thread starts.
StartTraining(d) ==
  /\ pc[d] = "work"
  /\ admitted[d] # <<>>
  /\ Kind[Current(d)] = TRAIN_KIND
  /\ \/ /\ renew_lease(Current(d))
        /\ Goto(d, "train")
        /\ beating' = [beating EXCEPT ![d] = TRUE]
        /\ UNCHANGED <<free, admitted, outcome, returned, kills, requests>>
     \/ ~Renewable(Current(d)) /\ UNCHANGED storeVars /\ Raise(d)

\* The heartbeat thread: renew, or stop for good once the job is not RUNNING.
Heartbeat(d) ==
  /\ beating[d]
  /\ \/ renew_lease(Current(d)) /\ UNCHANGED beating
     \/ /\ ~Renewable(Current(d))
        /\ beating' = [beating EXCEPT ![d] = FALSE]
        /\ UNCHANGED storeVars
  /\ UNCHANGED <<pc, free, admitted, outcome, returned, kills, requests>>

\* Mutant: a training failure is swallowed.
AfterTrainingSwallow(o) == "complete"

AfterTraining(o) == IF o = "error" THEN "fail" ELSE "complete"

Ref(d, o) == IF o = "error" THEN outcome[d] ELSE o

\* execute_training_job() returns run refs or None, or raises; the heartbeat
\* context exits either way.
FinishTraining(d) ==
  /\ pc[d] = "train"
  /\ \E o \in Outcomes :
       /\ Goto(d, AfterTraining(o))
       /\ outcome' = [outcome EXCEPT ![d] = Ref(d, o)]
       /\ returned' = [returned EXCEPT ![Current(d)] =
                         IF o = "error" THEN @ ELSE @ \cup {o}]
  /\ beating' = [beating EXCEPT ![d] = FALSE]
  /\ UNCHANGED <<storeVars, free, admitted, kills, requests>>

\* results.append({..., **ref}): a TypeError when ref is None.
Report(d) == IF outcome[d] = "none" THEN Raise(d) ELSE NextJob(d)

\* complete(): InvalidTransition is caught and reported as cancelled.
Complete(d) ==
  /\ pc[d] = "complete"
  /\ \/ /\ BeginTransition(d, Current(d), SUCCEEDED, 0)
        /\ UNCHANGED <<rowVars, reaping>>
        /\ Step(d, "completing")
     \/ /\ ~can_transition(state[Current(d)], SUCCEEDED)
        /\ UNCHANGED storeVars
        /\ Report(d)

CompleteWrite(d) ==
  /\ pc[d] = "completing"
  /\ \/ Update(d) /\ Report(d)
     \/ UpdateConflict(d) /\ Raise(d)

\* fail(): InvalidTransition is caught, ConcurrentModification is not.
FailJob(d) ==
  /\ pc[d] = "fail"
  /\ \/ fail(d, Current(d)) /\ Step(d, "failing")
     \/ /\ ~can_transition(state[Current(d)], FAILED)
        /\ UNCHANGED storeVars
        /\ NextJob(d)

FailWrite(d) ==
  /\ pc[d] = "failing"
  /\ \/ Update(d) /\ NextJob(d)
     \/ UpdateConflict(d) /\ Raise(d)

-----------------------------------------------------------------------------
(* The world around the daemons.                                            *)

\* A hard kill between any two statements, and the worker started again.
Kill(d) ==
  /\ pc[d] \notin Dead
  /\ kills < KillBudget
  /\ kills' = kills + 1
  /\ Exit(d, "killed")
  /\ \/ Abandon(d)
     \/ Free(d) /\ reaping[d] = {} /\ UNCHANGED storeVars

Restart(d) ==
  /\ pc[d] \in Dead
  /\ Step(d, "pass")
  /\ UNCHANGED storeVars

\* Mutant: the INSERT replaces an existing row.
SubmitReplaces(j) ==
  /\ state' = [state EXCEPT ![j] = PENDING]
  /\ born'  = [born EXCEPT ![j] = 1]
  /\ UNCHANGED <<attempts, lease, call, reaping, fails>>
  /\ UNCHANGED <<daemonVars, returned, kills, requests>>

\* submit_training(), POST /jobs.
Submit(j) == create(j) /\ UNCHANGED <<daemonVars, returned, kills, requests>>

\* POST /jobs/{id}/pause, /resume, /cancel: the allowed_from check and the
\* SELECT of transition(). A refusal (409) changes nothing.
Request(o, j) ==
  /\ requests < RequestBudget
  /\ \/ BeginTransition(o, j, PAUSED, 0)
     \/ state[j] = PAUSED /\ BeginTransition(o, j, PENDING, 0)
     \/ BeginTransition(o, j, CANCELLED, 0)
  /\ requests' = requests + 1
  /\ UNCHANGED <<rowVars, reaping, daemonVars, returned, kills>>

RequestWrite(o) ==
  /\ Update(o) \/ UpdateConflict(o)
  /\ UNCHANGED <<daemonVars, returned, kills, requests>>

\* Training(d): d is between the start and the end of execute_training_job().
Training(d) == pc[d] = "train"

LeaseRunsOut(j) ==
  /\ HeartbeatTimely => \A d \in Daemons : ~(beating[d] /\ Current(d) = j)
  /\ Expire(j)
  /\ UNCHANGED <<daemonVars, returned, kills, requests>>

DaemonStep(d) ==
  \/ ReapStart(d) \/ ReapGet(d) \/ ReapWrite(d)
  \/ Count(d) \/ AdmitSelect(d) \/ AdmitTry(d) \/ AdmitDone(d)
  \/ PassDone(d) \/ Reject(d) \/ RejectWrite(d)
  \/ StartTraining(d) \/ FinishTraining(d)
  \/ Complete(d) \/ CompleteWrite(d) \/ FailJob(d) \/ FailWrite(d)

Next ==
  \/ \E d \in Daemons : DaemonStep(d) \/ Heartbeat(d) \/ Kill(d) \/ Restart(d)
  \/ \E j \in Jobs : Submit(j) \/ LeaseRunsOut(j)
  \/ \E o \in Operators : RequestWrite(o) \/ \E j \in Jobs : Request(o, j)

Spec == Init /\ [][Next]_cpVars

\* Daemons keep running (a training run ends), the clock advances, a request
\* that has read its row is finished, and a dead worker is started again.
Fairness ==
  /\ \A d \in Daemons : WF_cpVars(DaemonStep(d)) /\ WF_cpVars(Restart(d))
  /\ \A j \in Jobs : WF_cpVars(LeaseRunsOut(j))
  /\ \A o \in Operators : WF_cpVars(RequestWrite(o))

FairSpec == Spec /\ Fairness

-----------------------------------------------------------------------------
\* Where a daemon may be.
Labels == {"pass", "reap", "reaping", "count", GPU, CPU, "work", "rejecting",
           "train", "complete", "completing", "fail", "failing"} \cup Dead

\* The daemons, the scheduler and the API only ever act on the table through
\* the store's calls, so what is proved of the store holds of the system.
ImplementsStore == StoreSpec

\* Admission control: the RUNNING jobs never exceed a resource's slots nor
\* the global cap, across passes, kills and restarts (scheduler.py
\* schedule(), for as long as one daemon schedules).
SlotCapacity ==
  /\ Cardinality(Running) <= MaxConcurrent
  /\ \A r \in {GPU, CPU} : Cardinality(Running \cap InResource(r)) <= Slots[r]

\* No job the daemons or the API touch is left where nothing picks it up: no
\* crash point persists FAILED or RETRYING, and every RUNNING job has a lease
\* for the reaper to find (ARCHITECTURE.md section 2).
NothingStranded ==
  \A j \in Jobs : /\ state[j] \notin {FAILED, RETRYING}
                  /\ state[j] = RUNNING => lease[j] # NULL

\* A SUCCEEDED job was executed to its end by some daemon, although complete()
\* may come from a worker whose claim was reaped and given to another.
SucceededWasExecuted ==
  \A j \in Jobs : state[j] = SUCCEEDED => returned[j] # {}

\* A worker gets a job that another is still training only through a failure
\* charged to the job or an operator's pause and resume: claiming alone never
\* hands a job out twice (store.py claim_priority()).
OverlapIsAccounted ==
  \A d, e \in Daemons :
    d # e /\ Training(d) /\ Training(e) /\ Current(d) = Current(e)
      => fails[Current(d)] > 0 \/ requests > 1

\* A cancel while a job executes is reported by its worker as a benign
\* "cancelled": completing the job never ends the worker.
CancelIsBenign ==
  [][\A d \in Daemons : pc[d] = "completing" => pc'[d] # "raised"]_cpVars

\* Every queued job is settled in the end: finished, given up, cancelled, or
\* held by an operator, although workers are killed at any statement or end
\* themselves on a lost race.
QueuedJobSettles ==
  \A j \in Jobs : state[j] = PENDING ~> state[j] \in TERMINAL \cup {PAUSED}

\* Left to itself the worker finishes or gives up every queued job: requeues
\* after reaps and failures do not go on for ever.
UnattendedJobEnds ==
  \A j \in Jobs : state[j] = PENDING ~> state[j] \in {SUCCEEDED, DEAD_LETTER}

=============================================================================
