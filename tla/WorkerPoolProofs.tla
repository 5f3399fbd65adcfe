--------------------------- MODULE WorkerPoolProofs ---------------------------
(***************************************************************************)
(* Proofs about the worker pool, for any number of workers, jobs, pools,   *)
(* kills, reaps and requests: it implements the store, a job is SUCCEEDED  *)
(* only with a recorded result, no recorded job is run again, every start  *)
(* of a handler is charged, and an undisturbed pool loses at most one job  *)
(* per kill.                                                               *)
(***************************************************************************)
EXTENDS WorkerPool, JobStoreProofs

\* Where a worker has claimed a job and not yet finished with it.
Busy == {"check", "handle", "record", "complete", "completing",
         "finish", "finishing", "fail", "failing"}

\* Where the job's result is known to be in the ledger.
Recorded == {"complete", "completing", "finish", "finishing"}

\* A worker in the middle of run_once() holds the job it claimed, and one that
\* is about to complete it has seen, or written, its result.
HoldsItsJob ==
  /\ pc \in [Workers -> Labels]
  /\ held \in [Workers -> Jobs \cup {NONE}]
  /\ ledger \subseteq Jobs
  /\ \A w \in Workers : pc[w] \in Busy => held[w] \in Jobs
  /\ \A w \in Workers : pc[w] \in Recorded => held[w] \in ledger

\* SucceededHasResult is not inductive: complete() writes SUCCEEDED one
\* statement after it was planned. No plan to succeed is made for a job
\* without result, and results are never deleted.
PlansAreRecorded ==
  \A c \in Clients :
    call[c].op = "update" /\ call[c].to = SUCCEEDED => call[c].job \in ledger

Agree == PlansAreRecorded /\ SucceededHasResult

USE PoolClientsAssumption, PoolConfigAssumption
USE DEF Labels, Busy, Recorded, Ended, Goto

-----------------------------------------------------------------------------
\* A worker that moves on with the job it holds, to a place where the result is
\* known only if it is.
LEMMA StepHolds ==
  ASSUME HoldsItsJob, NEW w \in Workers, NEW l \in Labels, Step(w, l),
         l \in Busy => held[w] \in Jobs,
         l \in Recorded => held[w] \in ledger
  PROVE  HoldsItsJob' /\ ledger' = ledger
BY DEF HoldsItsJob, Step

\* A worker that leaves run_once() holds nothing.
LEMMA LeaveHolds ==
  ASSUME HoldsItsJob, NEW w \in Workers, NEW l \in Labels \ Busy, Leave(w, l)
  PROVE  HoldsItsJob' /\ ledger' = ledger
BY DEF HoldsItsJob, Leave

\* The steps of others leave the workers alone.
LEMMA OutsideHolds ==
  ASSUME HoldsItsJob, Outside
  PROVE  HoldsItsJob' /\ ledger' = ledger
BY DEF HoldsItsJob, Outside

-----------------------------------------------------------------------------
\* A write to the table that no one planned as a success.
LEMMA RowsAgree ==
  ASSUME Agree, ledger \subseteq ledger',
         \A j \in Jobs : state'[j] = SUCCEEDED => state[j] = SUCCEEDED,
         \A c \in Clients : call'[c] = call[c] \/ call'[c].op # "update"
  PROVE  Agree'
BY DEF Agree, PlansAreRecorded, SucceededHasResult

\* A planned UPDATE is committed.
LEMMA UpdateAgrees ==
  ASSUME TypeOK, Agree, ledger' = ledger, NEW c \in Clients, Update(c)
  PROVE  Agree'
<1>1. call[c] \in Updates
  BY CallShape DEF Update
<1>2. SucceededHasResult'
  BY <1>1 DEF Agree, PlansAreRecorded, SucceededHasResult, Update, TypeOK, Updates
<1>3. PlansAreRecorded'
  BY DEF Agree, PlansAreRecorded, Update, TypeOK, Idle
<1> QED BY <1>2, <1>3 DEF Agree

\* A client plans a write, a success only for a job with a result.
LEMMA PlanAgrees ==
  ASSUME TypeOK, Agree, ledger' = ledger, state' = state, NEW c \in Clients,
         NEW j \in Jobs, NEW s, NEW b, call' = [call EXCEPT ![c] = Planned(j, s, b)],
         s = SUCCEEDED => j \in ledger
  PROVE  Agree'
BY DEF Agree, PlansAreRecorded, SucceededHasResult, TypeOK, Planned

\* The statements that neither commit nor plan a success.
LEMMA StatementsAgree ==
  ASSUME TypeOK, Agree, ledger' = ledger, NEW c \in Clients
  PROVE  /\ UNCHANGED storeVars => Agree'
         /\ UpdateConflict(c) => Agree'
         /\ Abandon(c) => Agree'
         /\ ReapSelect(c) => Agree'
         /\ \A by, q : SelectPage(c, by, q) => Agree'
         /\ \A j \in Jobs : ClaimWon(c, j) \/ ClaimLost(c, j) => Agree'
         /\ \A j \in Jobs : fail(c, j) \/ ReapNext(c, j) => Agree'
         /\ \A j \in Jobs : create(j) \/ Expire(j) => Agree'
<1>1. UNCHANGED storeVars => Agree'
  BY RowsAgree DEF storeVars
<1>2. UpdateConflict(c) \/ Abandon(c) \/ ReapSelect(c) => Agree'
  BY RowsAgree DEF UpdateConflict, Abandon, ReapSelect, rowVars, Idle, TypeOK
<1>3. ASSUME NEW by, NEW q, SelectPage(c, by, q) PROVE Agree'
  <2>1. \A d \in Clients : call'[d] = call[d] \/ call'[d].op # "update"
    BY <1>3 DEF SelectPage, TypeOK
  <2>2. state' = state
    BY <1>3 DEF SelectPage, rowVars
  <2> QED BY <2>1, <2>2, RowsAgree
<1>4. ASSUME NEW j \in Jobs, ClaimWon(c, j) PROVE Agree'
  <2>1. \A d \in Clients : call'[d] = call[d] \/ call'[d].op # "update"
    BY <1>4 DEF ClaimWon, Idle, TypeOK
  <2>2. \A i \in Jobs : state'[i] = SUCCEEDED => state[i] = SUCCEEDED
    BY <1>4 DEF ClaimWon, TypeOK, RUNNING, SUCCEEDED
  <2> QED BY <2>1, <2>2, RowsAgree
<1>5. ASSUME NEW j \in Jobs, ClaimLost(c, j) PROVE Agree'
  <2> DEFINE v == IF call[c].rows = {j} THEN Idle
                  ELSE [call[c] EXCEPT !.rows = call[c].rows \ {j}]
  <2>1. v \in {Idle} \cup Pages
    <3>1. call[c] \in Pages
      BY <1>5, CallShape DEF ClaimLost
    <3> QED BY <3>1 DEF Pages
  <2>2. v.op # "update"
    BY <2>1 DEF Idle, Pages
  <2>3. call' = [call EXCEPT ![c] = v] /\ state' = state
    BY <1>5 DEF ClaimLost, rowVars
  <2> HIDE DEF v
  <2>4. \A d \in Clients : call'[d] = call[d] \/ call'[d].op # "update"
    BY <2>2, <2>3 DEF TypeOK
  <2> QED BY <2>3, <2>4, RowsAgree
<1>6. ASSUME NEW j \in Jobs, fail(c, j) \/ ReapNext(c, j) PROVE Agree'
  <2>1. FailTarget(j) # SUCCEEDED
    BY DEF FailTarget, SUCCEEDED, DEAD_LETTER, PENDING
  <2> QED BY <1>6, <2>1, PlanAgrees DEF fail, ReapNext, BeginFail, rowVars
<1>7. ASSUME NEW j \in Jobs, create(j) \/ Expire(j) PROVE Agree'
  BY <1>7, RowsAgree DEF create, Expire, TypeOK, PENDING, SUCCEEDED
<1> QED BY <1>1, <1>2, <1>3, <1>4, <1>5, <1>6, <1>7

-----------------------------------------------------------------------------
StepIsSound == HoldsItsJob' /\ Agree' /\ StoreStep

\* A worker's statements are statements of the store, and complete only jobs
\* with a result.
LEMMA WorkerStep ==
  ASSUME TypeOK, HoldsItsJob, Agree, NEW w \in Workers, run_once(w)
  PROVE  StepIsSound
<1> USE DEF StepIsSound, StoreStep
<1>0. w \in Clients /\ Jobs \in Queues
  OBVIOUS
<1>1. CASE ClaimSelect(w)
  BY <1>0, <1>1, StepHolds, StatementsAgree, ClientCalls DEF ClaimSelect
<1>2. CASE ClaimTry(w)
  <2>1. PICK j \in Jobs :
          \/ /\ ClaimWon(w, j)
             /\ Goto(w, "check")
             /\ held' = [held EXCEPT ![w] = j]
             /\ UNCHANGED <<ledger, runs, counters>>
          \/ ClaimLost(w, j) /\ Step(w, "claim")
    BY <1>2 DEF ClaimTry
  <2>2. CASE ClaimLost(w, j) /\ Step(w, "claim")
    BY <1>0, <2>2, StepHolds, StatementsAgree, ClientCalls
  <2>3. CASE /\ ClaimWon(w, j)
             /\ Goto(w, "check")
             /\ held' = [held EXCEPT ![w] = j]
             /\ ledger' = ledger
    <3>1. HoldsItsJob'
      BY <2>3 DEF HoldsItsJob
    <3> QED BY <1>0, <2>3, <3>1, StatementsAgree, ClientCalls
  <2> QED BY <2>1, <2>2, <2>3
<1>3. CASE Drained(w)
  BY <1>0, <1>3, StepHolds, StatementsAgree DEF Drained
<1>4. CASE CheckResult(w)
  <2>1. held[w] \in Jobs /\ UNCHANGED storeVars
    BY <1>4 DEF CheckResult, HoldsItsJob
  <2>2. CASE has_result(held[w]) /\ Step(w, "finish")
    BY <1>0, <2>1, <2>2, StepHolds, StatementsAgree DEF has_result
  <2>3. CASE Step(w, "fail")
    BY <1>0, <2>1, <2>3, StepHolds, StatementsAgree
  <2>4. CASE Goto(w, "handle") /\ UNCHANGED <<held, ledger>>
    <3>1. HoldsItsJob'
      BY <2>1, <2>4 DEF HoldsItsJob
    <3> QED BY <1>0, <2>1, <2>4, <3>1, StatementsAgree
  <2> QED BY <1>4, <2>2, <2>3, <2>4 DEF CheckResult, StartHandler
<1>5. CASE Handle(w)
  <2>1. held[w] \in Jobs /\ UNCHANGED storeVars
    BY <1>5 DEF Handle, HoldsItsJob
  <2> QED BY <1>0, <1>5, <2>1, StepHolds, StatementsAgree DEF Handle
<1>6. CASE RecordResult(w)
  <2>1. held[w] \in Jobs /\ UNCHANGED storeVars /\ ledger \subseteq ledger'
    BY <1>6 DEF RecordResult, HoldsItsJob
  <2>2. HoldsItsJob'
    BY <1>6, <2>1 DEF RecordResult, HoldsItsJob
  <2> QED BY <1>0, <2>1, <2>2, RowsAgree DEF storeVars
<1>7. CASE Complete(w)
  <2>1. held[w] \in Jobs /\ held[w] \in ledger
    BY <1>7 DEF Complete, HoldsItsJob
  <2>2. CASE /\ BeginTransition(w, held[w], SUCCEEDED, 0)
             /\ UNCHANGED <<rowVars, reaping>>
             /\ Step(w, "completing") \/ Step(w, "finishing")
    <3>1. HoldsItsJob' /\ ledger' = ledger
      BY <2>1, <2>2, StepHolds
    <3>2. Agree'
      BY <1>0, <2>1, <2>2, <3>1, PlanAgrees DEF BeginTransition, rowVars
    <3>3. StoreNext
      BY <1>0, <2>1, <2>2, TransitionCalls
    <3> QED BY <3>1, <3>2, <3>3
  <2>3. CASE UNCHANGED storeVars /\ (Step(w, "fail") \/ Leave(w, "raised"))
    BY <1>0, <2>1, <2>3, StepHolds, LeaveHolds, StatementsAgree
  <2> QED BY <1>7, <2>2, <2>3 DEF Complete
<1>8. CASE CompleteWrite(w)
  <2>1. held[w] \in Jobs
    BY <1>8 DEF CompleteWrite, HoldsItsJob
  <2>2. CASE Update(w) /\ Leave(w, "claim")
    BY <1>0, <2>2, LeaveHolds, UpdateAgrees, ClientCalls
  <2>3. CASE UpdateConflict(w) /\ (Step(w, "fail") \/ Leave(w, "raised"))
    BY <1>0, <2>1, <2>3, StepHolds, LeaveHolds, StatementsAgree, ClientCalls
  <2> QED BY <1>8, <2>2, <2>3 DEF CompleteWrite
<1>9. CASE FailJob(w)
  <2>1. held[w] \in Jobs
    BY <1>9 DEF FailJob, HoldsItsJob
  <2>2. CASE fail(w, held[w]) /\ Step(w, "failing")
    BY <1>0, <2>1, <2>2, StepHolds, StatementsAgree, ClientCalls
  <2>3. CASE UNCHANGED storeVars /\ Leave(w, "raised")
    BY <1>0, <2>3, LeaveHolds, StatementsAgree
  <2> QED BY <1>9, <2>2, <2>3 DEF FailJob
<1>10. CASE FailWrite(w)
  <2>1. CASE Update(w) /\ Leave(w, "claim")
    BY <1>0, <2>1, LeaveHolds, UpdateAgrees, ClientCalls
  <2>2. CASE UpdateConflict(w) /\ Leave(w, "raised")
    BY <1>0, <2>2, LeaveHolds, StatementsAgree, ClientCalls
  <2> QED BY <1>10, <2>1, <2>2 DEF FailWrite
<1> QED
  BY <1>1, <1>2, <1>3, <1>4, <1>5, <1>6, <1>7, <1>8, <1>9, <1>10 DEF run_once

\* The reapers and operators do the same.
LEMMA OutsiderStep ==
  ASSUME TypeOK, HoldsItsJob, Agree, NEW o \in Outsiders,
         \/ Reap(o) \/ ReapOne(o) \/ OutsideWrite(o)
         \/ \E j \in Jobs : Request(o, j)
  PROVE  StepIsSound
<1> USE DEF StepIsSound, StoreStep
<1>1. o \in Clients /\ Outside
  BY DEF Reap, ReapOne, OutsideWrite, Request
<1>2. HoldsItsJob' /\ ledger' = ledger
  BY <1>1, OutsideHolds
<1>3. CASE Reap(o)
  BY <1>1, <1>2, <1>3, StatementsAgree, ClientCalls DEF Reap
<1>4. CASE ReapOne(o)
  <2>1. PICK j \in reaping[o] : ReapNext(o, j) \/ Abandon(o)
    BY <1>4 DEF ReapOne
  <2>2. j \in Jobs
    BY <1>1 DEF TypeOK
  <2> QED BY <1>1, <1>2, <2>1, <2>2, StatementsAgree, ClientCalls
<1>5. CASE OutsideWrite(o)
  BY <1>1, <1>2, <1>5, StatementsAgree, UpdateAgrees, ClientCalls DEF OutsideWrite
<1>6. CASE \E j \in Jobs : Request(o, j)
  <2>1. PICK j \in Jobs, s \in {PAUSED, PENDING, CANCELLED} :
          BeginTransition(o, j, s, 0) /\ UNCHANGED <<rowVars, reaping>>
    BY <1>6 DEF Request
  <2>2. StoreNext
    BY <1>1, <2>1, TransitionCalls
  <2>3. s # SUCCEEDED
    BY DEF PAUSED, PENDING, CANCELLED, SUCCEEDED
  <2>4. state' = state /\ call' = [call EXCEPT ![o] = Planned(j, s, 0)]
    BY <2>1 DEF BeginTransition, rowVars
  <2>5. Agree'
    BY <1>1, <1>2, <2>3, <2>4
    DEF Agree, PlansAreRecorded, SucceededHasResult, TypeOK, Planned
  <2> QED BY <1>2, <2>2, <2>5
<1> QED BY <1>3, <1>4, <1>5, <1>6

\* So does every step of the pool's world.
LEMMA StepKeeps ==
  ASSUME TypeOK, HoldsItsJob, Agree, [Next]_poolVars
  PROVE  HoldsItsJob' /\ Agree' /\ [StoreNext]_storeVars
<1> USE DEF StepIsSound, StoreStep
<1>1. CASE \E w \in Workers : run_once(w)
  BY <1>1, WorkerStep
<1>2. CASE \E w \in Workers : Kill(w)
  <2>1. PICK w \in Workers : Kill(w)
    BY <1>2
  <2>2. HoldsItsJob' /\ ledger' = ledger
    BY <2>1 DEF Kill, HoldsItsJob
  <2> QED BY <2>1, <2>2, StatementsAgree, ClientCalls DEF Kill
<1>3. CASE Spawn
  <2>1. HoldsItsJob' /\ ledger' = ledger /\ UNCHANGED storeVars
    BY <1>3 DEF Spawn, HoldsItsJob
  <2>2. Agree'
    BY <2>1 DEF Agree, PlansAreRecorded, SucceededHasResult, storeVars
  <2> QED BY <2>1, <2>2
<1>4. CASE \E j \in Jobs : Produce(j) \/ LeaseRunsOut(j)
  <2>1. PICK j \in Jobs : create(j) \/ Expire(j)
    BY <1>4 DEF Produce, LeaseRunsOut
  <2>2. HoldsItsJob' /\ ledger' = ledger
    BY <1>4, OutsideHolds DEF Produce, LeaseRunsOut
  <2>3. call' = call /\ \A i \in Jobs : state'[i] = SUCCEEDED => state[i] = SUCCEEDED
    BY <2>1 DEF create, Expire, TypeOK, PENDING, SUCCEEDED
  <2>4. Agree'
    BY <2>2, <2>3 DEF Agree, PlansAreRecorded, SucceededHasResult
  <2> QED BY <2>1, <2>2, <2>4, JobCalls
<1>5. CASE \E o \in Outsiders : \/ Reap(o) \/ ReapOne(o) \/ OutsideWrite(o)
                               \/ \E j \in Jobs : Request(o, j)
  BY <1>5, OutsiderStep
<1>6. CASE UNCHANGED poolVars
  <2>1. HoldsItsJob' /\ ledger' = ledger /\ UNCHANGED storeVars
    BY <1>6 DEF poolVars, HoldsItsJob
  <2>2. Agree'
    BY <2>1 DEF Agree, PlansAreRecorded, SucceededHasResult, storeVars
  <2> QED BY <2>1, <2>2
<1> QED BY <1>1, <1>2, <1>3, <1>4, <1>5, <1>6 DEF Next

\* The inductive invariant of the pool, with the step it takes of the store.
LEMMA PoolInductive ==
  Spec => [](HoldsItsJob /\ Agree /\ IInv) /\ StoreSpec
<1>1. Init => HoldsItsJob /\ Agree /\ IInv /\ StoreInit
  <2> SUFFICES ASSUME Init PROVE HoldsItsJob /\ Agree /\ IInv /\ StoreInit
    OBVIOUS
  <2>1. StoreInit /\ IInv
    BY InitIInv DEF Init
  <2>2. HoldsItsJob
    BY DEF Init, HoldsItsJob
  <2>3. Agree
    BY <2>1 DEF StoreInit, Agree, PlansAreRecorded, SucceededHasResult, Idle,
       ABSENT, SUCCEEDED
  <2> QED BY <2>1, <2>2, <2>3
<1>2. HoldsItsJob /\ Agree /\ IInv /\ [Next]_poolVars
        => HoldsItsJob' /\ Agree' /\ IInv' /\ [StoreNext]_storeVars
  <2>1. IInv => TypeOK
    BY DEF IInv
  <2> QED BY <2>1, StepKeeps, NextIInv
<1> QED BY <1>1, <1>2, PTL DEF Spec, StoreSpec

\* The pool with its reapers and operators implements the store (workers.py
\* touches the table through the calls of store.py only), so that retries,
\* leases and ended jobs are as the store promises.
THEOREM PoolImplementsStore == Spec => ImplementsStore
BY PoolInductive, PTL DEF ImplementsStore

\* A job is SUCCEEDED only with a result in the ledger, whoever handled it,
\* whoever completed it and whoever was killed in between (run_once()).
THEOREM SuccessIsRecorded == Spec => []SucceededHasResult
<1>1. Agree => SucceededHasResult
  BY DEF Agree
<1> QED BY <1>1, PoolInductive, PTL

\* The retries of a pool's jobs are bounded, and ended jobs stay as they ended.
THEOREM PoolRetries == Spec => []RetryBudget /\ TerminalIsFinal
BY PoolInductive, RetryBudgetHolds, TerminalFinal, PTL

-----------------------------------------------------------------------------
(* Who moves what.                                                          *)

\* A worker's step is about its own place, its own job and its own call: it
\* claims a job, starts its handler, commits a write, or touches no job.
WorkerMove(w) ==
  \/ \E j \in Jobs : /\ ClaimWon(w, j) /\ pc[w] = "claim" /\ pc'[w] = "check"
                     /\ held'[w] = j /\ runs' = runs
  \/ /\ pc[w] = "check" /\ pc'[w] = "handle" /\ held'[w] = held[w]
     /\ runs' = [runs EXCEPT ![held[w]] = @ + 1]
     /\ UNCHANGED storeVars
  \/ Update(w) /\ pc'[w] # "check" /\ runs' = runs
  \/ UNCHANGED <<state, fails, runs>> /\ pc'[w] # "check"

\* Each statement of run_once(), and a kill, is such a move.
LEMMA WorkerMoves ==
  ASSUME TypeOK, HoldsItsJob, NEW w \in Workers, run_once(w) \/ Kill(w)
  PROVE  /\ \A c \in Clients \ {w} : call'[c] = call[c]
         /\ \A v \in Workers \ {w} : pc'[v] = pc[v] /\ held'[v] = held[v]
         /\ UNCHANGED <<requests, reaps, pools>>
         /\ WorkerMove(w)
<1> USE DEF storeVars, rowVars
<1>0. w \in Clients
  OBVIOUS
<1>1. ASSUME NEW l, Goto(w, l)
      PROVE  pc'[w] = l /\ \A v \in Workers \ {w} : pc'[v] = pc[v]
  BY <1>1 DEF HoldsItsJob
<1>2. ASSUME NEW l, l # "check", Step(w, l) \/ Leave(w, l)
      PROVE  /\ pc'[w] = l /\ UNCHANGED <<runs, requests, reaps, pools>>
             /\ \A v \in Workers \ {w} : pc'[v] = pc[v] /\ held'[v] = held[v]
  BY <1>1, <1>2 DEF Step, Leave, HoldsItsJob, counters
<1>3. ASSUME NEW u, call' = [call EXCEPT ![w] = u]
      PROVE  \A c \in Clients \ {w} : call'[c] = call[c]
  BY <1>3 DEF TypeOK
<1>4. CASE ClaimSelect(w)
  BY <1>2, <1>3, <1>4 DEF ClaimSelect, SelectPage, WorkerMove
<1>5. CASE ClaimTry(w)
  <2>1. PICK j \in Jobs :
          \/ /\ ClaimWon(w, j)
             /\ Goto(w, "check")
             /\ held' = [held EXCEPT ![w] = j]
             /\ UNCHANGED <<ledger, runs, counters>>
          \/ ClaimLost(w, j) /\ Step(w, "claim")
    BY <1>5 DEF ClaimTry
  <2>2. CASE ClaimLost(w, j) /\ Step(w, "claim")
    BY <1>2, <1>3, <2>2 DEF ClaimLost, WorkerMove
  <2>3. CASE /\ ClaimWon(w, j)
             /\ Goto(w, "check")
             /\ held' = [held EXCEPT ![w] = j]
             /\ UNCHANGED <<ledger, runs, counters>>
    <3>1. pc[w] = "claim"
      BY <1>5 DEF ClaimTry
    <3>2. \A c \in Clients \ {w} : call'[c] = call[c]
      BY <1>3, <2>3 DEF ClaimWon
    <3>3. held'[w] = j /\ \A v \in Workers \ {w} : held'[v] = held[v]
      BY <2>3 DEF HoldsItsJob
    <3> QED BY <1>1, <2>3, <3>1, <3>2, <3>3 DEF WorkerMove, counters
  <2> QED BY <2>1, <2>2, <2>3
<1>6. CASE Drained(w) \/ Handle(w)
  BY <1>2, <1>6 DEF Drained, Handle, WorkerMove
<1>7. CASE CheckResult(w)
  <2>1. CASE Step(w, "finish") \/ Step(w, "fail")
    BY <1>2, <1>7, <2>1 DEF CheckResult, WorkerMove
  <2>2. CASE /\ Goto(w, "handle") /\ runs' = [runs EXCEPT ![held[w]] = @ + 1]
             /\ UNCHANGED <<held, pools, reaps, requests>>
    BY <1>1, <1>7, <2>2 DEF CheckResult, WorkerMove
  <2> QED BY <1>7, <2>1, <2>2 DEF CheckResult, StartHandler
<1>8. CASE RecordResult(w)
  BY <1>1, <1>8 DEF RecordResult, WorkerMove, counters
<1>9. CASE Complete(w)
  <2>1. \/ /\ call' = [call EXCEPT ![w] = Planned(held[w], SUCCEEDED, 0)] /\ UNCHANGED rowVars
           /\ Step(w, "completing") \/ Step(w, "finishing")
        \/ UNCHANGED storeVars /\ (Step(w, "fail") \/ Leave(w, "raised"))
    BY <1>9 DEF Complete, BeginTransition
  <2> QED BY <1>2, <1>3, <2>1 DEF WorkerMove
<1>10. CASE CompleteWrite(w)
  <2>1. \/ Update(w) /\ Leave(w, "claim")
        \/ UpdateConflict(w) /\ (Step(w, "fail") \/ Leave(w, "raised"))
    BY <1>10 DEF CompleteWrite
  <2> QED BY <1>2, <1>3, <2>1 DEF WorkerMove, Update, UpdateConflict
<1>11. CASE FailJob(w)
  <2>1. \/ /\ call' = [call EXCEPT ![w] = Planned(held[w], FailTarget(held[w]), 1)]
           /\ UNCHANGED rowVars /\ Step(w, "failing")
        \/ UNCHANGED storeVars /\ Leave(w, "raised")
    BY <1>11 DEF FailJob, fail, BeginFail
  <2> QED BY <1>2, <1>3, <2>1 DEF WorkerMove
<1>12. CASE FailWrite(w)
  BY <1>2, <1>3, <1>12 DEF FailWrite, WorkerMove, Update, UpdateConflict
<1>13. CASE Kill(w)
  <2>1. UNCHANGED <<state, fails, runs>> /\ \A c \in Clients \ {w} : call'[c] = call[c]
    BY <1>3, <1>13 DEF Kill, Abandon
  <2>2. \A v \in Workers \ {w} : held'[v] = held[v]
    BY <1>13 DEF Kill, HoldsItsJob
  <2>3. /\ pc'[w] = "killed" /\ \A v \in Workers \ {w} : pc'[v] = pc[v]
        /\ UNCHANGED <<requests, reaps, pools>>
    BY <1>1, <1>13 DEF Kill
  <2>4. WorkerMove(w)
    BY <2>1, <2>3 DEF WorkerMove
  <2> QED BY <2>1, <2>2, <2>3, <2>4
<1> QED BY <1>4, <1>5, <1>6, <1>7, <1>8, <1>9, <1>10, <1>11, <1>12, <1>13 DEF run_once

\* An outsider's step leaves the workers alone: it commits a write, plans the
\* failure of a job or nothing, or plans what a request asks for.
OutsiderMove(o) ==
  \/ Update(o) /\ requests' = requests
  \/ /\ UNCHANGED <<state, fails, requests>>
     /\ \/ call'[o] = call[o] \/ call'[o].op # "update"
        \/ call'[o].bump = 1 /\ call'[o].to \in {PENDING, DEAD_LETTER}
  \/ \E j \in Jobs, s \in {PAUSED, PENDING, CANCELLED} :
       /\ can_transition(state[j], s) /\ call'[o] = Planned(j, s, 0) /\ Free(o)
       /\ requests' = requests + 1 /\ UNCHANGED <<state, fails>>

\* Each statement of a reaper or an operator is such a move.
LEMMA OutsiderMoves ==
  ASSUME TypeOK, NEW o \in Outsiders,
         Reap(o) \/ ReapOne(o) \/ OutsideWrite(o) \/ \E j \in Jobs : Request(o, j)
  PROVE  /\ \A c \in Clients \ {o} : call'[c] = call[c]
         /\ UNCHANGED <<pc, held, runs>>
         /\ OutsiderMove(o)
<1> USE DEF storeVars, rowVars
<1>0. o \in Clients /\ UNCHANGED <<pc, held, runs>>
  BY DEF Reap, ReapOne, OutsideWrite, Request, Outside
<1>1. ASSUME NEW u, call' = [call EXCEPT ![o] = u]
      PROVE  call'[o] = u /\ \A c \in Clients \ {o} : call'[c] = call[c]
  BY <1>0, <1>1 DEF TypeOK
<1>2. CASE Reap(o)
  BY <1>0, <1>2 DEF Reap, ReapSelect, OutsiderMove
<1>3. CASE ReapOne(o)
  <2>1. PICK j \in reaping[o] : ReapNext(o, j) \/ Abandon(o)
    BY <1>3 DEF ReapOne
  <2>2. UNCHANGED <<state, fails, requests>>
    BY <1>3, <2>1 DEF ReapOne, ReapNext, Abandon, counters
  <2>3. PICK u : call' = [call EXCEPT ![o] = u] /\ (u = Idle \/ u = Planned(j, FailTarget(j), 1))
    BY <2>1 DEF ReapNext, BeginFail, Abandon
  <2>4. u.op # "update" \/ (u.bump = 1 /\ u.to \in {PENDING, DEAD_LETTER})
    BY <2>3 DEF Idle, Planned, FailTarget
  <2> QED BY <1>0, <1>1, <2>2, <2>3, <2>4 DEF OutsiderMove
<1>4. CASE OutsideWrite(o)
  <2>1. call' = [call EXCEPT ![o] = Idle] /\ Idle.op # "update" /\ requests' = requests
    BY <1>4 DEF OutsideWrite, Update, UpdateConflict, Idle, counters
  <2>2. Update(o) \/ UNCHANGED <<state, fails>>
    BY <1>4 DEF OutsideWrite, UpdateConflict
  <2> QED BY <1>0, <1>1, <2>1, <2>2 DEF OutsiderMove
<1>5. CASE \E j \in Jobs : Request(o, j)
  <2>1. PICK j \in Jobs, s \in {PAUSED, PENDING, CANCELLED} :
          BeginTransition(o, j, s, 0) /\ UNCHANGED <<state, fails>> /\ requests' = requests + 1
    BY <1>5 DEF Request
  <2> QED BY <1>0, <1>1, <2>1 DEF OutsiderMove, BeginTransition
<1> QED BY <1>2, <1>3, <1>4, <1>5

-----------------------------------------------------------------------------
(* What a delivery is charged to.                                           *)

\* Every write that is planned: failures are counted when they are committed,
\* pauses and resumes were counted when they were requested.
KnownPlan(c) ==
  call[c].op = "update" =>
    \/ call[c].bump = 1 /\ call[c].to \in {PENDING, DEAD_LETTER}
    \/ call[c].bump = 0 /\ call[c].to \in {SUCCEEDED, CANCELLED}
    \/ c \in Outsiders /\ call[c].bump = 0 /\ call[c].to = PAUSED
    \/ c \in Outsiders /\ call[c].bump = 0 /\ call[c].to = PENDING /\ call[c].seen = PAUSED

\* The workers that were handed job j and have not yet looked for its result,
\* and the operators that are about to write what they were asked for.
Fresh(j) == {w \in Workers : pc[w] = "check" /\ held[w] = j}
Asked(j) == {o \in Outsiders : call[o].op = "update" /\ call[o].job = j /\ call[o].bump = 0}

\* A queued job is worth a delivery, a paused one half of it: the resume that
\* it takes is still to be paid.
Worth(j) == IF state[j] \in {ABSENT, PENDING} THEN 2 ELSE IF state[j] = PAUSED THEN 1 ELSE 0

\* In halves: a start that happened, one that is due, what the row is still worth
\* and the writes that were asked for are covered by the first delivery, the
\* failures and the requests.
Charged(j) ==
  fails[j] < MaxAttempts[j] =>
    2 * runs[j] + 2 * Cardinality(Fresh(j)) + Worth(j) + Cardinality(Asked(j))
      <= 2 + 2 * fails[j] + requests

\* With it: failures collapse, so FAILED and RETRYING are never persisted, and
\* no plan is of an unknown kind.
Charges ==
  /\ runs \in [Jobs -> Nat] /\ requests \in Nat
  /\ \A j \in Jobs : state[j] \notin {FAILED, RETRYING}
  /\ \A c \in Clients : KnownPlan(c)
  /\ \A j \in Jobs : Charged(j)

\* The sets that are counted are finite, and counted by numbers.
LEMMA Counted ==
  ASSUME NEW j
  PROVE  /\ IsFiniteSet(Fresh(j)) /\ IsFiniteSet(Fresh(j)')
         /\ IsFiniteSet(Asked(j)) /\ IsFiniteSet(Asked(j)')
         /\ Cardinality(Fresh(j)) \in Nat /\ Cardinality(Fresh(j)') \in Nat
         /\ Cardinality(Asked(j)) \in Nat /\ Cardinality(Asked(j)') \in Nat
         /\ Fresh(j)' \subseteq Fresh(j) => Cardinality(Fresh(j)') <= Cardinality(Fresh(j))
         /\ Asked(j)' \subseteq Asked(j) => Cardinality(Asked(j)') <= Cardinality(Asked(j))
<1>1. IsFiniteSet(Workers) /\ IsFiniteSet(Outsiders)
  BY FS_Subset
<1>2. /\ Fresh(j) \subseteq Workers /\ Fresh(j)' \subseteq Workers
      /\ Asked(j) \subseteq Outsiders /\ Asked(j)' \subseteq Outsiders
  BY DEF Fresh, Asked
<1>3. /\ IsFiniteSet(Fresh(j)) /\ IsFiniteSet(Fresh(j)')
      /\ IsFiniteSet(Asked(j)) /\ IsFiniteSet(Asked(j)')
  BY <1>1, <1>2, FS_Subset
<1> QED BY <1>3, FS_Subset, FS_CardinalityType

\* The charges are numbers.
LEMMA ChargeTypes ==
  ASSUME TypeOK, Charges, NEW j \in Jobs
  PROVE  /\ runs[j] \in Nat /\ fails[j] \in Nat /\ requests \in Nat /\ MaxAttempts[j] \in Nat
         /\ Worth(j) \in 0..2
BY MaxAttemptsAssumption DEF TypeOK, Charges, Worth

\* Nothing is taken from the account of j.
LEMMA ChargeStays ==
  ASSUME TypeOK, Charges, NEW j \in Jobs,
         runs'[j] = runs[j], fails'[j] = fails[j], requests' = requests, Worth(j)' <= Worth(j),
         Worth(j)' \in Nat,
         Fresh(j)' \subseteq Fresh(j), Asked(j)' \subseteq Asked(j)
  PROVE  Charged(j)'
<1>1. Cardinality(Fresh(j)') <= Cardinality(Fresh(j)) /\ Cardinality(Asked(j)') <= Cardinality(Asked(j))
  BY Counted
<1>2. Charged(j)
  BY DEF Charges
<1> QED BY <1>1, <1>2, Counted, ChargeTypes DEF Charged

\* A planned write is known when it is planned.
LEMMA PlansStayKnown ==
  ASSUME Charges, NEW c \in Clients, call'[c] = call[c] \/ call'[c].op # "update"
  PROVE  KnownPlan(c)'
BY DEF Charges, KnownPlan

\* A write is committed: what it gives the job was paid for.
LEMMA UpdateIsCharged ==
  ASSUME TypeOK, Charges, NEW c \in Clients, Update(c), runs' = runs, requests' = requests,
         \A j \in Jobs : Fresh(j)' \subseteq Fresh(j),
         \A k \in Clients \ {c} : call'[k] = call[k]
  PROVE  /\ \A j \in Jobs : Charged(j)'
         /\ \A j \in Jobs : state'[j] \notin {FAILED, RETRYING}
         /\ \A k \in Clients : KnownPlan(k)'
<1> DEFINE u == call[c]
<1>1. u \in Updates /\ u.op = "update" /\ state[u.job] = u.seen
  BY CallShape DEF Update, Matches
<1>2. /\ state' = [state EXCEPT ![u.job] = u.to] /\ fails' = CountFailure(u)
      /\ call' = [call EXCEPT ![c] = Idle]
  BY DEF Update
<1>3. call'[c] = Idle /\ Idle.op # "update"
  BY <1>2 DEF TypeOK, Idle
<1>4. \A k \in Clients : KnownPlan(k)'
  BY <1>3, PlansStayKnown
<1>5. KnownPlan(c)
  BY DEF Charges
<1>6. u.to \in {PENDING, DEAD_LETTER, SUCCEEDED, CANCELLED, PAUSED}
  BY <1>1, <1>5 DEF KnownPlan
<1>7. ASSUME NEW j \in Jobs PROVE state'[j] \notin {FAILED, RETRYING}
  BY <1>2, <1>6 DEF Charges, TypeOK, PENDING, DEAD_LETTER, SUCCEEDED, CANCELLED, PAUSED, FAILED, RETRYING
<1>8. ASSUME NEW j \in Jobs PROVE Asked(j)' \subseteq Asked(j) \ {c}
  <2>1. \A o \in Outsiders : o \in Clients
    OBVIOUS
  <2> QED BY <1>3, <2>1 DEF Asked
<1>9. ASSUME NEW j \in Jobs PROVE Charged(j)'
  <2>1. CASE j # u.job
    <3>1. state'[j] = state[j] /\ fails'[j] = fails[j]
      BY <1>1, <1>2, <2>1 DEF TypeOK, CountFailure, Updates
    <3>2. Worth(j)' = Worth(j) /\ Worth(j) \in Nat
      BY <3>1 DEF Worth
    <3> QED BY <1>8, <3>1, <3>2, ChargeStays
  <2>2. CASE j = u.job
    <3>0. state'[j] = u.to
      BY <1>1, <1>2, <2>2 DEF TypeOK, Updates
    <3>1. Cardinality(Fresh(j)') <= Cardinality(Fresh(j)) /\ Cardinality(Asked(j)') <= Cardinality(Asked(j))
      BY <1>8, Counted
    <3>2. Charged(j)
      BY DEF Charges
    <3>3. Worth(j)' \in 0..2
      BY DEF Worth
    <3>4. CASE u.bump = 1
      <4>1. fails'[j] = IF fails[j] < MaxAttempts[j] THEN fails[j] + 1 ELSE fails[j]
        BY <1>1, <1>2, <2>2, <3>4 DEF CountFailure, TypeOK, Updates
      <4> QED BY <3>1, <3>2, <3>3, <4>1, Counted, ChargeTypes DEF Charged
    <3>5. CASE u.bump = 0
      <4>1. fails'[j] = fails[j]
        BY <1>1, <1>2, <2>2, <3>5, ChargeTypes DEF CountFailure, TypeOK, Updates
      <4>2. CASE u.to \in {SUCCEEDED, CANCELLED}
        <5>1. Worth(j)' = 0
          BY <3>0, <4>2 DEF Worth, SUCCEEDED, CANCELLED, PENDING, PAUSED, ABSENT
        <5> QED BY <3>1, <3>2, <4>1, <5>1, Counted, ChargeTypes DEF Charged
      <4>3. CASE c \in Outsiders /\ (u.to = PAUSED \/ (u.to = PENDING /\ u.seen = PAUSED))
        <5>1. c \in Asked(j)
          BY <1>1, <2>2, <3>5, <4>3 DEF Asked
        <5>2. Cardinality(Asked(j) \ {c}) = Cardinality(Asked(j)) - 1 /\ IsFiniteSet(Asked(j) \ {c})
          BY <5>1, Counted, FS_RemoveElement
        <5>3. Cardinality(Asked(j)') <= Cardinality(Asked(j)) - 1
          BY <1>8, <5>2, FS_Subset
        <5>4. Worth(j)' <= Worth(j) + 1
          BY <1>1, <2>2, <3>0, <4>3 DEF Worth, PENDING, PAUSED, ABSENT
        <5> QED BY <3>1, <3>2, <3>3, <4>1, <5>3, <5>4, Counted, ChargeTypes DEF Charged
      <4> QED BY <1>1, <1>5, <3>5, <4>2, <4>3 DEF KnownPlan
    <3> QED BY <1>1, <3>4, <3>5 DEF Updates
  <2> QED BY <2>1, <2>2
<1> QED BY <1>4, <1>7, <1>9

\* A worker plans to complete or to fail the job it holds.
LEMMA WorkerPlans ==
  ASSUME TypeOK, Charges, NEW w \in Workers, run_once(w) \/ Kill(w)
  PROVE  KnownPlan(w)'
<1>0. w \in Clients /\ Idle.op # "update"
  BY DEF Idle
<1>1. ASSUME NEW u, call' = [call EXCEPT ![w] = u] PROVE call'[w] = u
  BY <1>0, <1>1 DEF TypeOK
<1>2. ASSUME call' = [call EXCEPT ![w] = Idle] PROVE KnownPlan(w)'
  BY <1>0, <1>1, <1>2 DEF KnownPlan
<1>3. ASSUME call' = call PROVE KnownPlan(w)'
  BY <1>0, <1>3, PlansStayKnown
<1>4. CASE ClaimSelect(w)
  <2>1. PICK rows : call' = [call EXCEPT ![w] = [op |-> "claim", by |-> "age", rows |-> rows]]
    BY <1>4 DEF ClaimSelect, SelectPage
  <2>2. call'[w].op = "claim"
    BY <1>1, <2>1
  <2> QED BY <2>2 DEF KnownPlan
<1>5. ASSUME NEW j \in Jobs, ClaimWon(w, j) \/ ClaimLost(w, j) PROVE KnownPlan(w)'
  <2>1. CASE call' = [call EXCEPT ![w] = Idle]
    BY <1>2, <2>1
  <2>2. CASE ClaimLost(w, j) /\ call' = [call EXCEPT ![w] = [call[w] EXCEPT !.rows = call[w].rows \ {j}]]
    <3>1. call[w] \in Pages
      BY <1>0, <2>2, CallShape DEF ClaimLost
    <3>2. [call[w] EXCEPT !.rows = call[w].rows \ {j}].op = "claim"
      BY <3>1 DEF Pages
    <3>3. call'[w].op = "claim"
      BY <1>1, <2>2, <3>2
    <3> QED BY <3>3 DEF KnownPlan
  <2> QED BY <1>5, <2>1, <2>2 DEF ClaimWon, ClaimLost
<1>6. CASE Drained(w) \/ CheckResult(w) \/ Handle(w) \/ RecordResult(w)
  BY <1>3, <1>6 DEF Drained, CheckResult, Handle, RecordResult, storeVars
<1>7. ASSUME NEW j, NEW s, NEW b, call' = [call EXCEPT ![w] = Planned(j, s, b)],
             (b = 1 /\ s \in {PENDING, DEAD_LETTER}) \/ (b = 0 /\ s = SUCCEEDED)
      PROVE  KnownPlan(w)'
  <2>1. call'[w] = Planned(j, s, b)
    BY <1>1, <1>7
  <2>2. call'[w].to = s /\ call'[w].bump = b
    BY <2>1 DEF Planned
  <2> QED BY <1>7, <2>2 DEF KnownPlan
<1>8. CASE Complete(w)
  <2>1. call' = call \/ call' = [call EXCEPT ![w] = Planned(held[w], SUCCEEDED, 0)]
    BY <1>8 DEF Complete, BeginTransition, storeVars
  <2> QED BY <1>3, <1>7, <2>1
<1>9. CASE CompleteWrite(w) \/ FailWrite(w)
  BY <1>2, <1>9 DEF CompleteWrite, FailWrite, Update, UpdateConflict
<1>10. CASE FailJob(w)
  <2>1. call' = call \/ call' = [call EXCEPT ![w] = Planned(held[w], FailTarget(held[w]), 1)]
    BY <1>10 DEF FailJob, fail, BeginFail, storeVars
  <2>2. FailTarget(held[w]) \in {PENDING, DEAD_LETTER}
    BY DEF FailTarget
  <2> QED BY <1>3, <1>7, <2>1, <2>2
<1>11. CASE Kill(w)
  BY <1>2, <1>3, <1>11 DEF Kill, Abandon, storeVars
<1>12. CASE ClaimTry(w)
  BY <1>5, <1>12 DEF ClaimTry
<1> QED BY <1>4, <1>6, <1>8, <1>9, <1>10, <1>11, <1>12 DEF run_once

\* A worker's step keeps the accounts.
LEMMA WorkerIsCharged ==
  ASSUME TypeOK, HoldsItsJob, Charges, NEW w \in Workers, run_once(w) \/ Kill(w)
  PROVE  Charges'
<1>1. /\ \A c \in Clients \ {w} : call'[c] = call[c]
      /\ \A v \in Workers \ {w} : pc'[v] = pc[v] /\ held'[v] = held[v]
      /\ requests' = requests /\ WorkerMove(w)
  BY WorkerMoves
<1>2. /\ w \in Clients /\ w \notin Outsiders /\ \A o \in Outsiders : o \in Clients \ {w}
      /\ requests \in Nat /\ requests' \in Nat /\ runs \in [Jobs -> Nat]
  BY <1>1 DEF Charges
<1>3. \A c \in Clients : KnownPlan(c)'
  BY <1>1, PlansStayKnown, WorkerPlans
<1>4. ASSUME NEW j \in Jobs PROVE Asked(j)' = Asked(j)
  BY <1>1, <1>2 DEF Asked
<1>5. ASSUME NEW j \in Jobs, pc'[w] # "check" PROVE Fresh(j)' = Fresh(j) \ {w}
  BY <1>1, <1>5 DEF Fresh
<1>6. CASE Update(w) /\ pc'[w] # "check" /\ runs' = runs
  <2>1. \A j \in Jobs : Fresh(j)' \subseteq Fresh(j)
    BY <1>5, <1>6
  <2> QED BY <1>1, <1>2, <1>6, <2>1, UpdateIsCharged DEF Charges
<1>7. ASSUME state' = state PROVE \A j \in Jobs : /\ state'[j] \notin {FAILED, RETRYING}
                                                  /\ Worth(j)' = Worth(j) /\ Worth(j) \in Nat
  BY <1>7 DEF Charges, Worth
<1>8. CASE UNCHANGED <<state, fails, runs>> /\ pc'[w] # "check"
  <2>1. ASSUME NEW j \in Jobs PROVE Charged(j)'
    BY <1>1, <1>4, <1>5, <1>7, <1>8, ChargeStays
  <2> QED BY <1>2, <1>3, <1>7, <1>8, <2>1 DEF Charges
<1>9. CASE /\ pc[w] = "check" /\ pc'[w] = "handle" /\ runs' = [runs EXCEPT ![held[w]] = @ + 1]
           /\ UNCHANGED storeVars
  <2>1. held[w] \in Jobs /\ UNCHANGED <<state, fails>>
    BY <1>9 DEF HoldsItsJob, storeVars
  <2>2. runs' \in [Jobs -> Nat]
    BY <1>2, <1>9, <2>1
  <2>3. ASSUME NEW j \in Jobs PROVE Charged(j)'
    <3>1. CASE j # held[w]
      <4>1. runs'[j] = runs[j]
        BY <1>2, <1>9, <3>1
      <4> QED BY <1>1, <1>4, <1>5, <1>7, <1>9, <2>1, <4>1, ChargeStays
    <3>2. CASE j = held[w]
      <4>1. runs'[j] = runs[j] + 1
        BY <1>2, <1>9, <3>2
      <4>2. w \in Fresh(j) /\ Fresh(j)' = Fresh(j) \ {w}
        BY <1>5, <1>9, <3>2 DEF Fresh
      <4>3. Cardinality(Fresh(j)') = Cardinality(Fresh(j)) - 1
        BY <4>2, Counted, FS_RemoveElement
      <4>4. Cardinality(Asked(j)') = Cardinality(Asked(j)) /\ Worth(j)' = Worth(j) /\ Charged(j)
        BY <1>4, <1>7, <2>1 DEF Charges
      <4> QED BY <1>1, <2>1, <4>1, <4>3, <4>4, Counted, ChargeTypes DEF Charged
    <3> QED BY <3>1, <3>2
  <2> QED BY <1>2, <1>3, <1>7, <2>1, <2>2, <2>3 DEF Charges
<1>10. ASSUME NEW i \in Jobs, ClaimWon(w, i), pc[w] = "claim", pc'[w] = "check", held'[w] = i, runs' = runs
       PROVE  Charges'
  <2>1. state' = [state EXCEPT ![i] = RUNNING] /\ state[i] = PENDING /\ fails' = fails
    BY <1>10 DEF ClaimWon, Claimable
  <2>2. ASSUME NEW j \in Jobs PROVE Charged(j)'
    <3>1. CASE j # i
      <4>1. state'[j] = state[j]
        BY <2>1, <3>1 DEF TypeOK
      <4>2. Worth(j)' = Worth(j) /\ Worth(j) \in Nat
        BY <4>1 DEF Worth
      <4>3. Fresh(j)' \subseteq Fresh(j)
        BY <1>1, <1>10, <3>1 DEF Fresh
      <4> QED BY <1>1, <1>4, <1>10, <2>1, <4>2, <4>3, ChargeStays
    <3>2. CASE j = i
      <4>1. state'[j] = RUNNING
        BY <2>1, <3>2 DEF TypeOK
      <4>2. Worth(j)' = 0 /\ Worth(j) = 2
        BY <2>1, <3>2, <4>1 DEF Worth, RUNNING, PENDING, PAUSED, ABSENT
      <4>3. Fresh(j)' = Fresh(j) \cup {w} /\ w \notin Fresh(j)
        BY <1>1, <1>10, <3>2 DEF Fresh
      <4>4. Cardinality(Fresh(j)') = Cardinality(Fresh(j)) + 1
        BY <4>3, Counted, FS_AddElement
      <4>5. Cardinality(Asked(j)') = Cardinality(Asked(j)) /\ Charged(j)
        BY <1>4 DEF Charges
      <4> QED BY <1>1, <1>10, <2>1, <4>2, <4>4, <4>5, Counted, ChargeTypes DEF Charged
    <3> QED BY <3>1, <3>2
  <2>3. \A j \in Jobs : state'[j] \notin {FAILED, RETRYING}
    BY <2>1 DEF Charges, TypeOK, RUNNING, FAILED, RETRYING
  <2> QED BY <1>2, <1>3, <1>10, <2>2, <2>3 DEF Charges
<1> QED BY <1>1, <1>6, <1>8, <1>9, <1>10 DEF WorkerMove

\* So does an outsider's: a request is counted when it is made.
LEMMA OutsiderIsCharged ==
  ASSUME TypeOK, Charges, NEW o \in Outsiders,
         Reap(o) \/ ReapOne(o) \/ OutsideWrite(o) \/ \E j \in Jobs : Request(o, j)
  PROVE  Charges'
<1>1. /\ \A c \in Clients \ {o} : call'[c] = call[c]
      /\ UNCHANGED <<pc, held, runs>> /\ OutsiderMove(o)
  BY OutsiderMoves
<1>2. /\ o \in Clients /\ \A k \in Outsiders : k \in Clients
      /\ requests \in Nat /\ runs \in [Jobs -> Nat] /\ runs' \in [Jobs -> Nat]
  BY <1>1 DEF Charges
<1>3. ASSUME NEW j \in Jobs PROVE Fresh(j)' = Fresh(j)
  BY <1>1 DEF Fresh
<1>4. CASE Update(o) /\ requests' = requests
  BY <1>1, <1>2, <1>3, <1>4, UpdateIsCharged DEF Charges
<1>5. ASSUME state' = state PROVE \A j \in Jobs : /\ state'[j] \notin {FAILED, RETRYING}
                                                  /\ Worth(j)' = Worth(j) /\ Worth(j) \in Nat
  BY <1>5 DEF Charges, Worth
<1>6. CASE /\ UNCHANGED <<state, fails, requests>>
           /\ \/ call'[o] = call[o] \/ call'[o].op # "update"
              \/ call'[o].bump = 1 /\ call'[o].to \in {PENDING, DEAD_LETTER}
  <2>1. \A c \in Clients : KnownPlan(c)'
    BY <1>1, <1>6, PlansStayKnown DEF KnownPlan
  <2>2. ASSUME NEW j \in Jobs PROVE Asked(j)' \subseteq Asked(j)
    BY <1>1, <1>2, <1>6 DEF Asked
  <2>3. ASSUME NEW j \in Jobs PROVE Charged(j)'
    BY <1>1, <1>3, <1>5, <1>6, <2>2, ChargeStays
  <2> QED BY <1>2, <1>5, <1>6, <2>1, <2>3 DEF Charges
<1>7. ASSUME NEW i \in Jobs, NEW s \in {PAUSED, PENDING, CANCELLED},
             can_transition(state[i], s), call'[o] = Planned(i, s, 0), Free(o),
             requests' = requests + 1, UNCHANGED <<state, fails>>
      PROVE  Charges'
  <2>1. /\ call'[o].op = "update" /\ call'[o].job = i /\ call'[o].to = s
        /\ call'[o].bump = 0 /\ call'[o].seen = state[i]
    BY <1>7 DEF Planned
  <2>2. s = PENDING => state[i] = PAUSED
    BY <1>7 DEF Charges, can_transition, Transitions, PENDING, PAUSED, RETRYING, FAILED, RUNNING,
       SUCCEEDED, CANCELLED, DEAD_LETTER
  <2>3. KnownPlan(o)'
    BY <1>7, <2>1, <2>2 DEF KnownPlan
  <2>4. \A c \in Clients : KnownPlan(c)'
    BY <1>1, <2>3, PlansStayKnown
  <2>5. ASSUME NEW j \in Jobs PROVE Charged(j)'
    <3>1. Asked(j)' \subseteq Asked(j) \cup {o}
      BY <1>1, <1>2 DEF Asked
    <3>2. IsFiniteSet(Asked(j) \cup {o}) /\ Cardinality(Asked(j) \cup {o}) <= Cardinality(Asked(j)) + 1
      <4>1. Cardinality(Asked(j)) \in Nat /\ IsFiniteSet(Asked(j))
        BY Counted
      <4>2. /\ IsFiniteSet(Asked(j) \cup {o})
            /\ Cardinality(Asked(j) \cup {o}) \in {Cardinality(Asked(j)), Cardinality(Asked(j)) + 1}
        BY <4>1, FS_AddElement
      <4> QED BY <4>1, <4>2
    <3>3. Cardinality(Asked(j)') <= Cardinality(Asked(j) \cup {o})
      BY <3>1, <3>2, FS_Subset
    <3>4. Cardinality(Asked(j) \cup {o}) \in Nat
      BY <3>2, FS_CardinalityType
    <3>5. Cardinality(Fresh(j)') = Cardinality(Fresh(j)) /\ Charged(j) /\ Worth(j)' = Worth(j)
      BY <1>3, <1>5, <1>7 DEF Charges
    <3>6. runs'[j] = runs[j] /\ fails'[j] = fails[j]
      BY <1>1, <1>7
    <3> QED BY <1>7, <3>2, <3>3, <3>4, <3>5, <3>6, Counted, ChargeTypes DEF Charged
  <2> QED BY <1>2, <1>5, <1>7, <2>4, <2>5 DEF Charges
<1> QED BY <1>1, <1>4, <1>6, <1>7 DEF OutsiderMove

\* Jobs are created with one delivery on their account; nothing else moves one.
LEMMA WorldIsCharged ==
  ASSUME TypeOK, Charges,
         Spawn \/ (\E j \in Jobs : Produce(j) \/ LeaseRunsOut(j)) \/ UNCHANGED poolVars
  PROVE  Charges'
<1>1. UNCHANGED <<call, fails, runs, requests>>
  BY DEF Spawn, Produce, LeaseRunsOut, create, Expire, Outside, counters, poolVars, storeVars
<1>2. \A c \in Clients : KnownPlan(c)'
  BY <1>1, PlansStayKnown
<1>3. ASSUME NEW j \in Jobs PROVE Fresh(j)' \subseteq Fresh(j) /\ Asked(j)' \subseteq Asked(j)
  <2>1. UNCHANGED <<pc, held>> \/ pc' = [w \in Workers |-> "claim"]
    BY DEF Spawn, Produce, LeaseRunsOut, Outside, poolVars
  <2> QED BY <1>1, <2>1 DEF Fresh, Asked
<1>4. ASSUME NEW j \in Jobs PROVE state'[j] = state[j] \/ (state[j] = ABSENT /\ state'[j] = PENDING)
  BY DEF Spawn, Produce, LeaseRunsOut, create, Expire, poolVars, storeVars, TypeOK
<1>5. ASSUME NEW j \in Jobs
      PROVE  /\ Worth(j)' = Worth(j) /\ Worth(j) \in Nat
             /\ state'[j] \notin {FAILED, RETRYING}
  BY <1>4 DEF Worth, Charges, ABSENT, PENDING, PAUSED, FAILED, RETRYING
<1>6. ASSUME NEW j \in Jobs PROVE Charged(j)'
  BY <1>1, <1>3, <1>5, ChargeStays
<1> QED BY <1>1, <1>2, <1>5, <1>6 DEF Charges

\* Every account starts with one delivery.
LEMMA InitialCharges == Init => Charges
<1> SUFFICES ASSUME Init PROVE Charges
  OBVIOUS
<1>1. /\ runs = [j \in Jobs |-> 0] /\ requests = 0 /\ state = [j \in Jobs |-> ABSENT]
      /\ fails = [j \in Jobs |-> 0] /\ call = [c \in Clients |-> Idle]
      /\ pc = [w \in Workers |-> "exited"]
  BY DEF Init, StoreInit
<1>2. \A c \in Clients : KnownPlan(c)
  BY <1>1 DEF KnownPlan, Idle
<1>3. ASSUME NEW j \in Jobs PROVE Charged(j)
  <2>1. Fresh(j) = {}
    BY <1>1 DEF Fresh
  <2>2. Asked(j) = {}
    BY <1>1 DEF Asked, Idle
  <2>3. Worth(j) = 2 /\ runs[j] = 0 /\ fails[j] = 0
    BY <1>1 DEF Worth
  <2>4. Cardinality({}) = 0
    BY FS_EmptySet
  <2> QED BY <1>1, <2>1, <2>2, <2>3, <2>4 DEF Charged
<1> QED BY <1>1, <1>2, <1>3 DEF Charges, ABSENT, FAILED, RETRYING

\* The accounts are kept by every step.
LEMMA ChargesNext == IInv /\ HoldsItsJob /\ Charges /\ [Next]_poolVars => Charges'
BY WorkerIsCharged, OutsiderIsCharged, WorldIsCharged DEF Next, IInv

\* A handler is started again only for a job that failed since, or was paused
\* and resumed by two requests, whatever the workers, the reapers and the
\* operators read before they wrote: claim() alone never delivers a job twice.
\* A paused job is half a delivery ahead, and a request is on the account from
\* the moment its row is read.
THEOREM DeliveriesAreCharged == Spec => []RunsAreCharged
<1>1. IInv /\ Charges => RunsAreCharged
  <2> SUFFICES ASSUME IInv, Charges, NEW j \in Jobs, fails[j] < MaxAttempts[j]
               PROVE  2 * runs[j] <= 2 + 2 * fails[j] + requests
    BY DEF RunsAreCharged
  <2>1. TypeOK /\ Charged(j)
    BY DEF IInv, Charges
  <2> QED BY <2>1, Counted, ChargeTypes DEF Charged
<1> QED BY <1>1, InitialCharges, ChargesNext, PoolInductive, PTL DEF Spec

-----------------------------------------------------------------------------
(* What is run twice.                                                       *)

\* The runs of a job's handler under way, its result and what was recorded
\* over it are each paid by the first run or by an overlap. While there is no
\* result, nothing was recorded over it: so a start that overlaps nothing is
\* the only run.
Accounted(j) ==
  /\ j \notin ledger => effects[j].repeats = 0
  /\ Cardinality(Handling(j)) + (IF j \in ledger THEN 1 ELSE 0) + effects[j].repeats
       <= 1 + effects[j].overlaps

EffectsAccounted ==
  /\ effects \in [Jobs -> [overlaps : Nat, repeats : Nat]]
  /\ \A j \in Jobs : Accounted(j)

\* There are finitely many workers.
LEMMA FiniteHandling ==
  ASSUME NEW j
  PROVE  IsFiniteSet(Handling(j)) /\ Cardinality(Handling(j)) \in Nat
<1>1. IsFiniteSet(Workers)
  BY FS_Subset
<1>2. Handling(j) \subseteq Workers
  BY DEF Handling
<1> QED BY <1>1, <1>2, FS_Subset, FS_CardinalityType

\* A step that starts no handler and records nothing leaves no job with more
\* runs under way.
LEMMA HandlingShrinks ==
  ASSUME EffectsAccounted, UNCHANGED <<ledger, effects>>,
         \A v \in Workers : pc'[v] \in {"handle", "record"} =>
           pc[v] \in {"handle", "record"} /\ held'[v] = held[v]
  PROVE  EffectsAccounted'
<1> SUFFICES ASSUME NEW j \in Jobs PROVE Accounted(j)'
  BY DEF EffectsAccounted
<1>1. Handling(j)' \subseteq Handling(j)
  BY DEF Handling
<1>2. /\ Cardinality(Handling(j)) \in Nat /\ Cardinality(Handling(j)') \in Nat
      /\ Cardinality(Handling(j)') <= Cardinality(Handling(j))
  BY <1>1, FiniteHandling, FS_Subset, FS_CardinalityType
<1>3. Accounted(j) /\ effects[j].repeats \in Nat /\ effects[j].overlaps \in Nat
  BY DEF EffectsAccounted
<1> QED BY <1>2, <1>3 DEF Accounted

\* A start beside another run is an overlap, any other is the first.
LEMMA StartIsAccounted ==
  ASSUME HoldsItsJob, EffectsAccounted, NEW w \in Workers, pc[w] = "check",
         held[w] \notin ledger, StartHandler(w, held[w])
  PROVE  EffectsAccounted'
<1>0. PICK i \in Jobs : i = held[w]
  BY DEF HoldsItsJob
<1>1. i \in Jobs /\ ledger' = ledger /\ held' = held /\ pc' = [pc EXCEPT ![w] = "handle"]
  BY <1>0 DEF HoldsItsJob, StartHandler
<1>2. \A j \in Jobs : effects[j] \in [overlaps : Nat, repeats : Nat]
  BY DEF EffectsAccounted
<1>3. effects' \in [Jobs -> [overlaps : Nat, repeats : Nat]]
  BY <1>0, <1>1, <1>2 DEF StartHandler, EffectsAccounted
<1>4. ASSUME NEW j \in Jobs, j # i PROVE Accounted(j)'
  <2>1. Handling(j)' = Handling(j)
    BY <1>0, <1>1, <1>4 DEF Handling, HoldsItsJob
  <2>2. effects'[j] = effects[j]
    BY <1>0, <1>1, <1>4 DEF StartHandler, EffectsAccounted
  <2> QED BY <1>0, <1>1, <2>1, <2>2 DEF Accounted, EffectsAccounted
<1>5. Accounted(i)'
  <2>1. w \notin Handling(i) /\ Handling(i)' = Handling(i) \cup {w}
    BY <1>0, <1>1 DEF Handling, HoldsItsJob
  <2>2. Cardinality(Handling(i)') = Cardinality(Handling(i)) + 1 /\ Cardinality(Handling(i)) \in Nat
    BY <2>1, FiniteHandling, FS_AddElement
  <2>3. Accounted(i) /\ effects[i].repeats = 0 /\ effects[i].overlaps \in Nat /\ i \notin ledger'
    BY <1>0, <1>1, <1>2 DEF EffectsAccounted, Accounted
  <2>4. effects'[i].repeats = 0
    BY <1>0, <1>1, <1>2, <2>3 DEF StartHandler, EffectsAccounted
  <2>5. CASE Handling(i) = {}
    <3>1. Cardinality(Handling(i)) = 0 /\ effects' = effects
      BY <1>0, <2>5, FS_EmptySet DEF StartHandler
    <3> QED BY <2>2, <2>3, <2>4, <3>1 DEF Accounted
  <2>6. CASE Handling(i) # {}
    <3>1. effects'[i].overlaps = effects[i].overlaps + 1
      BY <1>0, <1>1, <1>2, <2>6 DEF StartHandler, EffectsAccounted
    <3> QED BY <2>2, <2>3, <2>4, <3>1 DEF Accounted
  <2> QED BY <2>5, <2>6
<1> QED BY <1>0, <1>3, <1>4, <1>5 DEF EffectsAccounted

\* A run that records its result is one under way no more.
LEMMA RecordIsAccounted ==
  ASSUME HoldsItsJob, EffectsAccounted, NEW w \in Workers, RecordResult(w)
  PROVE  EffectsAccounted'
<1>0. PICK i \in Jobs : i = held[w]
  BY DEF HoldsItsJob, RecordResult
<1>1. /\ i \in Jobs /\ pc[w] = "record" /\ ledger' = ledger \cup {i} /\ held' = held
      /\ pc' = [pc EXCEPT ![w] = "complete"]
      /\ effects' = IF i \in ledger THEN [effects EXCEPT ![i].repeats = @ + 1] ELSE effects
  BY <1>0 DEF HoldsItsJob, RecordResult, has_result
<1>2. \A j \in Jobs : effects[j] \in [overlaps : Nat, repeats : Nat]
  BY DEF EffectsAccounted
<1>3. effects' \in [Jobs -> [overlaps : Nat, repeats : Nat]]
  BY <1>0, <1>1, <1>2 DEF EffectsAccounted
<1>4. ASSUME NEW j \in Jobs, j # i PROVE Accounted(j)'
  <2>1. Handling(j)' = Handling(j)
    BY <1>0, <1>1, <1>4 DEF Handling, HoldsItsJob
  <2>2. effects'[j] = effects[j] /\ (j \in ledger' <=> j \in ledger)
    BY <1>0, <1>1, <1>4 DEF EffectsAccounted
  <2> QED BY <2>1, <2>2 DEF Accounted, EffectsAccounted
<1>5. Accounted(i)'
  <2>1. w \in Handling(i) /\ Handling(i)' = Handling(i) \ {w}
    BY <1>0, <1>1 DEF Handling, HoldsItsJob
  <2>2. Cardinality(Handling(i)') = Cardinality(Handling(i)) - 1 /\ Cardinality(Handling(i)) \in Nat
    BY <2>1, FiniteHandling, FS_RemoveElement
  <2>3. /\ Accounted(i) /\ effects[i].repeats \in Nat /\ effects[i].overlaps \in Nat
        /\ i \in ledger'
    BY <1>0, <1>1, <1>2 DEF EffectsAccounted
  <2>4. CASE i \in ledger
    <3>1. effects'[i].repeats = effects[i].repeats + 1 /\ effects'[i].overlaps = effects[i].overlaps
      BY <1>0, <1>1, <1>2, <2>4 DEF EffectsAccounted
    <3> QED BY <2>2, <2>3, <2>4, <3>1 DEF Accounted
  <2>5. CASE i \notin ledger
    <3>1. effects' = effects
      BY <1>0, <1>1, <2>5
    <3> QED BY <2>2, <2>3, <2>5, <3>1 DEF Accounted
  <2> QED BY <2>4, <2>5
<1> QED BY <1>0, <1>3, <1>4, <1>5 DEF EffectsAccounted

\* Every other step of a worker goes on with a run or ends it.
LEMMA WorkerIsAccounted ==
  ASSUME HoldsItsJob, EffectsAccounted, NEW w \in Workers, run_once(w) \/ Kill(w)
  PROVE  EffectsAccounted'
<1>1. ASSUME NEW l, l \notin {"handle", "record"}, Step(w, l) \/ Leave(w, l) PROVE EffectsAccounted'
  <2>1. UNCHANGED <<ledger, effects>> /\ pc' = [pc EXCEPT ![w] = l]
    BY <1>1 DEF Step, Leave, counters
  <2>2. \A v \in Workers \ {w} : held'[v] = held[v]
    BY <1>1 DEF Step, Leave, HoldsItsJob
  <2> QED BY <1>1, <2>1, <2>2, HandlingShrinks DEF HoldsItsJob
<1>2. CASE ClaimTry(w)
  <2>1. PICK j \in Jobs :
          \/ /\ Goto(w, "check")
             /\ held' = [held EXCEPT ![w] = j]
             /\ UNCHANGED <<ledger, runs, counters>>
          \/ Step(w, "claim")
    BY <1>2 DEF ClaimTry
  <2>2. CASE Step(w, "claim")
    BY <1>1, <2>2
  <2>3. CASE /\ Goto(w, "check")
             /\ held' = [held EXCEPT ![w] = j]
             /\ UNCHANGED <<ledger, runs, counters>>
    BY <2>3, HandlingShrinks DEF HoldsItsJob, counters
  <2> QED BY <2>1, <2>2, <2>3
<1>3. CASE CheckResult(w)
  BY <1>1, <1>3, StartIsAccounted DEF CheckResult, has_result
<1>4. CASE Handle(w)
  <2>1. CASE Step(w, "record")
    BY <1>4, <2>1, HandlingShrinks DEF Handle, Step, counters, HoldsItsJob
  <2> QED BY <1>1, <1>4, <2>1 DEF Handle
<1>5. CASE RecordResult(w)
  BY <1>5, RecordIsAccounted
<1>6. CASE ClaimSelect(w) \/ Drained(w)
  BY <1>1, <1>6 DEF ClaimSelect, Drained
<1>7. CASE Complete(w) \/ CompleteWrite(w)
  BY <1>1, <1>7 DEF Complete, CompleteWrite
<1>8. CASE FailJob(w) \/ FailWrite(w)
  BY <1>1, <1>8 DEF FailJob, FailWrite
<1>9. CASE Kill(w)
  BY <1>9, HandlingShrinks DEF Kill, HoldsItsJob
<1> QED BY <1>2, <1>3, <1>4, <1>5, <1>6, <1>7, <1>8, <1>9 DEF run_once

\* The account holds from the start and is kept by every step.
LEMMA EffectsInductive ==
  /\ Init => EffectsAccounted
  /\ HoldsItsJob /\ EffectsAccounted /\ [Next]_poolVars => EffectsAccounted'
<1>1. ASSUME Init PROVE EffectsAccounted
  <2>1. /\ effects = [j \in Jobs |-> [overlaps |-> 0, repeats |-> 0]] /\ ledger = {}
        /\ pc = [w \in Workers |-> "exited"]
    BY <1>1 DEF Init
  <2>2. effects \in [Jobs -> [overlaps : Nat, repeats : Nat]]
    BY <2>1
  <2>3. ASSUME NEW j \in Jobs PROVE Accounted(j)
    <3>1. Handling(j) = {} /\ effects[j].repeats = 0 /\ effects[j].overlaps = 0 /\ j \notin ledger
      BY <2>1 DEF Handling
    <3> QED BY <3>1, FS_EmptySet DEF Accounted
  <2> QED BY <2>2, <2>3 DEF EffectsAccounted
<1>2. ASSUME HoldsItsJob, EffectsAccounted, [Next]_poolVars PROVE EffectsAccounted'
  <2>1. CASE \E w \in Workers : run_once(w) \/ Kill(w)
    BY <1>2, <2>1, WorkerIsAccounted
  <2>2. CASE Spawn
    BY <1>2, <2>2, HandlingShrinks DEF Spawn
  <2>3. CASE \/ \E j \in Jobs : Produce(j) \/ LeaseRunsOut(j)
             \/ \E o \in Outsiders : \/ Reap(o) \/ ReapOne(o) \/ OutsideWrite(o)
                                     \/ \E j \in Jobs : Request(o, j)
             \/ UNCHANGED poolVars
    <3>1. UNCHANGED <<pc, held, ledger, effects>>
      BY <2>3 DEF Produce, LeaseRunsOut, Reap, ReapOne, OutsideWrite, Request, Outside, counters, poolVars
    <3> QED BY <1>2, <3>1, HandlingShrinks
  <2> QED BY <1>2, <2>1, <2>2, <2>3 DEF Next
<1> QED BY <1>1, <1>2

\* A result is recorded over another one only as often as two runs of the
\* handler overlapped, for any number of workers, kills, reaps and requests: a
\* job that is redelivered after its result was recorded is finished, not run
\* (run_once()).
THEOREM RecordedIsNotRunAgain == Spec => []RepeatsAreOverlaps
<1>1. EffectsAccounted => RepeatsAreOverlaps
  <2> SUFFICES ASSUME EffectsAccounted, NEW j \in Jobs
               PROVE  effects[j].repeats <= effects[j].overlaps
    BY DEF RepeatsAreOverlaps
  <2>1. effects[j].repeats \in Nat /\ effects[j].overlaps \in Nat /\ Accounted(j)
    BY DEF EffectsAccounted
  <2> QED BY <2>1, FiniteHandling DEF Accounted
<1> QED BY <1>1, EffectsInductive, PoolInductive, PTL DEF Spec

-----------------------------------------------------------------------------
(* A pool that nobody disturbs.                                             *)

\* Where the worker has read the row and is about to write it.
Writing == {"completing", "finishing", "failing"}

\* No reaper and no operator has read a row.
NobodyElse == \A o \in Outsiders : call[o].op # "update" /\ reaping[o] = {}

\* The job a worker holds is RUNNING and its own, and the row is as the worker
\* read it: so no exception of the store ends a worker.
Own(w) ==
  /\ pc[w] # "raised"
  /\ pc[w] \in Busy => /\ state[held[w]] = RUNNING
                       /\ \A v \in Workers \ {w} : pc[v] \in Busy => held[v] # held[w]
  /\ call[w].op = "update" => /\ pc[w] \in Writing /\ call[w].job = held[w]
                              /\ call[w].seen = RUNNING

Orphans    == {j \in Jobs : state[j] = RUNNING /\ \A w \in Workers : pc[w] \in Busy => held[w] # j}
Unfinished == {j \in Jobs : state[j] \notin TERMINAL \cup {ABSENT}}
Alive      == {w \in Workers : pc[w] \notin Ended}

\* While no outsider has acted, jobs without a worker are those of the killed.
Alone ==
  /\ NobodyElse
  /\ \A w \in Workers : Own(w)
  /\ \A j \in Jobs : state[j] # PAUSED
  /\ Cardinality(Orphans) <= kills

\* In the last pool, once a worker found the queue empty, every unfinished job
\* has a worker that is alive or one that was killed.
EachHasOne ==
  pools = PoolBudget /\ (\E w \in Workers : pc[w] = "exited")
    => Cardinality(Unfinished) <= kills + Cardinality(Alive)

\* EachKillStrandsOne is about the end of the last pool; this is what it rests
\* on from the beginning.
PoolAlone ==
  /\ kills \in Nat /\ reaps \in Nat /\ requests \in Nat
  /\ reaps + requests = 0 => Alone /\ EachHasOne

USE DEF Writing

\* The sets that are compared are finite, and counted by numbers.
LEMMA Numbers ==
  /\ IsFiniteSet(Orphans) /\ IsFiniteSet(Orphans') /\ IsFiniteSet(Unfinished) /\ IsFiniteSet(Unfinished')
  /\ IsFiniteSet(Alive) /\ IsFiniteSet(Alive')
  /\ Cardinality(Orphans) \in Nat /\ Cardinality(Orphans') \in Nat
  /\ Cardinality(Unfinished) \in Nat /\ Cardinality(Unfinished') \in Nat
  /\ Cardinality(Alive) \in Nat /\ Cardinality(Alive') \in Nat
  /\ Orphans' \subseteq Orphans => Cardinality(Orphans') <= Cardinality(Orphans)
  /\ Unfinished' \subseteq Unfinished => Cardinality(Unfinished') <= Cardinality(Unfinished)
<1>1. IsFiniteSet(Workers) /\ IsFiniteSet(Jobs)
  BY JobsAssumption, FS_Subset
<1>2. /\ Orphans \subseteq Jobs /\ Orphans' \subseteq Jobs /\ Alive \subseteq Workers
      /\ Alive' \subseteq Workers /\ Unfinished \subseteq Jobs /\ Unfinished' \subseteq Jobs
  BY DEF Orphans, Unfinished, Alive
<1>3. /\ IsFiniteSet(Orphans) /\ IsFiniteSet(Orphans') /\ IsFiniteSet(Unfinished) /\ IsFiniteSet(Unfinished')
      /\ IsFiniteSet(Alive) /\ IsFiniteSet(Alive')
  BY <1>1, <1>2, FS_Subset
<1> QED BY <1>3, FS_Subset, FS_CardinalityType

\* What an undisturbed worker does.
LoneMove(w) ==
  \/ \E j \in Jobs : /\ ClaimWon(w, j) /\ pc[w] = "claim" /\ pc'[w] = "check"
                     /\ held'[w] = j /\ kills' = kills
  \/ Update(w) /\ pc[w] \in Writing /\ pc'[w] = "claim" /\ kills' = kills
  \/ /\ pc[w] = "claim" /\ pc'[w] = "exited" /\ Pending(Jobs) = {} /\ held'[w] = held[w]
     /\ UNCHANGED <<state, call, kills>>
  \/ /\ pc[w] \notin Ended /\ pc'[w] = "killed" /\ kills' = kills + 1
     /\ state' = state /\ call'[w].op # "update"
  \/ /\ pc[w] \in Busy /\ pc'[w] \in Busy /\ held'[w] = held[w] /\ UNCHANGED <<state, kills>>
     /\ call'[w].op = "update" => /\ pc'[w] \in Writing /\ call'[w].job = held[w]
                                  /\ call'[w].seen = RUNNING
  \/ /\ pc[w] = "claim" /\ pc'[w] = "claim" /\ held'[w] = held[w] /\ UNCHANGED <<state, kills>>
     /\ call'[w].op # "update"

\* Each statement of a worker that nobody disturbs is such a move.
LEMMA LoneMoves ==
  ASSUME TypeOK, HoldsItsJob, NEW w \in Workers, Own(w), run_once(w) \/ Kill(w)
  PROVE  LoneMove(w)
<1> USE DEF storeVars, rowVars
<1>0. w \in Clients /\ Idle.op # "update"
  BY DEF Idle
<1>1. ASSUME NEW l, Goto(w, l) PROVE pc'[w] = l
  BY <1>1 DEF HoldsItsJob
<1>2. ASSUME NEW l, Step(w, l) PROVE pc'[w] = l /\ held'[w] = held[w] /\ kills' = kills
  BY <1>1, <1>2 DEF Step, counters
<1>3. ASSUME NEW u, call' = [call EXCEPT ![w] = u] PROVE call'[w] = u
  BY <1>0, <1>3 DEF TypeOK
<1>4. CASE ClaimSelect(w)
  <2>1. PICK rows : call' = [call EXCEPT ![w] = [op |-> "claim", by |-> "age", rows |-> rows]]
    BY <1>4 DEF ClaimSelect, SelectPage
  <2>2. call'[w].op = "claim"
    BY <1>3, <2>1
  <2> QED BY <1>2, <1>4, <2>2 DEF ClaimSelect, SelectPage, LoneMove
<1>5. CASE ClaimTry(w)
  <2>1. PICK j \in Jobs :
          \/ /\ ClaimWon(w, j)
             /\ Goto(w, "check")
             /\ held' = [held EXCEPT ![w] = j]
             /\ UNCHANGED <<ledger, runs, counters>>
          \/ ClaimLost(w, j) /\ Step(w, "claim")
    BY <1>5 DEF ClaimTry
  <2>2. CASE ClaimLost(w, j) /\ Step(w, "claim")
    <3>1. call[w] \in Pages
      BY <1>0, <2>2, CallShape DEF ClaimLost
    <3>2. [call[w] EXCEPT !.rows = call[w].rows \ {j}].op = "claim"
      BY <3>1 DEF Pages
    <3>3. call'[w].op # "update"
      BY <1>0, <1>3, <2>2, <3>2 DEF ClaimLost
    <3> QED BY <1>2, <1>5, <2>2, <3>3 DEF ClaimTry, ClaimLost, LoneMove
  <2>3. CASE /\ ClaimWon(w, j)
             /\ Goto(w, "check")
             /\ held' = [held EXCEPT ![w] = j]
             /\ UNCHANGED <<ledger, runs, counters>>
    <3>1. held'[w] = j
      BY <2>3 DEF HoldsItsJob
    <3> QED BY <1>1, <1>5, <2>3, <3>1 DEF ClaimTry, ClaimWon, LoneMove, counters
  <2> QED BY <2>1, <2>2, <2>3
<1>6. CASE Drained(w)
  BY <1>2, <1>6 DEF Drained, LoneMove
<1>7. CASE CheckResult(w) \/ Handle(w) \/ RecordResult(w)
  <2>1. /\ pc[w] \in Busy \ Writing /\ pc'[w] \in Busy /\ held'[w] = held[w]
        /\ kills' = kills /\ UNCHANGED storeVars
    BY <1>1, <1>2, <1>7 DEF CheckResult, StartHandler, Handle, RecordResult, counters
  <2>2. call'[w].op # "update"
    BY <2>1 DEF Own
  <2> QED BY <2>1, <2>2 DEF LoneMove
<1>8. CASE Complete(w)
  <2>1. state[held[w]] = RUNNING /\ pc[w] \in Busy
    BY <1>8 DEF Complete, Own
  <2>2. /\ call' = [call EXCEPT ![w] = Planned(held[w], SUCCEEDED, 0)] /\ UNCHANGED <<rowVars, reaping>>
        /\ Step(w, "completing") \/ Step(w, "finishing")
    BY <1>8, <2>1 DEF Complete, BeginTransition, can_transition, Transitions
  <2>3. call'[w].job = held[w] /\ call'[w].seen = RUNNING
    <3>1. call'[w] = Planned(held[w], SUCCEEDED, 0)
      BY <1>3, <2>2
    <3>2. Planned(held[w], SUCCEEDED, 0).job = held[w]
          /\ Planned(held[w], SUCCEEDED, 0).seen = state[held[w]]
      BY DEF Planned
    <3> QED BY <2>1, <3>1, <3>2
  <2> QED BY <1>2, <2>1, <2>2, <2>3 DEF LoneMove
<1>9. CASE CompleteWrite(w) \/ FailWrite(w)
  <2>1. pc[w] \in Writing /\ (Update(w) \/ UpdateConflict(w))
    BY <1>9 DEF CompleteWrite, FailWrite
  <2>2. Matches(call[w])
    BY <2>1 DEF Own, Update, UpdateConflict, Matches
  <2>3. Update(w) /\ Leave(w, "claim")
    BY <1>9, <2>2 DEF CompleteWrite, FailWrite, UpdateConflict
  <2> QED BY <1>1, <2>1, <2>3 DEF Leave, counters, LoneMove, Update
<1>10. CASE FailJob(w)
  <2>1. state[held[w]] = RUNNING /\ pc[w] \in Busy
    BY <1>10 DEF FailJob, Own
  <2>2. /\ call' = [call EXCEPT ![w] = Planned(held[w], FailTarget(held[w]), 1)]
        /\ UNCHANGED <<rowVars, reaping>> /\ Step(w, "failing")
    BY <1>10, <2>1 DEF FailJob, fail, BeginFail, can_transition, Transitions
  <2>3. call'[w].job = held[w] /\ call'[w].seen = RUNNING
    <3>1. call'[w] = Planned(held[w], FailTarget(held[w]), 1)
      BY <1>3, <2>2
    <3>2. Planned(held[w], FailTarget(held[w]), 1).job = held[w]
          /\ Planned(held[w], FailTarget(held[w]), 1).seen = state[held[w]]
      BY DEF Planned
    <3> QED BY <2>1, <3>1, <3>2
  <2> QED BY <1>2, <2>1, <2>2, <2>3 DEF LoneMove
<1>11. CASE Kill(w)
  <2>1. state' = state /\ call'[w].op # "update"
    BY <1>0, <1>3, <1>11 DEF Kill, Abandon, Free
  <2> QED BY <1>1, <1>11, <2>1 DEF Kill, LoneMove
<1> QED BY <1>4, <1>5, <1>6, <1>7, <1>8, <1>9, <1>10, <1>11 DEF run_once

\* Without reaps and requests the steps of the others are the workers' only.
LEMMA OthersRest ==
  ASSUME TypeOK, NobodyElse, NEW w \in Workers, run_once(w) \/ Kill(w),
         \A c \in Clients \ {w} : call'[c] = call[c]
  PROVE  NobodyElse'
<1>1. reaping' = reaping \/ reaping' = [reaping EXCEPT ![w] = {}]
  BY DEF run_once, Kill, ClaimSelect, SelectPage, ClaimTry, ClaimWon, ClaimLost, Drained,
     CheckResult, Handle, RecordResult, Complete, CompleteWrite, FailJob, fail, FailWrite,
     Update, UpdateConflict, Abandon, storeVars
<1>2. ASSUME NEW o \in Outsiders PROVE reaping'[o] = reaping[o] /\ call'[o] = call[o]
  BY <1>1 DEF TypeOK
<1> QED BY <1>2 DEF NobodyElse

\* A worker's write ends or requeues the job it holds.
LEMMA OwnWrite ==
  ASSUME TypeOK, Charges, NEW w \in Workers, Own(w), Update(w)
  PROVE  /\ state' = [state EXCEPT ![held[w]] = call[w].to]
         /\ call[w].to \in TERMINAL \cup {PENDING} /\ held[w] \in Jobs
         /\ pc[w] \in Busy /\ state[held[w]] = RUNNING /\ call'[w].op # "update"
<1>1. w \in Clients /\ call[w] \in Updates /\ call[w].op = "update"
  BY CallShape DEF Update
<1>2. /\ call[w].job = held[w] /\ pc[w] \in Busy /\ state[held[w]] = RUNNING
  BY <1>1 DEF Own
<1>3. KnownPlan(w)
  BY <1>1 DEF Charges
<1>4. call[w].to \in TERMINAL \cup {PENDING}
  BY <1>1, <1>3 DEF KnownPlan, TERMINAL
<1>5. call'[w].op # "update"
  BY <1>1 DEF Update, TypeOK, Idle
<1> QED BY <1>1, <1>2, <1>4, <1>5 DEF Update, Updates

\* An undisturbed worker keeps to its own job.
LEMMA LoneWorker ==
  ASSUME TypeOK, HoldsItsJob, Charges, Alone, NEW w \in Workers, LoneMove(w),
         \A c \in Clients \ {w} : call'[c] = call[c],
         \A v \in Workers \ {w} : pc'[v] = pc[v] /\ held'[v] = held[v]
  PROVE  /\ \A v \in Workers : Own(v)'
         /\ \A j \in Jobs : state'[j] # PAUSED
         /\ Unfinished' \subseteq Unfinished
         /\ \/ Orphans' \subseteq Orphans /\ kills' = kills
            \/ /\ Orphans' \subseteq Orphans \cup {held[w]} /\ kills' = kills + 1
               /\ pc[w] \notin Ended /\ pc'[w] \in Ended /\ pc'[w] # "exited"
<1> USE DEF PENDING, RUNNING, PAUSED, SUCCEEDED, DEAD_LETTER, CANCELLED, ABSENT, TERMINAL
<1>0. /\ \A v \in Workers : Own(v) /\ v \in Clients
      /\ \A v \in Workers : pc[v] \in Busy => held[v] \in Jobs
      /\ \A j \in Jobs : state[j] # PAUSED
  BY DEF Alone, HoldsItsJob
<1>1. ASSUME NEW j \in Jobs, ClaimWon(w, j), pc[w] = "claim", pc'[w] = "check", held'[w] = j, kills' = kills
      PROVE  /\ \A v \in Workers : Own(v)'
             /\ \A i \in Jobs : state'[i] # PAUSED
             /\ Unfinished' \subseteq Unfinished /\ Orphans' \subseteq Orphans
  <2>1. /\ state[j] = PENDING /\ state'[j] = RUNNING /\ call'[w].op # "update"
        /\ \A i \in Jobs \ {j} : state'[i] = state[i]
    BY <1>1 DEF ClaimWon, Claimable, TypeOK, Idle
  <2>2. \A v \in Workers : pc[v] \in Busy => held[v] # j
    BY <1>0, <2>1 DEF Own
  <2>3. ASSUME NEW v \in Workers \ {w} PROVE Own(v)'
    <3>1. pc[v] \in Busy => state'[held[v]] = RUNNING
      BY <1>0, <2>1, <2>2 DEF Own
    <3>2. pc[v] \in Busy => \A x \in Workers \ {v} : pc'[x] \in Busy => held'[x] # held[v]
      BY <1>0, <1>1, <2>2 DEF Own
    <3> QED BY <1>0, <3>1, <3>2 DEF Own
  <2>4. Own(w)'
    BY <1>1, <2>1, <2>2 DEF Own
  <2>5. Unfinished' \subseteq Unfinished
    BY <2>1 DEF Unfinished
  <2>6. Orphans' \subseteq Orphans
    BY <1>1, <2>1 DEF Orphans
  <2> QED BY <1>0, <2>1, <2>3, <2>4, <2>5, <2>6
<1>2. ASSUME Update(w), pc[w] \in Writing, pc'[w] = "claim", kills' = kills
      PROVE  /\ \A v \in Workers : Own(v)'
             /\ \A i \in Jobs : state'[i] # PAUSED
             /\ Unfinished' \subseteq Unfinished /\ Orphans' \subseteq Orphans
  <2>1. /\ state' = [state EXCEPT ![held[w]] = call[w].to]
        /\ call[w].to \in TERMINAL \cup {PENDING} /\ held[w] \in Jobs
        /\ pc[w] \in Busy /\ state[held[w]] = RUNNING /\ call'[w].op # "update"
    BY <1>0, <1>2, OwnWrite
  <2>2. state'[held[w]] = call[w].to /\ \A i \in Jobs \ {held[w]} : state'[i] = state[i]
    BY <2>1 DEF TypeOK
  <2>3. ASSUME NEW v \in Workers \ {w} PROVE Own(v)'
    <3>1. pc[v] \in Busy => state'[held[v]] = RUNNING
      BY <1>0, <2>1, <2>2 DEF Own
    <3>2. pc[v] \in Busy => \A x \in Workers \ {v} : pc'[x] \in Busy => held'[x] # held[v]
      BY <1>0, <1>2 DEF Own
    <3> QED BY <1>0, <3>1, <3>2 DEF Own
  <2>4. Own(w)'
    BY <1>2, <2>1 DEF Own
  <2>5. Unfinished' \subseteq Unfinished
    BY <2>1, <2>2 DEF Unfinished
  <2>6. Orphans' \subseteq Orphans
    BY <1>0, <2>1, <2>2 DEF Orphans
  <2> QED BY <1>0, <2>1, <2>2, <2>3, <2>4, <2>5, <2>6
<1>3. ASSUME state' = state, pc'[w] \in Busy => pc[w] \in Busy /\ held'[w] = held[w], pc'[w] # "raised",
             call'[w].op = "update" => /\ pc'[w] \in Writing /\ call'[w].job = held'[w]
                                       /\ call'[w].seen = RUNNING
      PROVE  /\ \A v \in Workers : Own(v)'
             /\ \A i \in Jobs : state'[i] # PAUSED
             /\ Unfinished' \subseteq Unfinished
             /\ Orphans' \subseteq Orphans \cup {held[w]}
             /\ (pc[w] \in Busy => pc'[w] \in Busy) => Orphans' \subseteq Orphans
  <2>1. ASSUME NEW v \in Workers PROVE Own(v)'
    <3>1. pc'[v] \in Busy => /\ pc[v] \in Busy /\ held'[v] = held[v]
                             /\ state'[held[v]] = RUNNING
      BY <1>0, <1>3 DEF Own
    <3>2. \A x \in Workers : pc'[x] \in Busy => pc[x] \in Busy /\ held'[x] = held[x]
      BY <1>3
    <3> QED BY <1>0, <1>3, <3>1, <3>2 DEF Own
  <2>2. Unfinished' \subseteq Unfinished
    BY <1>3 DEF Unfinished
  <2>3. Orphans' \subseteq Orphans \cup {held[w]}
    BY <1>3 DEF Orphans
  <2>4. ASSUME pc[w] \in Busy => pc'[w] \in Busy PROVE Orphans' \subseteq Orphans
    BY <1>3, <2>4 DEF Orphans
  <2> QED BY <1>0, <1>3, <2>1, <2>2, <2>3, <2>4
<1>4. CASE /\ pc[w] = "claim" /\ pc'[w] = "exited" /\ held'[w] = held[w]
           /\ UNCHANGED <<state, call, kills>>
  <2>1. call'[w].op # "update"
    BY <1>0, <1>4 DEF Own
  <2> QED BY <1>3, <1>4, <2>1
<1>5. CASE /\ pc[w] \notin Ended /\ pc'[w] = "killed" /\ kills' = kills + 1
           /\ state' = state /\ call'[w].op # "update"
  BY <1>3, <1>5
<1>6. CASE /\ pc[w] \in Busy /\ pc'[w] \in Busy /\ held'[w] = held[w] /\ UNCHANGED <<state, kills>>
           /\ call'[w].op = "update" => /\ pc'[w] \in Writing /\ call'[w].job = held[w]
                                        /\ call'[w].seen = RUNNING
  BY <1>3, <1>6
<1>7. CASE /\ pc[w] = "claim" /\ pc'[w] = "claim" /\ held'[w] = held[w] /\ UNCHANGED <<state, kills>>
           /\ call'[w].op # "update"
  BY <1>3, <1>7
<1> QED BY <1>1, <1>2, <1>4, <1>5, <1>6, <1>7 DEF LoneMove

\* When the queue is empty, every unfinished job is held by a worker that is
\* alive, and not by one that has nothing to do, or was left by a killed one.
LEMMA EmptyQueue ==
  ASSUME TypeOK, HoldsItsJob, Charges, Alone, kills \in Nat, NEW w \in Workers, pc[w] = "claim",
         Pending(Jobs) = {}
  PROVE  Cardinality(Unfinished) <= kills + Cardinality(Alive \ {w})
<1> DEFINE B == {v \in Workers : pc[v] \in Busy}
           H == {held[v] : v \in B}
           f == [v \in B |-> held[v]]
<1>1. B \subseteq Alive \ {w} /\ IsFiniteSet(Alive \ {w}) /\ Cardinality(Alive \ {w}) \in Nat
  <2>1. B \subseteq Alive \ {w}
    BY DEF Alive
  <2>2. IsFiniteSet(Alive \ {w})
    BY Numbers, FS_RemoveElement
  <2> QED BY <2>1, <2>2, FS_CardinalityType
<1>2. IsFiniteSet(B) /\ Cardinality(B) <= Cardinality(Alive \ {w}) /\ Cardinality(B) \in Nat
  BY <1>1, FS_Subset, FS_CardinalityType
<1>3. f \in Surjection(B, H)
  BY DEF Surjection
<1>4. IsFiniteSet(H) /\ Cardinality(H) <= Cardinality(B)
  BY <1>2, <1>3, FS_Surjection
<1>5. Unfinished \subseteq Orphans \cup H
  <2> SUFFICES ASSUME NEW j \in Unfinished, j \notin H PROVE j \in Orphans
    OBVIOUS
  <2>1. state[j] # PENDING /\ j \in Jobs
    BY DEF Pending, Unfinished
  <2>2. state[j] = RUNNING
    BY <2>1 DEF Unfinished, Alone, Charges, TypeOK, JobState, TERMINAL
  <2> QED BY <2>1, <2>2 DEF Orphans
<1>6. /\ IsFiniteSet(Orphans \cup H) /\ Cardinality(H) \in Nat /\ Cardinality(Orphans \cap H) \in Nat
      /\ Cardinality(Orphans \cup H) = Cardinality(Orphans) + Cardinality(H) - Cardinality(Orphans \cap H)
  BY <1>4, Numbers, FS_Union, FS_Intersection, FS_CardinalityType
<1>7. Cardinality(Unfinished) <= Cardinality(Orphans \cup H)
  BY <1>5, <1>6, FS_Subset
<1>8. Cardinality(Orphans) <= kills
  BY DEF Alone
<1> HIDE DEF B, H, f
<1>9. Cardinality(Orphans \cup H) <= kills + Cardinality(Alive \ {w})
  BY <1>1, <1>2, <1>4, <1>6, <1>8, Numbers
<1>10. Cardinality(Orphans \cup H) \in Nat
  BY <1>6, FS_CardinalityType
<1> QED BY <1>1, <1>7, <1>9, <1>10, Numbers

\* A step of an undisturbed worker.
LEMMA WorkerAlone ==
  ASSUME TypeOK, HoldsItsJob, Charges, Alone, EachHasOne, kills \in Nat,
         NEW w \in Workers, run_once(w) \/ Kill(w)
  PROVE  Alone' /\ EachHasOne' /\ kills' \in Nat
<1>1. /\ \A c \in Clients \ {w} : call'[c] = call[c]
      /\ \A v \in Workers \ {w} : pc'[v] = pc[v] /\ held'[v] = held[v]
      /\ pools' = pools
  BY WorkerMoves
<1>2. LoneMove(w)
  BY LoneMoves DEF Alone
<1>3. /\ \A v \in Workers : Own(v)'
      /\ \A j \in Jobs : state'[j] # PAUSED
      /\ Unfinished' \subseteq Unfinished
      /\ \/ Orphans' \subseteq Orphans /\ kills' = kills
         \/ /\ Orphans' \subseteq Orphans \cup {held[w]} /\ kills' = kills + 1
            /\ pc[w] \notin Ended /\ pc'[w] \in Ended /\ pc'[w] # "exited"
  BY <1>1, <1>2, LoneWorker
<1>4. NobodyElse'
  BY <1>1, OthersRest DEF Alone
<1>5. kills' \in Nat /\ Cardinality(Unfinished') <= Cardinality(Unfinished)
  BY <1>3, Numbers
<1>6. Cardinality(Orphans') <= kills'
  <2>1. CASE Orphans' \subseteq Orphans /\ kills' = kills
    BY <2>1, Numbers DEF Alone
  <2>2. CASE Orphans' \subseteq Orphans \cup {held[w]} /\ kills' = kills + 1
    <3>1. /\ IsFiniteSet(Orphans \cup {held[w]})
          /\ Cardinality(Orphans \cup {held[w]}) \in {Cardinality(Orphans), Cardinality(Orphans) + 1}
      BY Numbers, FS_AddElement
    <3>2. Cardinality(Orphans') <= Cardinality(Orphans \cup {held[w]})
      BY <2>2, <3>1, FS_Subset
    <3> QED BY <2>2, <3>1, <3>2, Numbers DEF Alone
  <2> QED BY <1>3, <2>1, <2>2
<1>7. Alone'
  BY <1>3, <1>4, <1>6 DEF Alone
<1>8. EachHasOne'
  <2> SUFFICES ASSUME pools = PoolBudget, NEW x \in Workers, pc'[x] = "exited"
               PROVE  Cardinality(Unfinished') <= kills' + Cardinality(Alive')
    BY <1>1 DEF EachHasOne
  <2>1. CASE pc[w] = "claim" /\ pc'[w] = "exited" /\ Pending(Jobs) = {} /\ kills' = kills
    <3>1. Alive' = Alive \ {w}
      BY <1>1, <2>1 DEF Alive
    <3>2. Cardinality(Unfinished) <= kills + Cardinality(Alive \ {w})
      BY <2>1, EmptyQueue
    <3>3. Cardinality(Unfinished) <= kills' + Cardinality(Alive')
      BY <2>1, <3>1, <3>2
    <3> QED BY <1>5, <3>3, Numbers
  <2>2. CASE pc'[w] # "exited"
    <3>1. Cardinality(Unfinished) <= kills + Cardinality(Alive)
      BY <1>1, <2>2 DEF EachHasOne
    <3>2. CASE pc'[w] \in Ended
      <4>1. kills' = kills + 1 /\ pc[w] \notin Ended
        BY <1>2, <2>2, <3>2 DEF LoneMove
      <4>2. Alive' = Alive \ {w} /\ w \in Alive
        BY <1>1, <3>2, <4>1 DEF Alive
      <4>3. Cardinality(Alive') = Cardinality(Alive) - 1
        BY <4>2, Numbers, FS_RemoveElement
      <4> QED BY <1>5, <3>1, <4>1, <4>3, Numbers
    <3>3. CASE pc'[w] \notin Ended
      <4>1. kills' = kills
        BY <1>2, <3>3 DEF LoneMove
      <4>2. Alive \subseteq Alive'
        BY <1>1, <3>3 DEF Alive
      <4>3. Cardinality(Alive) <= Cardinality(Alive')
        BY <4>2, Numbers, FS_Subset
      <4> QED BY <1>5, <3>1, <4>1, <4>3, Numbers
    <3> QED BY <3>2, <3>3
  <2> QED BY <1>2, <2>1, <2>2 DEF LoneMove
<1> QED BY <1>5, <1>7, <1>8

\* A new pool, a new job, a lease that runs out.
LEMMA WorldAlone ==
  ASSUME TypeOK, HoldsItsJob, Alone, EachHasOne, kills \in Nat,
         Spawn \/ (\E j \in Jobs : Produce(j) \/ LeaseRunsOut(j)) \/ UNCHANGED poolVars
  PROVE  Alone' /\ EachHasOne' /\ kills' = kills
<1>1. UNCHANGED <<call, reaping, held, kills>>
  BY DEF Spawn, Produce, LeaseRunsOut, create, Expire, Outside, counters, poolVars, storeVars
<1>2. NobodyElse'
  BY <1>1 DEF Alone, NobodyElse
<1>3. CASE Spawn
  <2>1. /\ \A w \in Workers : pc[w] \in Ended /\ pc'[w] = "claim"
        /\ state' = state
    BY <1>3 DEF Spawn, AllEnded, storeVars
  <2>2. \A w \in Workers : Own(w)'
    BY <1>1, <2>1 DEF Alone, Own
  <2>3. Orphans' \subseteq Orphans
    BY <2>1 DEF Orphans
  <2>4. Cardinality(Orphans') <= kills'
    BY <1>1, <2>3, Numbers DEF Alone
  <2>5. EachHasOne'
    BY <2>1 DEF EachHasOne
  <2> QED BY <1>1, <1>2, <2>1, <2>2, <2>4, <2>5 DEF Alone
<1>4. ASSUME NEW j \in Jobs, Produce(j) PROVE Alone' /\ EachHasOne'
  <2>1. /\ pools < PoolBudget /\ pools' = pools /\ pc' = pc /\ state[j] = ABSENT
        /\ state' = [state EXCEPT ![j] = PENDING]
    BY <1>4 DEF Produce, create, Outside, counters
  <2>2. \A i \in Jobs : state'[i] = state[i] \/ (state[i] = ABSENT /\ state'[i] = PENDING)
    BY <2>1 DEF TypeOK
  <2>3. ASSUME NEW w \in Workers PROVE Own(w)'
    <3>1. pc[w] \in Busy => held[w] \in Jobs /\ state[held[w]] = RUNNING
      BY DEF HoldsItsJob, Alone, Own
    <3>2. pc[w] \in Busy => state'[held[w]] = RUNNING
      BY <2>2, <3>1 DEF ABSENT, RUNNING
    <3> QED BY <1>1, <2>1, <3>2 DEF Alone, Own
  <2>4. Orphans' \subseteq Orphans
    BY <1>1, <2>1, <2>2 DEF Orphans, PENDING, RUNNING
  <2>5. Cardinality(Orphans') <= kills'
    BY <1>1, <2>4, Numbers DEF Alone
  <2>6. EachHasOne'
    BY <2>1 DEF EachHasOne
  <2> QED BY <1>2, <2>2, <2>3, <2>5, <2>6 DEF Alone, PENDING, PAUSED
<1>5. CASE UNCHANGED <<state, pc, pools>>
  <2>1. \A w \in Workers : Own(w)'
    BY <1>1, <1>5 DEF Alone, Own
  <2>2. Orphans' = Orphans /\ Unfinished' = Unfinished /\ Alive' = Alive
    BY <1>1, <1>5 DEF Orphans, Unfinished, Alive
  <2>3. EachHasOne'
    BY <1>1, <1>5, <2>2 DEF EachHasOne
  <2> QED BY <1>1, <1>2, <1>5, <2>1, <2>2, <2>3 DEF Alone
<1>6. Spawn \/ (\E j \in Jobs : Produce(j)) \/ UNCHANGED <<state, pc, pools>>
  BY DEF LeaseRunsOut, Expire, Outside, counters, poolVars, storeVars
<1> QED BY <1>1, <1>3, <1>4, <1>5, <1>6

\* The invariant is inductive; outsiders that have read nothing write nothing.
LEMMA PoolAloneNext ==
  ASSUME TypeOK, HoldsItsJob, Charges, PoolAlone, [Next]_poolVars
  PROVE  PoolAlone'
<1>1. ASSUME NEW w \in Workers, run_once(w) \/ Kill(w) PROVE PoolAlone'
  <2>1. UNCHANGED <<reaps, requests>>
    BY <1>1, WorkerMoves
  <2>2. kills' \in Nat
    <3>1. kills' \in {kills, kills + 1}
      BY <1>1 DEF run_once, Kill, ClaimSelect, ClaimTry, Drained, CheckResult, Handle, RecordResult,
         StartHandler, Complete, CompleteWrite, FailJob, FailWrite, Step, Leave, counters
    <3> QED BY <3>1 DEF PoolAlone
  <2> QED BY <1>1, <2>1, <2>2, WorkerAlone DEF PoolAlone
<1>2. ASSUME NEW o \in Outsiders,
             Reap(o) \/ ReapOne(o) \/ OutsideWrite(o) \/ \E j \in Jobs : Request(o, j)
      PROVE  PoolAlone'
  <2>1. kills' = kills /\ reaps' \in Nat /\ requests' \in Nat
    BY <1>2 DEF Reap, ReapOne, OutsideWrite, Request, counters, PoolAlone
  <2>2. reaps' + requests' # 0 \/ (UNCHANGED <<reaps, requests>> /\ (ReapOne(o) \/ OutsideWrite(o)))
    BY <1>2 DEF Reap, ReapOne, OutsideWrite, Request, counters, PoolAlone
  <2>3. ReapOne(o) \/ OutsideWrite(o) => call[o].op = "update" \/ reaping[o] # {}
    BY DEF ReapOne, OutsideWrite, Update, UpdateConflict
  <2>4. reaps' + requests' # 0
    BY <2>2, <2>3 DEF PoolAlone, Alone, NobodyElse
  <2> QED BY <2>1, <2>4 DEF PoolAlone
<1>3. CASE Spawn \/ (\E j \in Jobs : Produce(j) \/ LeaseRunsOut(j)) \/ UNCHANGED poolVars
  <2>1. UNCHANGED <<kills, reaps, requests>>
    BY <1>3 DEF Spawn, Produce, LeaseRunsOut, counters, poolVars
  <2> QED BY <1>3, <2>1, WorldAlone DEF PoolAlone
<1> QED BY <1>1, <1>2, <1>3 DEF Next

\* Without reapers and operators no exception of the store ends a worker, and
\* once a worker of the last pool found the queue empty, each kill leaves at
\* most one job unfinished: a worker that exits while others still put jobs
\* back into the queue loses none of them.
THEOREM PoolLosesOnePerKill == Spec => []EachKillStrandsOne
<1>1. Init => PoolAlone /\ Charges
  <2> SUFFICES ASSUME Init PROVE PoolAlone /\ Charges
    OBVIOUS
  <2>1. Charges
    BY InitialCharges
  <2>2. /\ state = [j \in Jobs |-> ABSENT] /\ pc = [w \in Workers |-> "exited"]
        /\ call = [c \in Clients |-> Idle] /\ reaping = [c \in Clients |-> {}]
        /\ kills = 0 /\ reaps = 0 /\ requests = 0
    BY DEF Init, StoreInit
  <2>3. Orphans = {} /\ Unfinished = {}
    BY <2>2 DEF Orphans, Unfinished, ABSENT, RUNNING
  <2>4. Cardinality({}) = 0
    BY FS_EmptySet
  <2>5. NobodyElse /\ \A w \in Workers : Own(w)
    BY <2>2 DEF NobodyElse, Own, Idle
  <2>6. Alone
    BY <2>2, <2>3, <2>4, <2>5 DEF Alone, ABSENT, PAUSED
  <2>7. EachHasOne
    BY <2>2, <2>3, <2>4, Numbers DEF EachHasOne
  <2> QED BY <2>1, <2>2, <2>6, <2>7 DEF PoolAlone
<1>2. IInv /\ HoldsItsJob /\ Charges /\ PoolAlone /\ [Next]_poolVars => PoolAlone'
  BY PoolAloneNext DEF IInv
<1>3. IInv /\ HoldsItsJob /\ Charges /\ [Next]_poolVars => Charges'
  BY ChargesNext
<1>4. PoolAlone => EachKillStrandsOne
  <2> SUFFICES ASSUME PoolAlone, reaps + requests = 0
               PROVE  /\ \A w \in Workers : pc[w] # "raised"
                      /\ pools = PoolBudget /\ AllEnded /\ (\E w \in Workers : pc[w] = "exited")
                           => Cardinality(Unfinished) <= kills
    BY DEF EachKillStrandsOne, Unfinished
  <2>1. \A w \in Workers : pc[w] # "raised"
    BY DEF PoolAlone, Alone, Own
  <2>2. ASSUME pools = PoolBudget, AllEnded, \E w \in Workers : pc[w] = "exited"
        PROVE  Cardinality(Unfinished) <= kills
    <3>1. Alive = {}
      BY <2>2 DEF Alive, AllEnded
    <3>2. Cardinality(Alive) = 0
      BY <3>1, FS_EmptySet
    <3>3. Cardinality(Unfinished) <= kills + Cardinality(Alive)
      BY <2>2 DEF PoolAlone, EachHasOne
    <3> QED BY <3>2, <3>3 DEF PoolAlone
  <2> QED BY <2>1, <2>2
<1> QED BY <1>1, <1>2, <1>3, <1>4, PoolInductive, PTL DEF Spec

=============================================================================
