-------------------------- MODULE ControlPlaneProofs --------------------------
(***************************************************************************)
(* The control plane implements the store: whatever daemons, operators,    *)
(* kills and clocks do, the table only ever moves by the store's own       *)
(* statements. With the store's theorems this bounds retries, and keeps    *)
(* leases and ended jobs as they should be, in the running system.         *)
(***************************************************************************)
EXTENDS ControlPlane, JobStoreProofs

\* Where a daemon holds the job at the head of its admitted list.
Holding == {"rejecting", "train", "complete", "completing", "fail", "failing"}

\* A daemon that acts on a job holds one it admitted, and a heartbeat beats for
\* the job in training only.
HoldsItsJob ==
  /\ pc \in [Daemons -> Labels]
  /\ admitted \in [Daemons -> Seq(Jobs)]
  /\ beating \in [Daemons -> BOOLEAN]
  /\ \A d \in Daemons : pc[d] \in Holding => admitted[d] # <<>>
  /\ \A d \in Daemons : beating[d] => pc[d] = "train"

USE ClientsAssumption, JobColumnsAssumption
USE DEF GPU, CPU, Labels, Holding, Dead, Goto

\* The head of a non-empty admitted list is a job.
LEMMA CurrentIsJob ==
  ASSUME HoldsItsJob, NEW d \in Daemons, admitted[d] # <<>>
  PROVE  Current(d) \in Jobs
BY DEF HoldsItsJob, Current

\* A process that ends holds nothing.
LEMMA ExitHolds ==
  ASSUME HoldsItsJob, NEW d \in Daemons, NEW how \in Dead, Exit(d, how)
  PROVE  HoldsItsJob'
BY DEF HoldsItsJob, Exit

\* A daemon that moves on without holding a job, or with the job it has.
LEMMA StepHolds ==
  ASSUME HoldsItsJob, NEW d \in Daemons, NEW l \in Labels, Step(d, l),
         ~beating[d] \/ l = "train",
         l \in Holding => admitted[d] # <<>>
  PROVE  HoldsItsJob'
BY DEF HoldsItsJob, Step

\* A daemon done with its job drops it.
LEMMA NextJobHolds ==
  ASSUME HoldsItsJob, NEW d \in Daemons, admitted[d] # <<>>, ~beating[d],
         NextJob(d)
  PROVE  HoldsItsJob'
<1>1. Tail(admitted[d]) \in Seq(Jobs)
  BY DEF HoldsItsJob
<1> QED BY <1>1 DEF HoldsItsJob, NextJob

\* What a daemon's place in serve_pending() tells about its job.
LEMMA PlaceTells ==
  ASSUME HoldsItsJob, NEW d \in Daemons
  PROVE  /\ d \in Clients
         /\ pc[d] \in Labels
         /\ pc[d] # "train" => ~beating[d]
         /\ pc[d] \in Holding => admitted[d] # <<>> /\ Current(d) \in Jobs
BY CurrentIsJob DEF HoldsItsJob

\* Every step of a daemon is a step of the store, or none of its business.
LEMMA DaemonStepKeeps ==
  ASSUME HoldsItsJob, TypeOK, NEW d \in Daemons, DaemonStep(d)
  PROVE  HoldsItsJob' /\ StoreStep
<1> USE PlaceTells DEF StoreStep
<1>1. CASE ReapStart(d)
  <2>1. StoreStep
    BY <1>1, ClientCalls DEF ReapStart
  <2>2. Step(d, "reap") \/ Step(d, "count")
    BY <1>1 DEF ReapStart
  <2> QED BY <1>1, <2>1, <2>2, StepHolds DEF ReapStart
<1>2. CASE ReapGet(d)
  <2>1. PICK j \in reaping[d] :
          \/ ReapNext(d, j) /\ Step(d, "reaping")
          \/ Abandon(d) /\ Raise(d)
    BY <1>2 DEF ReapGet
  <2>2. pc[d] = "reap"
    BY <1>2 DEF ReapGet
  <2>3. CASE ReapNext(d, j) /\ Step(d, "reaping")
    <3>1. StoreNext
      BY <2>3, ClientCalls DEF TypeOK
    <3> QED BY <2>2, <2>3, <3>1, StepHolds
  <2>4. CASE Abandon(d) /\ Raise(d)
    BY <2>4, ClientCalls, ExitHolds DEF Raise
  <2> QED BY <2>1, <2>3, <2>4
<1>3. CASE ReapWrite(d)
  <2>1. CASE Update(d) /\ (Step(d, "count") \/ Step(d, "reap"))
    BY <1>3, <2>1, ClientCalls, StepHolds DEF ReapWrite
  <2>2. CASE UpdateConflict(d) /\ Raise(d)
    BY <2>2, ClientCalls, ExitHolds DEF Raise
  <2> QED BY <1>3, <2>1, <2>2 DEF ReapWrite
<1>4. CASE Count(d)
  BY <1>4 DEF Count, HoldsItsJob
<1>5. CASE AdmitSelect(d)
  BY <1>5, ClientCalls DEF AdmitSelect, daemonVars, HoldsItsJob
<1>6. CASE AdmitTry(d)
  <2>1. pc[d] \in {GPU, CPU}
    BY <1>6 DEF AdmitTry
  <2>2. PICK j \in Jobs :
          \/ /\ ClaimWon(d, j)
             /\ admitted' = [admitted EXCEPT ![d] = Append(admitted[d], j)]
             /\ UNCHANGED <<pc, beating>>
          \/ ClaimLost(d, j) /\ UNCHANGED <<pc, admitted, beating>>
    BY <1>6 DEF AdmitTry, daemonVars
  <2>3. StoreStep
    BY <2>2, ClientCalls
  <2>4. admitted[d] \in Seq(Jobs) /\ Append(admitted[d], j) \in Seq(Jobs)
    BY DEF HoldsItsJob
  <2>5. HoldsItsJob'
    BY <2>1, <2>2, <2>4 DEF HoldsItsJob
  <2> QED BY <2>3, <2>5
<1>7. CASE AdmitDone(d)
  <2>1. pc[d] # "train" /\ (Step(d, CPU) \/ Step(d, "work")) /\ UNCHANGED storeVars
    BY <1>7 DEF AdmitDone
  <2> QED BY <2>1, StepHolds
<1>8. CASE PassDone(d)
  BY <1>8 DEF PassDone, HoldsItsJob
<1>9. CASE Reject(d)
  <2>1. pc[d] = "work" /\ admitted[d] # <<>> /\ Current(d) \in Jobs
    BY <1>9, CurrentIsJob DEF Reject
  <2>2. CASE fail(d, Current(d)) /\ Step(d, "rejecting")
    BY <2>1, <2>2, ClientCalls, StepHolds
  <2>3. CASE UNCHANGED storeVars /\ Raise(d)
    BY <2>3, ExitHolds DEF Raise
  <2> QED BY <1>9, <2>2, <2>3 DEF Reject
<1>10. CASE RejectWrite(d)
  <2>1. CASE Update(d) /\ NextJob(d)
    BY <1>10, <2>1, ClientCalls, NextJobHolds DEF RejectWrite
  <2>2. CASE UpdateConflict(d) /\ Raise(d)
    BY <2>2, ClientCalls, ExitHolds DEF Raise
  <2> QED BY <1>10, <2>1, <2>2 DEF RejectWrite
<1>11. CASE StartTraining(d)
  BY <1>11, JobCalls, CurrentIsJob, ExitHolds DEF StartTraining, Raise, HoldsItsJob
<1>12. CASE FinishTraining(d)
  BY <1>12 DEF FinishTraining, AfterTraining, HoldsItsJob
<1>13. CASE Complete(d)
  <2>1. pc[d] = "complete"
    BY <1>13 DEF Complete
  <2>2. CASE /\ BeginTransition(d, Current(d), SUCCEEDED, 0)
             /\ UNCHANGED <<rowVars, reaping>>
             /\ Step(d, "completing")
    <3>1. StoreNext
      BY <2>1, <2>2, TransitionCalls
    <3> QED BY <2>1, <2>2, <3>1, StepHolds
  <2>3. CASE UNCHANGED storeVars /\ Raise(d)
    BY <2>3, ExitHolds DEF Raise
  <2>4. CASE UNCHANGED storeVars /\ NextJob(d)
    BY <2>1, <2>4, NextJobHolds
  <2> QED BY <1>13, <2>2, <2>3, <2>4 DEF Complete, Report
<1>14. CASE CompleteWrite(d)
  <2>1. CASE Update(d) /\ NextJob(d)
    BY <1>14, <2>1, ClientCalls, NextJobHolds DEF CompleteWrite
  <2>2. CASE (Update(d) \/ UpdateConflict(d)) /\ Raise(d)
    BY <2>2, ClientCalls, ExitHolds DEF Raise
  <2> QED BY <1>14, <2>1, <2>2 DEF CompleteWrite, Report
<1>15. CASE FailJob(d)
  <2>1. CASE fail(d, Current(d)) /\ Step(d, "failing")
    BY <1>15, <2>1, ClientCalls, StepHolds DEF FailJob
  <2>2. CASE UNCHANGED storeVars /\ NextJob(d)
    BY <1>15, <2>2, NextJobHolds DEF FailJob
  <2> QED BY <1>15, <2>1, <2>2 DEF FailJob
<1>16. CASE FailWrite(d)
  <2>1. CASE Update(d) /\ NextJob(d)
    BY <1>16, <2>1, ClientCalls, NextJobHolds DEF FailWrite
  <2>2. CASE UpdateConflict(d) /\ Raise(d)
    BY <2>2, ClientCalls, ExitHolds DEF Raise
  <2> QED BY <1>16, <2>1, <2>2 DEF FailWrite
<1> QED
  BY <1>1, <1>2, <1>3, <1>4, <1>5, <1>6, <1>7, <1>8, <1>9, <1>10, <1>11, <1>12,
     <1>13, <1>14, <1>15, <1>16 DEF DaemonStep

\* So is every step of the system.
LEMMA StepKeeps ==
  ASSUME HoldsItsJob, TypeOK, [Next]_cpVars
  PROVE  HoldsItsJob' /\ [StoreNext]_storeVars
<1> USE PlaceTells DEF StoreStep
<1>1. CASE \E d \in Daemons : DaemonStep(d)
  BY <1>1, DaemonStepKeeps
<1>2. CASE \E d \in Daemons : Heartbeat(d)
  <2>1. PICK d \in Daemons : Heartbeat(d)
    BY <1>2
  <2>2. pc[d] = "train"
    BY <2>1 DEF Heartbeat, HoldsItsJob
  <2>3. [StoreNext]_storeVars
    BY <2>1, <2>2, JobCalls DEF Heartbeat
  <2>4. HoldsItsJob'
    BY <2>1 DEF Heartbeat, HoldsItsJob
  <2> QED BY <2>3, <2>4
<1>3. CASE \E d \in Daemons : Kill(d)
  BY <1>3, ClientCalls, ExitHolds DEF Kill
<1>4. CASE \E d \in Daemons : Restart(d)
  <2>1. PICK d \in Daemons : Restart(d)
    BY <1>4
  <2> QED BY <2>1, StepHolds DEF Restart
<1>5. CASE \E j \in Jobs : Submit(j) \/ LeaseRunsOut(j)
  <2>1. UNCHANGED daemonVars /\ [StoreNext]_storeVars
    BY <1>5, JobCalls DEF Submit, LeaseRunsOut
  <2> QED BY <2>1 DEF daemonVars, HoldsItsJob
<1>6. CASE \E o \in Operators : RequestWrite(o)
  <2>1. UNCHANGED daemonVars /\ [StoreNext]_storeVars
    BY <1>6, ClientCalls DEF RequestWrite
  <2> QED BY <2>1 DEF daemonVars, HoldsItsJob
<1>7. CASE \E o \in Operators, j \in Jobs : Request(o, j)
  <2>1. PICK o \in Operators, j \in Jobs : Request(o, j)
    BY <1>7
  <2>2. StoreNext
    BY <2>1, TransitionCalls DEF Request
  <2>3. UNCHANGED daemonVars
    BY <2>1 DEF Request
  <2> QED BY <2>2, <2>3 DEF daemonVars, HoldsItsJob
<1>8. CASE UNCHANGED cpVars
  BY <1>8 DEF cpVars, daemonVars, HoldsItsJob
<1> QED BY <1>1, <1>2, <1>3, <1>4, <1>5, <1>6, <1>7, <1>8 DEF Next

\* The running system implements the store (control.py, scheduler.py and api.py
\* touch the table through the calls of store.py only).
THEOREM ControlPlaneImplementsStore == Spec => ImplementsStore
<1>1. Init => HoldsItsJob /\ IInv /\ StoreInit
  BY InitIInv DEF Init, HoldsItsJob
<1>2. HoldsItsJob /\ IInv /\ [Next]_cpVars
        => HoldsItsJob' /\ IInv' /\ [StoreNext]_storeVars
  <2>1. IInv => TypeOK
    BY DEF IInv
  <2> QED BY <2>1, StepKeeps, NextIInv
<1> QED BY <1>1, <1>2, PTL DEF Spec, ImplementsStore, StoreSpec

\* Hence what is proved of the store holds in the running system, whatever the
\* daemons, operators, kills and lease expiries are: retries are bounded and no
\* attempt is charged without a failure.
THEOREM RunningSystemRetries == Spec => []RetryBudget /\ []NoPhantomFailure
BY ControlPlaneImplementsStore, RetryBudgetHolds, NoPhantomFailureHolds, PTL
DEF ImplementsStore

\* And only a RUNNING job has a lease, and an ended job never moves again.
THEOREM RunningSystemEndsJobs == Spec => []LeaseOnlyWhileRunning /\ TerminalIsFinal
BY ControlPlaneImplementsStore, LeaseDiscipline, TerminalFinal, PTL
DEF ImplementsStore

-----------------------------------------------------------------------------
(* What the clients of the running system have read and are about to write.  *)

\* A daemon writes the failure of a job, or completes one that was executed.
DaemonPlan(d) ==
  call[d].op = "update" =>
    \/ /\ pc[d] \in {"reaping", "rejecting", "failing"}
       /\ call[d].to \in {PENDING, DEAD_LETTER} /\ call[d].bump = 1
    \/ /\ pc[d] = "completing" /\ call[d].to = SUCCEEDED
       /\ returned[call[d].job] # {}

\* The job a daemon is about to complete was executed.
Executed(d) == pc[d] \in {"complete", "completing"} => returned[Current(d)] # {}

\* An operator writes a pause, a resume after one, or a cancellation.
OperatorPlan(o) ==
  call[o].op = "update" => /\ call[o].to \in {PAUSED, PENDING, CANCELLED}
                           /\ call[o].to = PAUSED => requests >= 1
                           /\ call[o].to = PENDING => requests >= 2

\* Every plan in flight is one of those.
PlansAreKnown ==
  /\ requests \in Nat
  /\ returned \in [Jobs -> SUBSET Outcomes]
  /\ \A d \in Daemons : DaemonPlan(d) /\ Executed(d)
  /\ \A o \in Operators : OperatorPlan(o)

\* A step of daemon d is about its own place, its own jobs and its own call.
LEMMA OtherClientsRest ==
  ASSUME HoldsItsJob, TypeOK, NEW d \in Daemons,
         DaemonStep(d) \/ Heartbeat(d) \/ Kill(d) \/ Restart(d)
  PROVE  /\ \A k \in Clients \ {d} : call'[k] = call[k]
         /\ \A e \in Daemons \ {d} : pc'[e] = pc[e] /\ admitted'[e] = admitted[e]
         /\ UNCHANGED requests
<1> USE DEF Exit, Raise, Step, NextJob, Update, UpdateConflict, Abandon, BeginFail,
            HoldsItsJob, TypeOK, storeVars, rowVars
<1>1. CASE ReapStart(d) \/ ReapGet(d) \/ ReapWrite(d)
  BY <1>1 DEF ReapStart, ReapGet, ReapWrite, ReapSelect, ReapNext
<1>2. CASE Count(d) \/ AdmitSelect(d) \/ AdmitTry(d) \/ AdmitDone(d) \/ PassDone(d)
  BY <1>2 DEF Count, AdmitSelect, AdmitTry, AdmitDone, PassDone, SelectPage, ClaimWon,
     ClaimLost, daemonVars
<1>3. CASE Reject(d) \/ RejectWrite(d) \/ FailJob(d) \/ FailWrite(d)
  BY <1>3 DEF Reject, RejectWrite, FailJob, FailWrite, fail
<1>4. CASE StartTraining(d) \/ FinishTraining(d) \/ Heartbeat(d)
  BY <1>4 DEF StartTraining, FinishTraining, Heartbeat, renew_lease
<1>5. CASE Complete(d) \/ CompleteWrite(d)
  BY <1>5 DEF Complete, CompleteWrite, Report, BeginTransition
<1>6. CASE Kill(d) \/ Restart(d)
  BY <1>6 DEF Kill, Restart
<1> QED BY <1>1, <1>2, <1>3, <1>4, <1>5, <1>6 DEF DaemonStep

\* What has been returned for a job stays returned.
LEMMA ReturnsStay ==
  ASSUME PlansAreKnown, HoldsItsJob, NEW d \in Daemons,
         DaemonStep(d) \/ Heartbeat(d) \/ Kill(d) \/ Restart(d)
  PROVE  /\ returned' \in [Jobs -> SUBSET Outcomes]
         /\ \A j \in Jobs : returned[j] \subseteq returned'[j]
<1>1. CASE FinishTraining(d)
  <2>1. Current(d) \in Jobs
    BY <1>1, PlaceTells DEF FinishTraining
  <2>2. PICK o \in Outcomes :
          returned' = [returned EXCEPT ![Current(d)] = IF o = "error" THEN @ ELSE @ \cup {o}]
    BY <1>1 DEF FinishTraining
  <2> QED BY <2>1, <2>2 DEF PlansAreKnown
<1>2. CASE returned' = returned
  BY <1>2 DEF PlansAreKnown
<1>3. \/ FinishTraining(d)
      \/ returned' = returned
  BY DEF DaemonStep, Heartbeat, Kill, Restart, ReapStart, ReapGet, ReapWrite, Count, AdmitSelect,
     AdmitTry, AdmitDone, PassDone, Reject, RejectWrite, StartTraining, Complete, CompleteWrite,
     Report, FailJob, FailWrite, Exit, Raise, Step, NextJob
<1> QED BY <1>1, <1>2, <1>3

\* A planned write is what was planned.
LEMMA PlannedFields ==
  ASSUME NEW j, NEW dst, NEW b
  PROVE  LET u == Planned(j, dst, b) IN
         u.op = "update" /\ u.job = j /\ u.to = dst /\ u.bump = b
BY DEF Planned

\* A daemon plans nothing else.
LEMMA DaemonPlans ==
  ASSUME HoldsItsJob, TypeOK, PlansAreKnown, NEW d \in Daemons,
         DaemonStep(d) \/ Heartbeat(d) \/ Kill(d) \/ Restart(d)
  PROVE  DaemonPlan(d)' /\ Executed(d)'
<1>0. d \in Clients /\ pc[d] \in Labels /\ Idle.op # "update"
  BY PlaceTells DEF Idle
<1>1. ASSUME pc[d] \notin {"reaping", "rejecting", "failing", "completing"}
      PROVE  call[d].op # "update"
  BY <1>1 DEF PlansAreKnown, DaemonPlan
<1>2. ASSUME NEW u, call' = [call EXCEPT ![d] = u] PROVE call'[d] = u
  BY <1>0, <1>2 DEF TypeOK
<1>3. ASSUME NEW l, Goto(d, l) PROVE pc'[d] = l
  BY <1>3 DEF HoldsItsJob
<1>4. ASSUME NEW l, Goto(d, l), l \notin {"complete", "completing"}, call'[d].op # "update"
      PROVE  DaemonPlan(d)' /\ Executed(d)'
  BY <1>3, <1>4 DEF DaemonPlan, Executed
<1>4a. ASSUME pc'[d] \notin {"complete", "completing"}, call'[d].op # "update"
       PROVE  DaemonPlan(d)' /\ Executed(d)'
  BY <1>4a DEF DaemonPlan, Executed
<1>5. ASSUME NEW j \in Jobs, NEW l \in {"reaping", "rejecting", "failing"}, BeginFail(d, j), Goto(d, l)
      PROVE  DaemonPlan(d)' /\ Executed(d)'
  <2>1. call'[d] = Planned(j, FailTarget(j), 1) /\ FailTarget(j) \in {PENDING, DEAD_LETTER}
    BY <1>2, <1>5 DEF BeginFail, FailTarget
  <2>2. call'[d].to \in {PENDING, DEAD_LETTER} /\ call'[d].bump = 1
    BY <2>1, PlannedFields
  <2>3. pc'[d] = l
    BY <1>3, <1>5
  <2> QED BY <2>2, <2>3 DEF DaemonPlan, Executed
<1>6. Update(d) \/ UpdateConflict(d) \/ Abandon(d) => call'[d].op # "update"
  BY <1>0, <1>2 DEF Update, UpdateConflict, Abandon
<1>7. CASE ReapStart(d)
  <2>1. pc[d] = "pass" /\ call' = call /\ (Goto(d, "reap") \/ Goto(d, "count"))
    BY <1>7 DEF ReapStart, ReapSelect, storeVars, Step
  <2> QED BY <1>1, <1>4, <2>1
<1>8. CASE ReapGet(d)
  <2>1. PICK j \in reaping[d] :
          \/ ReapNext(d, j) /\ Step(d, "reaping")
          \/ Abandon(d) /\ Raise(d)
    BY <1>8 DEF ReapGet
  <2>2. j \in Jobs
    BY <1>0, <2>1 DEF TypeOK
  <2>3. CASE ReapNext(d, j) /\ Step(d, "reaping")
    BY <1>5, <2>2, <2>3 DEF ReapNext, Step
  <2>4. CASE Abandon(d) /\ Raise(d)
    <3>1. pc'[d] = "raised" /\ call'[d].op # "update"
      BY <1>3, <1>6, <2>4 DEF Raise, Exit
    <3> QED BY <1>4a, <3>1
  <2> QED BY <2>1, <2>3, <2>4
<1>9. CASE ReapWrite(d) \/ RejectWrite(d) \/ FailWrite(d) \/ CompleteWrite(d)
  <2>1. Update(d) \/ UpdateConflict(d)
    BY <1>9 DEF ReapWrite, RejectWrite, FailWrite, CompleteWrite
  <2>2. Goto(d, "count") \/ Goto(d, "reap") \/ Goto(d, "raised") \/ Goto(d, "work")
    BY <1>9 DEF ReapWrite, RejectWrite, FailWrite, CompleteWrite, Report, Step, Raise, Exit, NextJob
  <2> QED BY <1>4, <1>6, <2>1, <2>2
<1>10. CASE Count(d) \/ AdmitDone(d) \/ PassDone(d)
  <2>1. pc[d] \in {"count", GPU, CPU, "work"} /\ call' = call
    BY <1>10 DEF Count, AdmitDone, PassDone, storeVars
  <2>2. Goto(d, GPU) \/ Goto(d, CPU) \/ Goto(d, "work") \/ Goto(d, "pass")
    BY <1>10 DEF Count, AdmitDone, PassDone, Step
  <2> QED BY <1>1, <1>4, <2>1, <2>2
<1>11. CASE AdmitSelect(d) \/ AdmitTry(d)
  <2>1. pc'[d] = pc[d] /\ pc[d] \in {GPU, CPU}
    BY <1>11 DEF AdmitSelect, AdmitTry, daemonVars
  <2>2. call'[d].op # "update"
    <3>1. ASSUME NEW q, SelectPage(d, "priority", q) PROVE call'[d].op # "update"
      <4>1. call'[d] = [op |-> "claim", by |-> "priority", rows |-> Page("priority", Pending(q))]
        BY <1>2, <3>1 DEF SelectPage
      <4> QED BY <4>1
    <3>2. ASSUME NEW j \in Jobs, ClaimWon(d, j) PROVE call'[d].op # "update"
      BY <1>0, <1>2, <3>2 DEF ClaimWon
    <3>3. ASSUME NEW j \in Jobs, ClaimLost(d, j) PROVE call'[d].op # "update"
      <4>1. call[d].op = "claim" /\ call[d] \in Pages
        BY <1>0, <3>3, CallShape DEF ClaimLost
      <4>2. [call[d] EXCEPT !.rows = call[d].rows \ {j}].op = "claim"
        BY <4>1 DEF Pages
      <4>3. \/ call' = [call EXCEPT ![d] = Idle]
            \/ call' = [call EXCEPT ![d] = [call[d] EXCEPT !.rows = call[d].rows \ {j}]]
        BY <3>3 DEF ClaimLost
      <4> QED BY <1>0, <1>2, <4>2, <4>3
    <3> QED BY <1>11, <3>1, <3>2, <3>3 DEF AdmitSelect, AdmitTry
  <2> QED BY <2>1, <2>2 DEF DaemonPlan, Executed
<1>12. CASE Reject(d) \/ FailJob(d)
  <2>1. pc[d] \in {"work", "fail"} /\ Current(d) \in Jobs
    BY <1>12, PlaceTells, CurrentIsJob DEF Reject, FailJob
  <2>2. CASE fail(d, Current(d)) /\ (Goto(d, "rejecting") \/ Goto(d, "failing"))
    BY <1>5, <2>1, <2>2 DEF fail
  <2>3. CASE call' = call /\ (Goto(d, "raised") \/ Goto(d, "work"))
    BY <1>1, <1>4, <2>1, <2>3
  <2> QED BY <1>12, <2>2, <2>3 DEF Reject, FailJob, Step, Raise, Exit, NextJob, storeVars
<1>13. CASE StartTraining(d)
  <2>1. pc[d] = "work" /\ call' = call /\ (Goto(d, "train") \/ Goto(d, "raised"))
    BY <1>13 DEF StartTraining, renew_lease, Raise, Exit, storeVars
  <2> QED BY <1>1, <1>4, <2>1
<1>14. CASE FinishTraining(d)
  <2>1. pc[d] = "train" /\ call' = call /\ admitted' = admitted /\ Current(d) \in Jobs
    BY <1>14, PlaceTells DEF FinishTraining, storeVars
  <2>2. PICK o \in Outcomes :
          /\ Goto(d, AfterTraining(o))
          /\ returned' = [returned EXCEPT ![Current(d)] = IF o = "error" THEN @ ELSE @ \cup {o}]
    BY <1>14 DEF FinishTraining
  <2>3. CASE o = "error"
    <3>1. pc'[d] = "fail"
      BY <1>3, <2>2, <2>3 DEF AfterTraining
    <3> QED BY <1>1, <1>4a, <2>1, <3>1
  <2>4. CASE o # "error"
    <3>1. o \in returned'[Current(d)] /\ Current(d)' = Current(d)
      BY <2>1, <2>2, <2>4 DEF PlansAreKnown, Current
    <3> QED BY <1>1, <2>1, <3>1 DEF DaemonPlan, Executed
  <2> QED BY <2>3, <2>4
<1>15. CASE Complete(d)
  <2>1. pc[d] = "complete" /\ Current(d) \in Jobs /\ returned[Current(d)] # {}
    BY <1>15, PlaceTells DEF Complete, PlansAreKnown, Executed
  <2>2. CASE BeginTransition(d, Current(d), SUCCEEDED, 0) /\ Step(d, "completing")
    <3>1. call'[d] = Planned(Current(d), SUCCEEDED, 0)
      BY <1>2, <2>2 DEF BeginTransition
    <3>2. call'[d].to = SUCCEEDED /\ call'[d].job = Current(d)
      BY <3>1, PlannedFields
    <3>3. pc'[d] = "completing" /\ returned' = returned /\ Current(d)' = Current(d)
      BY <1>3, <2>2 DEF Step, Current
    <3> QED BY <2>1, <3>2, <3>3 DEF DaemonPlan, Executed
  <2>3. CASE call' = call /\ (Goto(d, "raised") \/ Goto(d, "work"))
    BY <1>1, <1>4, <2>1, <2>3
  <2> QED BY <1>15, <2>2, <2>3 DEF Complete, Report, Raise, Exit, NextJob, storeVars
<1>16. CASE Heartbeat(d)
  <2>1. UNCHANGED <<pc, call, admitted, returned>>
    BY <1>16 DEF Heartbeat, renew_lease, storeVars
  <2> QED BY <2>1 DEF PlansAreKnown, DaemonPlan, Executed, Current
<1>17. CASE Kill(d)
  <2>1. call'[d].op # "update" /\ Goto(d, "killed")
    BY <1>0, <1>6, <1>17 DEF Kill, Exit, Free, storeVars
  <2>2. pc'[d] = "killed"
    BY <1>3, <2>1
  <2> QED BY <1>4a, <2>1, <2>2
<1>18. CASE Restart(d)
  <2>1. pc[d] \in Dead /\ call' = call /\ Goto(d, "pass")
    BY <1>18 DEF Restart, Step, storeVars
  <2>2. pc'[d] = "pass"
    BY <1>3, <2>1
  <2> QED BY <1>1, <1>4a, <2>1, <2>2
<1> QED BY <1>7, <1>8, <1>9, <1>10, <1>11, <1>12, <1>13, <1>14, <1>15, <1>16, <1>17, <1>18
        DEF DaemonStep

\* An operator's request plans nothing else, and leaves the daemons alone.
LEMMA OperatorPlans ==
  ASSUME TypeOK, PlansAreKnown, \A j \in Jobs : state[j] = PAUSED => requests >= 1,
         NEW o \in Operators, RequestWrite(o) \/ \E j \in Jobs : Request(o, j)
  PROVE  /\ OperatorPlan(o)'
         /\ \A k \in Clients \ {o} : call'[k] = call[k]
         /\ UNCHANGED <<pc, admitted, returned>>
         /\ requests' \in Nat /\ requests' >= requests
<1>0. o \in Clients /\ Idle.op # "update" /\ requests \in Nat
  BY DEF Idle, PlansAreKnown
<1>1. ASSUME NEW u, call' = [call EXCEPT ![o] = u]
      PROVE  call'[o] = u /\ \A k \in Clients \ {o} : call'[k] = call[k]
  BY <1>0, <1>1 DEF TypeOK
<1>2. CASE RequestWrite(o)
  <2>1. call' = [call EXCEPT ![o] = Idle] /\ UNCHANGED <<pc, admitted, returned, requests>>
    BY <1>2 DEF RequestWrite, Update, UpdateConflict, daemonVars
  <2>2. call'[o] = Idle /\ \A k \in Clients \ {o} : call'[k] = call[k]
    BY <1>1, <2>1
  <2>3. OperatorPlan(o)'
    BY <1>0, <2>2 DEF OperatorPlan
  <2>4. requests' \in Nat /\ requests' >= requests
    BY <1>0, <2>1
  <2> QED BY <2>1, <2>2, <2>3, <2>4
<1>3. ASSUME NEW j \in Jobs, Request(o, j)
      PROVE  /\ OperatorPlan(o)'
             /\ \A k \in Clients \ {o} : call'[k] = call[k]
             /\ UNCHANGED <<pc, admitted, returned>>
             /\ requests' \in Nat /\ requests' >= requests
  <2>1. requests' = requests + 1 /\ UNCHANGED <<pc, admitted, returned>>
    BY <1>3 DEF Request, daemonVars
  <2>2. PICK s \in {PAUSED, PENDING, CANCELLED} :
          call' = [call EXCEPT ![o] = Planned(j, s, 0)] /\ (s = PENDING => state[j] = PAUSED)
    BY <1>3 DEF Request, BeginTransition, PAUSED, PENDING, CANCELLED
  <2>3. call'[o].to = s /\ \A k \in Clients \ {o} : call'[k] = call[k]
    <3>1. call'[o] = Planned(j, s, 0) /\ \A k \in Clients \ {o} : call'[k] = call[k]
      BY <1>1, <2>2
    <3> QED BY <3>1, PlannedFields
  <2>4. s = PENDING => requests' >= 2
    BY <1>0, <2>1, <2>2
  <2> QED BY <1>0, <2>1, <2>3, <2>4 DEF OperatorPlan
<1> QED BY <1>2, <1>3

\* The rest of the world plans nothing.
LEMMA WorldPlansNothing ==
  ASSUME (\E j \in Jobs : Submit(j) \/ LeaseRunsOut(j)) \/ UNCHANGED cpVars
  PROVE  UNCHANGED <<pc, admitted, returned, requests, call>>
BY DEF Submit, LeaseRunsOut, create, Expire, daemonVars, cpVars, storeVars

\* The daemons, or an operator, or the world.
LEMMA Actors ==
  ASSUME [Next]_cpVars
  PROVE  \/ \E d \in Daemons : DaemonStep(d) \/ Heartbeat(d) \/ Kill(d) \/ Restart(d)
         \/ \E o \in Operators : RequestWrite(o) \/ \E j \in Jobs : Request(o, j)
         \/ (\E j \in Jobs : Submit(j) \/ LeaseRunsOut(j)) \/ UNCHANGED cpVars
BY DEF Next

\* A plan stays known while others act: what was returned stays returned, and
\* requests are only counted up.
LEMMA PlansStay ==
  ASSUME PlansAreKnown, HoldsItsJob, TypeOK, requests' \in Nat, requests' >= requests,
         \A j \in Jobs : returned[j] \subseteq returned'[j]
  PROVE  /\ \A d \in Daemons : call'[d] = call[d] /\ pc'[d] = pc[d] /\ admitted'[d] = admitted[d]
                                 => DaemonPlan(d)' /\ Executed(d)'
         /\ \A o \in Operators : call'[o] = call[o] => OperatorPlan(o)'
<1>1. ASSUME NEW d \in Daemons, call'[d] = call[d], pc'[d] = pc[d], admitted'[d] = admitted[d]
      PROVE  DaemonPlan(d)' /\ Executed(d)'
  <2>1. call[d].op = "update" => call[d].job \in Jobs
    BY CallShape DEF Updates
  <2>2. DaemonPlan(d)'
    BY <1>1, <2>1 DEF PlansAreKnown, DaemonPlan
  <2>3. pc[d] \in Holding => Current(d) \in Jobs
    BY PlaceTells
  <2>4. Executed(d)'
    BY <1>1, <2>3 DEF PlansAreKnown, Executed, Current
  <2> QED BY <2>2, <2>4
<1>2. ASSUME NEW o \in Operators, call'[o] = call[o] PROVE OperatorPlan(o)'
  BY <1>2 DEF PlansAreKnown, OperatorPlan
<1> QED BY <1>1, <1>2

\* Every plan is known.
LEMMA PlansAreKnownNext ==
  ASSUME HoldsItsJob, TypeOK, PlansAreKnown, \A j \in Jobs : state[j] = PAUSED => requests >= 1,
         [Next]_cpVars
  PROVE  /\ PlansAreKnown' /\ requests' >= requests
         /\ \A j \in Jobs : returned[j] \subseteq returned'[j]
<1>0. requests \in Nat /\ returned \in [Jobs -> SUBSET Outcomes]
  BY DEF PlansAreKnown
<1>1. ASSUME NEW d \in Daemons, DaemonStep(d) \/ Heartbeat(d) \/ Kill(d) \/ Restart(d)
      PROVE  /\ PlansAreKnown' /\ requests' >= requests
             /\ \A j \in Jobs : returned[j] \subseteq returned'[j]
  <2>1. /\ returned' \in [Jobs -> SUBSET Outcomes]
        /\ \A j \in Jobs : returned[j] \subseteq returned'[j]
    BY <1>1, ReturnsStay
  <2>2. /\ \A k \in Clients \ {d} : call'[k] = call[k]
        /\ \A e \in Daemons \ {d} : pc'[e] = pc[e] /\ admitted'[e] = admitted[e]
        /\ requests' = requests
    BY <1>1, OtherClientsRest
  <2>3. DaemonPlan(d)' /\ Executed(d)'
    BY <1>1, DaemonPlans
  <2>4. \A e \in Daemons : DaemonPlan(e)' /\ Executed(e)'
    BY <1>0, <2>1, <2>2, <2>3, PlansStay
  <2>5. \A o \in Operators : OperatorPlan(o)'
    BY <1>0, <2>1, <2>2, PlansStay
  <2> QED BY <1>0, <2>1, <2>2, <2>4, <2>5 DEF PlansAreKnown
<1>2. ASSUME NEW o \in Operators, RequestWrite(o) \/ \E j \in Jobs : Request(o, j)
      PROVE  /\ PlansAreKnown' /\ requests' >= requests
             /\ \A j \in Jobs : returned[j] \subseteq returned'[j]
  <2>1. /\ OperatorPlan(o)'
        /\ \A k \in Clients \ {o} : call'[k] = call[k]
        /\ UNCHANGED <<pc, admitted, returned>>
        /\ requests' \in Nat /\ requests' >= requests
    BY <1>2, OperatorPlans
  <2>2. \A e \in Daemons : DaemonPlan(e)' /\ Executed(e)'
    BY <2>1, PlansStay
  <2>3. \A k \in Operators : OperatorPlan(k)'
    BY <2>1, PlansStay
  <2> QED BY <1>0, <2>1, <2>2, <2>3 DEF PlansAreKnown
<1>3. CASE UNCHANGED <<pc, admitted, returned, requests, call>>
  <2>1. \A e \in Daemons : DaemonPlan(e)' /\ Executed(e)'
    BY <1>0, <1>3, PlansStay
  <2>2. \A k \in Operators : OperatorPlan(k)'
    BY <1>0, <1>3, PlansStay
  <2> QED BY <1>0, <1>3, <2>1, <2>2 DEF PlansAreKnown
<1> QED BY <1>1, <1>2, <1>3, Actors, WorldPlansNothing

-----------------------------------------------------------------------------
(* What becomes of a job.                                                   *)

\* The table moves by an INSERT, by a claim, by a lease, or by a known plan.
LEMMA TableMoves ==
  ASSUME TypeOK, [StoreNext]_storeVars
  PROVE  \/ UNCHANGED <<state, lease, fails>>
         \/ \E j \in Jobs : create(j) \/ renew_lease(j) \/ Expire(j)
         \/ \E c \in Clients : Update(c)
         \/ \E c \in Clients, j \in Jobs : ClaimWon(c, j)
BY DEF StoreNext, storeVars, rowVars, UpdateConflict, Abandon, ReapSelect, transition, fail,
       ClaimLost, ReapNext, SelectPage

\* The states that the clients' plans lead to.
LEMMA PlannedStates ==
  ASSUME PlansAreKnown, NEW c \in Clients, call[c].op = "update"
  PROVE  call[c].to \in {PENDING, DEAD_LETTER, SUCCEEDED, PAUSED, CANCELLED}
BY DEF PlansAreKnown, DaemonPlan, OperatorPlan

\* Jobs are left where something finds them, and were executed if they SUCCEEDED.
LEMMA JobsAreKept ==
  ASSUME TypeOK, PlansAreKnown, NothingStranded, SucceededWasExecuted,
         [StoreNext]_storeVars, \A j \in Jobs : returned[j] \subseteq returned'[j]
  PROVE  NothingStranded' /\ SucceededWasExecuted'
<1> USE DEF PENDING, RUNNING, PAUSED, SUCCEEDED, FAILED, RETRYING, DEAD_LETTER, CANCELLED, ABSENT,
            NULL, LIVE, EXPIRED
<1> SUFFICES ASSUME NEW j \in Jobs
             PROVE  /\ state'[j] \notin {FAILED, RETRYING}
                    /\ state'[j] = RUNNING => lease'[j] # NULL
                    /\ state'[j] = SUCCEEDED => returned'[j] # {}
  BY DEF NothingStranded, SucceededWasExecuted
<1>0. /\ state[j] \notin {FAILED, RETRYING}
      /\ state[j] = RUNNING => lease[j] # NULL
      /\ state[j] = SUCCEEDED => returned[j] # {}
  BY DEF NothingStranded, SucceededWasExecuted
<1>1. CASE UNCHANGED <<state, lease>>
  BY <1>0, <1>1
<1>2. ASSUME NEW i \in Jobs, create(i) \/ renew_lease(i) \/ Expire(i)
      PROVE  \/ state'[j] = PENDING
             \/ state'[j] = state[j] /\ (lease'[j] = lease[j] \/ lease'[j] # NULL)
  BY <1>2 DEF create, renew_lease, Expire, Grant, TypeOK
<1>3. ASSUME NEW c \in Clients, Update(c)
      PROVE  \/ state'[j] = state[j] /\ lease'[j] = lease[j]
             \/ state'[j] \in {PENDING, DEAD_LETTER, PAUSED, CANCELLED}
             \/ state'[j] = SUCCEEDED /\ returned[j] # {}
  <2>1. call[c].op = "update" /\ call[c] \in Updates
    BY <1>3, CallShape DEF Update
  <2>2. /\ state' = [state EXCEPT ![call[c].job] = call[c].to]
        /\ lease' = [lease EXCEPT ![call[c].job] = NULL]
    BY <1>3 DEF Update, Release
  <2>3. CASE call[c].job # j
    BY <2>1, <2>2, <2>3 DEF TypeOK
  <2>4. CASE call[c].job = j
    <3>1. state'[j] = call[c].to
      BY <2>2, <2>4 DEF TypeOK
    <3>2. call[c].to = SUCCEEDED => returned[j] # {}
      BY <2>1, <2>4 DEF PlansAreKnown, DaemonPlan, OperatorPlan
    <3> QED BY <2>1, <3>1, <3>2, PlannedStates
  <2> QED BY <2>3, <2>4
<1>4. ASSUME NEW c \in Clients, NEW i \in Jobs, ClaimWon(c, i)
      PROVE  \/ state'[j] = state[j] /\ lease'[j] = lease[j]
             \/ state'[j] = RUNNING /\ lease'[j] = LIVE
  BY <1>4 DEF ClaimWon, Grant, TypeOK
<1> QED BY <1>0, <1>1, <1>2, <1>3, <1>4, TableMoves

-----------------------------------------------------------------------------
(* Who has which job.                                                       *)

\* The jobs daemon d has been handed and not yet finished.
Mine(d) == {admitted[d][i] : i \in DOMAIN admitted[d]}

\* A job may be with two daemons once it failed, or once an operator both
\* paused and resumed something.
Excused(j) == fails[j] > 0 \/ requests > 1

\* A job that is with a daemon is back in the queue, or with another daemon,
\* only if it is excused.
Accounting ==
  /\ \A j \in Jobs : state[j] = PAUSED => requests >= 1
  /\ \A d \in Daemons : \A j \in Mine(d) :
       state[j] # ABSENT /\ (state[j] = PENDING => Excused(j))
  /\ \A d, e \in Daemons : d # e => \A j \in Mine(d) \cap Mine(e) : Excused(j)

\* What is added to a list, dropped from it, and at its head.
LEMMA Lists ==
  ASSUME NEW s \in Seq(Jobs)
  PROVE  /\ \A j \in Jobs : {Append(s, j)[i] : i \in DOMAIN Append(s, j)}
                              \subseteq {s[i] : i \in DOMAIN s} \cup {j}
         /\ s # <<>> => /\ {Tail(s)[i] : i \in DOMAIN Tail(s)} \subseteq {s[i] : i \in DOMAIN s}
                        /\ Head(s) \in {s[i] : i \in DOMAIN s}
         /\ {s[i] : i \in DOMAIN s} \subseteq Jobs
OBVIOUS

\* How a daemon's list of jobs changes.
LEMMA ListMoves ==
  ASSUME HoldsItsJob, NEW d \in Daemons, DaemonStep(d) \/ Heartbeat(d) \/ Kill(d) \/ Restart(d)
  PROVE  \/ admitted' = admitted
         \/ admitted' = [admitted EXCEPT ![d] = <<>>]
         \/ admitted[d] # <<>> /\ admitted' = [admitted EXCEPT ![d] = Tail(admitted[d])]
         \/ \E j \in Jobs : /\ ClaimWon(d, j) /\ pc[d] \in {GPU, CPU}
                            /\ admitted' = [admitted EXCEPT ![d] = Append(admitted[d], j)]
<1>1. pc[d] \in Holding => admitted[d] # <<>>
  BY PlaceTells
<1>2. CASE ReapStart(d) \/ ReapGet(d) \/ ReapWrite(d) \/ Kill(d) \/ Restart(d)
  BY <1>2 DEF ReapStart, ReapGet, ReapWrite, Kill, Restart, Step, Raise, Exit
<1>3. CASE Count(d) \/ AdmitSelect(d) \/ AdmitTry(d) \/ AdmitDone(d) \/ PassDone(d)
  BY <1>3 DEF Count, AdmitSelect, AdmitTry, AdmitDone, PassDone, Step, daemonVars
<1>4. CASE Reject(d) \/ StartTraining(d) \/ FinishTraining(d) \/ Heartbeat(d)
  BY <1>4 DEF Reject, StartTraining, FinishTraining, Heartbeat, Step, Raise, Exit
<1>5. CASE RejectWrite(d) \/ Complete(d) \/ CompleteWrite(d) \/ FailJob(d) \/ FailWrite(d)
  BY <1>1, <1>5 DEF RejectWrite, Complete, CompleteWrite, FailJob, FailWrite, Report, NextJob,
     Step, Raise, Exit
<1> QED BY <1>2, <1>3, <1>4, <1>5 DEF DaemonStep

\* A daemon is handed a job by winning its claim, and in no other way.
LEMMA MineMoves ==
  ASSUME HoldsItsJob, TypeOK, PlansAreKnown,
         \A j \in Jobs : state[j] = PAUSED => requests >= 1, [Next]_cpVars
  PROVE  \/ \A d \in Daemons : Mine(d)' \subseteq Mine(d)
         \/ \E d \in Daemons, j \in Jobs : /\ ClaimWon(d, j)
                                           /\ Mine(d)' \subseteq Mine(d) \cup {j}
                                           /\ \A e \in Daemons \ {d} : Mine(e)' = Mine(e)
<1>1. ASSUME NEW d \in Daemons, DaemonStep(d) \/ Heartbeat(d) \/ Kill(d) \/ Restart(d)
      PROVE  \/ \A e \in Daemons : Mine(e)' \subseteq Mine(e)
             \/ \E j \in Jobs : /\ ClaimWon(d, j)
                                /\ Mine(d)' \subseteq Mine(d) \cup {j}
                                /\ \A e \in Daemons \ {d} : Mine(e)' = Mine(e)
  <2>1. \A e \in Daemons \ {d} : Mine(e)' = Mine(e)
    BY <1>1, OtherClientsRest DEF Mine
  <2>2. ASSUME NEW s, admitted' = [admitted EXCEPT ![d] = s] PROVE admitted'[d] = s
    BY <2>2 DEF HoldsItsJob
  <2>3. admitted[d] \in Seq(Jobs)
    BY DEF HoldsItsJob
  <2>4. CASE admitted' = admitted
    BY <2>4 DEF Mine
  <2>5. CASE admitted' = [admitted EXCEPT ![d] = <<>>]
    <3>1. admitted'[d] = <<>>
      BY <2>2, <2>5
    <3>2. Mine(d)' = {}
      BY <3>1 DEF Mine
    <3> QED BY <2>1, <3>2
  <2>6. CASE admitted[d] # <<>> /\ admitted' = [admitted EXCEPT ![d] = Tail(admitted[d])]
    <3>1. admitted'[d] = Tail(admitted[d])
      BY <2>2, <2>6
    <3>2. Mine(d)' \subseteq Mine(d)
      BY <2>3, <2>6, <3>1, Lists DEF Mine
    <3> QED BY <2>1, <3>2
  <2>7. ASSUME NEW j \in Jobs, ClaimWon(d, j),
               admitted' = [admitted EXCEPT ![d] = Append(admitted[d], j)]
        PROVE  Mine(d)' \subseteq Mine(d) \cup {j}
    BY <2>2, <2>3, <2>7, Lists DEF Mine
  <2> QED BY <1>1, <2>1, <2>4, <2>5, <2>6, <2>7, ListMoves
<1>2. CASE admitted' = admitted
  BY <1>2 DEF Mine
<1> QED BY <1>1, <1>2, Actors, OperatorPlans, WorldPlansNothing

\* Failures are never forgotten, so what is excused stays excused.
LEMMA ExcusesStay ==
  ASSUME TypeOK, PlansAreKnown, [StoreNext]_storeVars, requests' \in Nat, requests' >= requests,
         NEW j \in Jobs, Excused(j)
  PROVE  Excused(j)'
<1>1. fails[j] \in Nat /\ requests \in Nat
  BY DEF TypeOK, PlansAreKnown
<1>2. fails'[j] \in Nat /\ fails'[j] >= fails[j]
  <2>1. CASE fails' = fails
    BY <1>1, <2>1
  <2>2. ASSUME NEW c \in Clients, Update(c) PROVE fails'[j] \in Nat /\ fails'[j] >= fails[j]
    <3>1. call[c] \in Updates
      BY <2>2, CallShape DEF Update
    <3>2. fails' = [fails EXCEPT ![call[c].job] =
                      IF @ < MaxAttempts[call[c].job] THEN @ + call[c].bump ELSE @]
      BY <2>2 DEF Update, CountFailure
    <3>3. call[c].bump \in {0, 1}
      BY <3>1 DEF Updates
    <3>4. fails'[j] = fails[j] \/ fails'[j] = fails[j] + call[c].bump
      BY <3>2 DEF TypeOK
    <3> QED BY <1>1, <3>3, <3>4
  <2>3. ASSUME NEW i \in Jobs, create(i) \/ renew_lease(i) \/ Expire(i) PROVE fails' = fails
    BY <2>3 DEF create, renew_lease, Expire
  <2>4. ASSUME NEW c \in Clients, NEW i \in Jobs, ClaimWon(c, i) PROVE fails' = fails
    BY <2>4 DEF ClaimWon
  <2>5. fails' = fails \/ \E c \in Clients : Update(c)
    BY <2>3, <2>4, TableMoves
  <2> QED BY <2>1, <2>2, <2>5
<1> QED BY <1>1, <1>2 DEF Excused

\* A job goes back to the queue by a charged failure or by a resume.
LEMMA Requeues ==
  ASSUME TypeOK, PlansAreKnown, [StoreNext]_storeVars, requests' \in Nat, requests' >= requests,
         NEW j \in Jobs
  PROVE  /\ state[j] # ABSENT => state'[j] # ABSENT
         /\ state'[j] = PENDING => state[j] \in {ABSENT, PENDING} \/ Excused(j)'
         /\ state'[j] = PAUSED => state[j] = PAUSED \/ requests' >= 1
<1> USE DEF PENDING, RUNNING, PAUSED, SUCCEEDED, DEAD_LETTER, CANCELLED, ABSENT
<1>0. requests \in Nat /\ fails[j] \in Nat /\ MaxAttempts[j] \in Nat \ {0}
  BY MaxAttemptsAssumption DEF PlansAreKnown, TypeOK
<1>1. CASE state' = state
  BY <1>1
<1>2. ASSUME NEW i \in Jobs, create(i)
      PROVE  state'[j] = state[j] \/ (state[j] = ABSENT /\ state'[j] = PENDING)
  BY <1>2 DEF create, TypeOK
<1>3. ASSUME NEW c \in Clients, NEW i \in Jobs, ClaimWon(c, i)
      PROVE  state'[j] = state[j] \/ state'[j] = RUNNING
  BY <1>3 DEF ClaimWon, TypeOK
<1>4. ASSUME NEW c \in Clients, Update(c), call[c].job # j PROVE state'[j] = state[j]
  BY <1>4 DEF Update, TypeOK
<1>5. ASSUME NEW c \in Clients, Update(c), call[c].job = j
      PROVE  /\ state'[j] # ABSENT
             /\ state'[j] = PENDING => Excused(j)'
             /\ state'[j] = PAUSED => requests' >= 1
  <2>1. call[c].op = "update" /\ call[c] \in Updates
    BY <1>5, CallShape DEF Update
  <2>2. state'[j] = call[c].to
    BY <1>5 DEF Update, TypeOK
  <2>3. fails'[j] = IF fails[j] < MaxAttempts[j] THEN fails[j] + call[c].bump ELSE fails[j]
    BY <1>5 DEF Update, CountFailure, TypeOK
  <2>4. CASE c \in Daemons
    <3>1. \/ call[c].to \in {PENDING, DEAD_LETTER} /\ call[c].bump = 1
          \/ call[c].to = SUCCEEDED
      BY <2>1, <2>4 DEF PlansAreKnown, DaemonPlan
    <3>2. call[c].bump = 1 => fails'[j] > 0
      BY <1>0, <2>3
    <3> QED BY <2>2, <3>1, <3>2 DEF Excused
  <2>5. CASE c \in Operators
    <3>1. /\ call[c].to \in {PAUSED, PENDING, CANCELLED}
          /\ call[c].to = PAUSED => requests >= 1
          /\ call[c].to = PENDING => requests >= 2
      BY <2>1, <2>5 DEF PlansAreKnown, OperatorPlan
    <3> QED BY <1>0, <2>2, <3>1 DEF Excused
  <2> QED BY <2>4, <2>5
<1> QED BY <1>1, <1>2, <1>3, <1>4, <1>5, TableMoves DEF renew_lease, Expire

\* Every handover stays accounted for.
LEMMA AccountingNext ==
  ASSUME HoldsItsJob, TypeOK, PlansAreKnown, Accounting, [Next]_cpVars
  PROVE  Accounting'
<1>0. [StoreNext]_storeVars
  BY StepKeeps
<1>1. requests' \in Nat /\ requests' >= requests
  <2>1. PlansAreKnown' /\ requests' >= requests
    BY PlansAreKnownNext DEF Accounting
  <2> QED BY <2>1 DEF PlansAreKnown
<1>2. ASSUME NEW j \in Jobs, state'[j] = PAUSED PROVE requests' >= 1
  BY <1>0, <1>1, <1>2, Requeues DEF Accounting, PlansAreKnown
<1>3. ASSUME NEW d \in Daemons PROVE Mine(d) \subseteq Jobs
  BY Lists DEF Mine, HoldsItsJob
<1>4. ASSUME NEW d \in Daemons, NEW j \in Mine(d)
      PROVE  state'[j] # ABSENT /\ (state'[j] = PENDING => Excused(j)')
  <2>1. j \in Jobs
    BY <1>3
  <2>2. state[j] # ABSENT /\ (state[j] = PENDING => Excused(j))
    BY DEF Accounting
  <2> QED BY <1>0, <1>1, <2>1, <2>2, Requeues, ExcusesStay
<1>5. ASSUME NEW d \in Daemons, NEW e \in Daemons, d # e, NEW j \in Mine(d) \cap Mine(e)
      PROVE  Excused(j)'
  BY <1>0, <1>1, <1>3, <1>5, ExcusesStay DEF Accounting
<1>6. ASSUME NEW d \in Daemons, NEW j \in Jobs, ClaimWon(d, j)
      PROVE  /\ state'[j] # ABSENT /\ state'[j] # PENDING
             /\ \A e \in Daemons : j \in Mine(e) => Excused(j)'
  <2>1. state[j] = PENDING /\ state'[j] = RUNNING
    BY <1>6 DEF ClaimWon, Claimable, TypeOK
  <2>2. \A e \in Daemons : j \in Mine(e) => Excused(j)
    BY <2>1 DEF Accounting
  <2> QED BY <1>0, <1>1, <2>1, <2>2, ExcusesStay DEF RUNNING, PENDING, ABSENT
<1>7. \/ \A d \in Daemons : Mine(d)' \subseteq Mine(d)
      \/ \E d \in Daemons, j \in Jobs : /\ ClaimWon(d, j)
                                        /\ Mine(d)' \subseteq Mine(d) \cup {j}
                                        /\ \A e \in Daemons \ {d} : Mine(e)' = Mine(e)
  BY MineMoves DEF Accounting
<1>8. ASSUME NEW d \in Daemons, NEW j \in Mine(d)'
      PROVE  state'[j] # ABSENT /\ (state'[j] = PENDING => Excused(j)')
  BY <1>4, <1>6, <1>7
<1>9. ASSUME NEW d \in Daemons, NEW e \in Daemons, d # e, NEW j \in Mine(d)' \cap Mine(e)'
      PROVE  Excused(j)'
  BY <1>5, <1>6, <1>7, <1>9
<1> QED BY <1>2, <1>8, <1>9 DEF Accounting

\* The invariant of the running system.
ControlInv ==
  /\ HoldsItsJob /\ IInv
  /\ PlansAreKnown /\ NothingStranded /\ SucceededWasExecuted /\ Accounting

\* What the daemons, the scheduler and the API keep true between them, whatever
\* is killed, expires or is requested between any two statements.
THEOREM ControlInvariant == Spec => []ControlInv
<1>1. Init => ControlInv
  <2> SUFFICES ASSUME Init PROVE ControlInv
    OBVIOUS
  <2>1. HoldsItsJob /\ IInv
    BY InitIInv DEF Init, HoldsItsJob
  <2>2. PlansAreKnown
    BY DEF Init, StoreInit, PlansAreKnown, DaemonPlan, OperatorPlan, Executed, Idle
  <2>3. NothingStranded /\ SucceededWasExecuted
    BY DEF Init, StoreInit, NothingStranded, SucceededWasExecuted, ABSENT, FAILED, RETRYING,
       RUNNING, SUCCEEDED
  <2>4. \A d \in Daemons : Mine(d) = {}
    BY DEF Init, Mine
  <2>5. Accounting
    BY <2>4 DEF Init, StoreInit, Accounting, ABSENT, PAUSED
  <2> QED BY <2>1, <2>2, <2>3, <2>5 DEF ControlInv
<1>2. ControlInv /\ [Next]_cpVars => ControlInv'
  <2> SUFFICES ASSUME ControlInv, [Next]_cpVars PROVE ControlInv'
    OBVIOUS
  <2>1. HoldsItsJob /\ IInv /\ TypeOK /\ PlansAreKnown /\ Accounting
    BY DEF ControlInv, IInv
  <2>2. HoldsItsJob' /\ [StoreNext]_storeVars
    BY <2>1, StepKeeps
  <2>3. IInv'
    BY <2>1, <2>2, NextIInv
  <2>4. PlansAreKnown' /\ \A j \in Jobs : returned[j] \subseteq returned'[j]
    BY <2>1, PlansAreKnownNext DEF Accounting
  <2>5. NothingStranded' /\ SucceededWasExecuted'
    BY <2>1, <2>2, <2>4, JobsAreKept DEF ControlInv
  <2>6. Accounting'
    BY <2>1, AccountingNext
  <2> QED BY <2>2, <2>3, <2>4, <2>5, <2>6 DEF ControlInv
<1> QED BY <1>1, <1>2, PTL DEF Spec

\* No crash point of a daemon or a request leaves a job where nothing picks it
\* up: FAILED and RETRYING are never persisted, and a RUNNING job has a lease.
THEOREM NoJobIsStranded == Spec => []NothingStranded
BY ControlInvariant, PTL DEF ControlInv

\* complete() is only ever reached by a job that execute_training_job()
\* returned from, in whichever daemon that was.
THEOREM SuccessMeansExecution == Spec => []SucceededWasExecuted
BY ControlInvariant, PTL DEF ControlInv

\* Two daemons train the same job only after a failure charged to it or an
\* operator's pause and resume: claim_priority() alone never hands a job out
\* twice.
THEOREM OverlapsAreAccounted == Spec => []OverlapIsAccounted
<1>1. ControlInv => OverlapIsAccounted
  <2> SUFFICES ASSUME ControlInv, NEW d \in Daemons, NEW e \in Daemons, d # e, Training(d),
                      Training(e), Current(d) = Current(e)
               PROVE  Excused(Current(d))
    BY DEF OverlapIsAccounted, Excused
  <2>1. admitted[d] # <<>> /\ admitted[e] # <<>>
    BY DEF ControlInv, HoldsItsJob, Training
  <2>2. Current(d) \in Mine(d) /\ Current(e) \in Mine(e)
    BY <2>1, Lists DEF ControlInv, HoldsItsJob, Mine, Current
  <2> QED BY <2>2 DEF ControlInv, Accounting
<1> QED BY <1>1, ControlInvariant, PTL

-----------------------------------------------------------------------------
(* Admission control, while one daemon schedules.                           *)

\* The slots a daemon believes free are: what it counted is an upper bound of
\* what runs, since nobody else claims.
Room(d) ==
  /\ Cardinality(Running) + free[d].all <= MaxConcurrent
  /\ \A r \in {GPU, CPU} : Cardinality(Running \cap InResource(r)) + free[d][r] <= Slots[r]

\* What a pass believes to be free.
SlotType == [gpu : Int, cpu : Int, all : Int]

\* A claim is under way only where the daemon has room for it.
ClaimsHaveRoom(d) ==
  /\ \A o \in Operators : call[o].op # "claim"
  /\ call[d].op = "claim" => /\ pc[d] \in {GPU, CPU} /\ HasRoom(d, pc[d])
                             /\ call[d].rows \subseteq InResource(pc[d])

\* SlotCapacity is kept because a lone daemon claims only within the room it
\* counted, and nobody else claims.
Capacity(d) ==
  /\ free \in [Daemons -> SlotType]
  /\ ClaimsHaveRoom(d)
  /\ pc[d] \in {GPU, CPU} => Room(d)
  /\ SlotCapacity

\* The RUNNING jobs are finitely many, and fewer are not more.
LEMMA FewerRun ==
  ASSUME NEW S
  PROVE  /\ IsFiniteSet(Running \cap S) /\ Cardinality(Running \cap S) \in Nat
         /\ IsFiniteSet(Running) /\ Cardinality(Running) \in Nat
         /\ Cardinality(Running') \in Nat /\ Cardinality(Running' \cap S) \in Nat
         /\ Running' \subseteq Running =>
              /\ Cardinality(Running') <= Cardinality(Running)
              /\ Cardinality(Running' \cap S) <= Cardinality(Running \cap S)
<1>1. Running \subseteq Jobs /\ Running' \subseteq Jobs
  BY DEF Running
<1>2. IsFiniteSet(Running) /\ IsFiniteSet(Running')
  BY <1>1, JobsAssumption, FS_Subset
<1>3. IsFiniteSet(Running \cap S) /\ IsFiniteSet(Running' \cap S)
  BY <1>2, FS_Subset
<1>4. Running' \subseteq Running => Running' \cap S \subseteq Running \cap S
  OBVIOUS
<1> QED BY <1>2, <1>3, <1>4, FS_Subset, FS_CardinalityType

\* One more job runs after a claim.
LEMMA OneMoreRuns ==
  ASSUME TypeOK, NEW c \in Clients, NEW j \in Jobs, ClaimWon(c, j), NEW S
  PROVE  /\ Cardinality(Running') = Cardinality(Running) + 1
         /\ j \in S => Cardinality(Running' \cap S) = Cardinality(Running \cap S) + 1
         /\ j \notin S => Cardinality(Running' \cap S) = Cardinality(Running \cap S)
<1>1. Running' = Running \cup {j}
  BY DEF ClaimWon, Running, TypeOK
<1>2. j \notin Running
  BY DEF ClaimWon, Claimable, Running, PENDING, RUNNING
<1>3. Cardinality(Running \cup {j}) = Cardinality(Running) + 1
  BY <1>2, FewerRun, FS_AddElement
<1>6. /\ Cardinality(Running') = Cardinality(Running) + 1
      /\ Cardinality(Running) \in Nat /\ Cardinality(Running \cap S) \in Nat
  BY <1>1, <1>3, FewerRun
<1>4. CASE j \in S
  <2>1. Running' \cap S = (Running \cap S) \cup {j} /\ j \notin Running \cap S
    BY <1>1, <1>2, <1>4
  <2>2. Cardinality((Running \cap S) \cup {j}) = Cardinality(Running \cap S) + 1
    BY <2>1, FewerRun, FS_AddElement
  <2>3. Cardinality(Running' \cap S) = Cardinality(Running \cap S) + 1
    BY <2>1, <2>2
  <2> QED BY <1>4, <1>6, <2>3
<1>5. CASE j \notin S
  <2>1. Running' \cap S = Running \cap S
    BY <1>1, <1>5
  <2>2. Cardinality(Running' \cap S) = Cardinality(Running \cap S)
    BY <2>1
  <2> QED BY <1>5, <1>6, <2>2
<1> QED BY <1>4, <1>5

\* A record of slots with one field changed is a record of slots.
LEMMA SlotChanged ==
  ASSUME NEW s \in SlotType, NEW r \in {GPU, CPU}, NEW x \in Int
  PROVE  [s EXCEPT ![r] = x] \in SlotType /\ [s EXCEPT !.all = x] \in SlotType
<1>1. [s EXCEPT !.all = x] \in SlotType
  BY DEF SlotType
<1>2. CASE r = GPU
  BY <1>1, <1>2 DEF SlotType, GPU
<1>3. CASE r = CPU
  BY <1>1, <1>3 DEF SlotType, CPU
<1> QED BY <1>2, <1>3

\* Taking a slot of r takes one of r and one of all.
LEMMA SlotTaken ==
  ASSUME free \in [Daemons -> SlotType], NEW d \in Daemons, NEW r \in {GPU, CPU}, TakeSlot(d, r)
  PROVE  /\ free' \in [Daemons -> SlotType]
         /\ free'[d].all = free[d].all - 1
         /\ free'[d][r] = free[d][r] - 1
         /\ \A q \in {GPU, CPU} \ {r} : free'[d][q] = free[d][q]
<1> DEFINE s == [free[d] EXCEPT ![r] = free[d][r] - 1]
           t == [s EXCEPT !.all = free[d].all - 1]
<1>1. free[d] \in SlotType /\ free[d][r] - 1 \in Int /\ free[d].all - 1 \in Int
  BY DEF SlotType, GPU, CPU
<1>2. s \in SlotType
  BY <1>1, SlotChanged
<1>3. free' = [free EXCEPT ![d] = t]
  BY DEF TakeSlot
<1>4. /\ free'[d].all = free[d].all - 1
      /\ free'[d][r] = free[d][r] - 1
      /\ \A q \in {GPU, CPU} \ {r} : free'[d][q] = free[d][q]
  BY DEF TakeSlot, SlotType, GPU, CPU
<1> HIDE DEF s
<1>5. t \in SlotType
  BY <1>1, <1>2, SlotChanged
<1> HIDE DEF t
<1>6. free' \in [Daemons -> SlotType]
  BY <1>3, <1>5
<1> QED BY <1>4, <1>6

\* A job starts to run by AdmitTry() and in no other way.
LEMMA RunningMoves ==
  ASSUME TypeOK, PlansAreKnown, [Next]_cpVars
  PROVE  \/ Running' \subseteq Running
         \/ \E d \in Daemons, j \in Jobs : /\ ClaimWon(d, j) /\ pc[d] \in {GPU, CPU}
                                           /\ TakeSlot(d, pc[d]) /\ pc' = pc
<1> USE DEF storeVars, rowVars
<1>1. ASSUME NEW c \in Clients, Update(c) PROVE Running' \subseteq Running
  <2>1. call[c].op = "update" /\ call[c] \in Updates
    BY <1>1, CallShape DEF Update
  <2>2. call[c].to # RUNNING
    BY <2>1, PlannedStates
    DEF PENDING, DEAD_LETTER, SUCCEEDED, PAUSED, CANCELLED, RUNNING
  <2>3. state' = [state EXCEPT ![call[c].job] = call[c].to]
    BY <1>1 DEF Update
  <2> QED BY <2>2, <2>3 DEF Running, TypeOK
<1>2. ASSUME NEW j \in Jobs, create(j) PROVE Running' \subseteq Running
  BY <1>2 DEF create, Running, PENDING, RUNNING, TypeOK
<1>3. CASE state' = state
  BY <1>3 DEF Running
<1>4. ASSUME NEW d \in Daemons, DaemonStep(d) \/ Heartbeat(d) \/ Kill(d) \/ Restart(d)
      PROVE  \/ state' = state \/ Update(d)
             \/ \E j \in Jobs : /\ ClaimWon(d, j) /\ pc[d] \in {GPU, CPU}
                                /\ TakeSlot(d, pc[d]) /\ pc' = pc
  <2>1. CASE ReapStart(d) \/ ReapGet(d) \/ ReapWrite(d) \/ Kill(d) \/ Restart(d)
    BY <2>1 DEF ReapStart, ReapGet, ReapWrite, Kill, Restart, ReapSelect, ReapNext, Abandon,
       UpdateConflict
  <2>2. CASE Count(d) \/ AdmitSelect(d) \/ AdmitTry(d) \/ AdmitDone(d) \/ PassDone(d)
    BY <2>2 DEF Count, AdmitSelect, AdmitTry, AdmitDone, PassDone, SelectPage, ClaimLost
  <2>3. CASE Reject(d) \/ StartTraining(d) \/ FinishTraining(d) \/ Heartbeat(d)
    BY <2>3 DEF Reject, StartTraining, FinishTraining, Heartbeat, fail, renew_lease
  <2>4. CASE RejectWrite(d) \/ Complete(d) \/ CompleteWrite(d) \/ FailJob(d) \/ FailWrite(d)
    BY <2>4 DEF RejectWrite, Complete, CompleteWrite, FailJob, FailWrite, fail, UpdateConflict
  <2> QED BY <1>4, <2>1, <2>2, <2>3, <2>4 DEF DaemonStep
<1>5. ASSUME NEW o \in Operators, RequestWrite(o) \/ \E j \in Jobs : Request(o, j)
      PROVE  state' = state \/ Update(o)
  BY <1>5 DEF RequestWrite, UpdateConflict, Request
<1>6. ASSUME NEW j \in Jobs, Submit(j) \/ LeaseRunsOut(j) PROVE state' = state \/ create(j)
  BY <1>6 DEF Submit, LeaseRunsOut, Expire
<1>7. UNCHANGED cpVars => state' = state
  BY DEF cpVars
<1> QED BY <1>1, <1>2, <1>3, <1>4, <1>5, <1>6, <1>7, Actors

\* Outside Count() and the admissions a daemon starts no claim, enters no
\* admission loop from elsewhere, and at most forgets its slots.
LEMMA SlotsMove ==
  ASSUME HoldsItsJob, TypeOK, NEW d \in Daemons, ClaimsHaveRoom(d),
         DaemonStep(d) \/ Heartbeat(d) \/ Kill(d) \/ Restart(d)
  PROVE  \/ Count(d) \/ AdmitSelect(d) \/ AdmitTry(d)
         \/ UNCHANGED <<pc, free, call>>
         \/ /\ call'[d].op # "claim"
            /\ free' = free \/ free' = [free EXCEPT ![d] = NoSlots]
            /\ pc'[d] \in {GPU, CPU} => free' = free /\ pc[d] \in {GPU, CPU}
<1>0. d \in Clients /\ Idle.op # "claim" /\ pc \in [Daemons -> Labels]
  BY ClientsAssumption DEF Idle, HoldsItsJob
<1>1. ASSUME NEW u, call' = [call EXCEPT ![d] = u] PROVE call'[d] = u
  BY <1>0, <1>1 DEF TypeOK
<1>2. ASSUME NEW l, Goto(d, l) PROVE pc'[d] = l
  BY <1>0, <1>2 DEF Goto
<1>3. ASSUME NEW j, NEW dst, NEW b, call' = [call EXCEPT ![d] = Planned(j, dst, b)]
      PROVE  call'[d].op # "claim"
  <2>1. call'[d] = Planned(j, dst, b)
    BY <1>1, <1>3
  <2>2. Planned(j, dst, b).op = "update"
    BY DEF Planned
  <2> QED BY <2>1, <2>2
<1>4. ASSUME call' = [call EXCEPT ![d] = Idle] PROVE call'[d].op # "claim"
  BY <1>0, <1>1, <1>4
<1>5. ASSUME call' = call, pc[d] \notin {GPU, CPU} PROVE call'[d].op # "claim"
  BY <1>5 DEF ClaimsHaveRoom
<1>6. ASSUME NEW l, Step(d, l), l \notin {GPU, CPU}
      PROVE  free' = free /\ pc'[d] \notin {GPU, CPU}
  BY <1>2, <1>6 DEF Step
<1>7. ASSUME Raise(d) \/ NextJob(d)
      PROVE  /\ free' = free \/ free' = [free EXCEPT ![d] = NoSlots]
             /\ pc'[d] \notin {GPU, CPU}
  BY <1>2, <1>7 DEF Raise, Exit, NextJob, GPU, CPU
<1>8. CASE ReapStart(d)
  <2>1. call' = call /\ (Step(d, "reap") \/ Step(d, "count"))
    BY <1>8 DEF ReapStart, ReapSelect, storeVars
  <2> QED BY <1>5, <1>6, <1>8, <2>1 DEF ReapStart, GPU, CPU
<1>9. CASE ReapGet(d)
  <2>1. PICK j \in reaping[d] : \/ ReapNext(d, j) /\ Step(d, "reaping")
                                \/ Abandon(d) /\ Raise(d)
    BY <1>9 DEF ReapGet
  <2>2. call'[d].op # "claim"
    BY <1>3, <1>4, <2>1 DEF ReapNext, BeginFail, Abandon
  <2> QED BY <1>6, <1>7, <2>1, <2>2 DEF GPU, CPU
<1>10. CASE ReapWrite(d) \/ RejectWrite(d) \/ CompleteWrite(d) \/ FailWrite(d)
  <2>1. call'[d].op # "claim"
    BY <1>4, <1>10 DEF ReapWrite, RejectWrite, CompleteWrite, FailWrite, Update, UpdateConflict
  <2>2. \/ Step(d, "count") \/ Step(d, "reap")
        \/ Raise(d) \/ NextJob(d)
    BY <1>10 DEF ReapWrite, RejectWrite, CompleteWrite, FailWrite, Report
  <2> QED BY <1>6, <1>7, <2>1, <2>2 DEF GPU, CPU
<1>11. CASE AdmitDone(d)
  <2>1. call'[d].op # "claim" /\ free' = free
    BY <1>0, <1>11 DEF AdmitDone, Free, Step, storeVars
  <2> QED BY <1>11, <2>1 DEF AdmitDone
<1>12. CASE PassDone(d)
  <2>1. call'[d].op # "claim"
    BY <1>5, <1>12 DEF PassDone, GPU, CPU, storeVars
  <2> QED BY <1>2, <1>12, <2>1 DEF PassDone, GPU, CPU
<1>13. CASE Reject(d) \/ FailJob(d)
  <2>1. \/ /\ call' = [call EXCEPT ![d] = Planned(Current(d), FailTarget(Current(d)), 1)]
           /\ Step(d, "rejecting") \/ Step(d, "failing")
        \/ call' = call /\ pc[d] \notin {GPU, CPU} /\ (Raise(d) \/ NextJob(d))
    BY <1>13 DEF Reject, FailJob, fail, BeginFail, storeVars, GPU, CPU
  <2> QED BY <1>3, <1>5, <1>6, <1>7, <2>1 DEF GPU, CPU
<1>14. CASE StartTraining(d)
  <2>1. /\ call' = call /\ pc[d] \notin {GPU, CPU}
        /\ (free' = free /\ Goto(d, "train")) \/ Raise(d)
    BY <1>14 DEF StartTraining, renew_lease, storeVars, GPU, CPU
  <2> QED BY <1>2, <1>5, <1>7, <2>1 DEF GPU, CPU
<1>15. CASE FinishTraining(d)
  <2>1. PICK o \in Outcomes : Goto(d, AfterTraining(o))
    BY <1>15 DEF FinishTraining
  <2>2. pc'[d] = AfterTraining(o)
    BY <1>2, <2>1
  <2>3. pc'[d] \notin {GPU, CPU}
    BY <2>2 DEF AfterTraining, GPU, CPU
  <2> QED BY <1>5, <1>15, <2>3 DEF FinishTraining, GPU, CPU, storeVars
<1>16. CASE Complete(d)
  <2>1. \/ /\ call' = [call EXCEPT ![d] = Planned(Current(d), SUCCEEDED, 0)]
           /\ Step(d, "completing")
        \/ call' = call /\ pc[d] \notin {GPU, CPU} /\ (Raise(d) \/ NextJob(d))
    BY <1>16 DEF Complete, BeginTransition, Report, storeVars, GPU, CPU
  <2> QED BY <1>3, <1>5, <1>6, <1>7, <2>1 DEF GPU, CPU
<1>17. CASE Heartbeat(d)
  BY <1>17 DEF Heartbeat, renew_lease, storeVars
<1>18. CASE Kill(d)
  <2>1. call'[d].op # "claim"
    BY <1>0, <1>4, <1>18 DEF Kill, Abandon, Free, storeVars
  <2> QED BY <1>2, <1>18, <2>1 DEF Kill, Exit, GPU, CPU
<1>19. CASE Restart(d)
  BY <1>5, <1>6, <1>19 DEF Restart, Dead, storeVars, GPU, CPU
<1> QED BY <1>8, <1>9, <1>10, <1>11, <1>12, <1>13, <1>14, <1>15, <1>16, <1>17, <1>18, <1>19
        DEF DaemonStep

\* Nobody else claims, and nobody else touches the daemon's place or slots.
LEMMA OthersClaimNothing ==
  ASSUME TypeOK, NEW d \in Daemons, ClaimsHaveRoom(d),
         \/ \E o \in Operators : RequestWrite(o) \/ \E j \in Jobs : Request(o, j)
         \/ (\E j \in Jobs : Submit(j) \/ LeaseRunsOut(j)) \/ UNCHANGED cpVars
  PROVE  /\ UNCHANGED <<pc, free>> /\ call'[d] = call[d]
         /\ \A o \in Operators : call'[o].op # "claim"
<1>1. ASSUME NEW o \in Operators, RequestWrite(o) \/ \E j \in Jobs : Request(o, j)
      PROVE  /\ UNCHANGED <<pc, free>> /\ call'[o].op # "claim"
             /\ \A k \in Clients \ {o} : call'[k] = call[k]
  <2>1. o \in Clients
    BY ClientsAssumption
  <2>2. PICK u : call' = [call EXCEPT ![o] = u] /\ u.op # "claim"
    <3>1. Idle.op # "claim" /\ \A j, dst, b : Planned(j, dst, b).op # "claim"
      BY DEF Idle, Planned
    <3>2. RequestWrite(o) => call' = [call EXCEPT ![o] = Idle]
      BY DEF RequestWrite, Update, UpdateConflict
    <3>3. ASSUME NEW j \in Jobs, Request(o, j)
          PROVE  \E dst : call' = [call EXCEPT ![o] = Planned(j, dst, 0)]
      BY <3>3 DEF Request, BeginTransition
    <3> QED BY <1>1, <3>1, <3>2, <3>3
  <2>3. call'[o] = u /\ \A k \in Clients \ {o} : call'[k] = call[k]
    BY <2>1, <2>2 DEF TypeOK
  <2> QED BY <1>1, <2>2, <2>3 DEF RequestWrite, Request, daemonVars
<1>2. CASE (\E j \in Jobs : Submit(j) \/ LeaseRunsOut(j)) \/ UNCHANGED cpVars
  <2>1. UNCHANGED <<pc, free, call>>
    BY <1>2 DEF Submit, LeaseRunsOut, create, Expire, daemonVars, cpVars, storeVars
  <2> QED BY <2>1 DEF ClaimsHaveRoom
<1>3. \A o \in Operators : o # d /\ o \in Clients /\ d \in Clients
  BY ClientsAssumption
<1> QED BY <1>1, <1>2, <1>3 DEF ClaimsHaveRoom

\* No step but a claim takes room: what a daemon counted stays an upper bound.
LEMMA RoomStays ==
  ASSUME NEW d \in Daemons, free \in [Daemons -> SlotType], SlotCapacity,
         Running' \subseteq Running
  PROVE  /\ SlotCapacity'
         /\ Room(d) /\ free' = free => Room(d)'
<1>1. Cardinality(Running') <= Cardinality(Running)
  BY FewerRun
<1>2. \A r : Cardinality(Running' \cap InResource(r)) <= Cardinality(Running \cap InResource(r))
  BY FewerRun
<1>3. /\ Cardinality(Running) \in Nat /\ Cardinality(Running') \in Nat
      /\ \A r : /\ Cardinality(Running \cap InResource(r)) \in Nat
                /\ Cardinality(Running' \cap InResource(r)) \in Nat
  BY FewerRun
<1>4. free[d].all \in Int /\ free[d][GPU] \in Int /\ free[d][CPU] \in Int
  BY DEF SlotType, GPU, CPU
<1>5. MaxConcurrent \in Nat /\ Slots[GPU] \in Nat /\ Slots[CPU] \in Nat
  BY ConfigAssumption
<1>6. SlotCapacity'
  <2>1. Cardinality(Running') <= MaxConcurrent
    <3>1. Cardinality(Running) <= MaxConcurrent
      BY DEF SlotCapacity
    <3> QED BY <1>1, <1>3, <1>5, <3>1
  <2>2. ASSUME NEW r \in {GPU, CPU}
        PROVE  Cardinality(Running' \cap InResource(r)) <= Slots[r]
    <3>1. Cardinality(Running \cap InResource(r)) <= Slots[r]
      BY DEF SlotCapacity
    <3>2. Slots[r] \in Nat
      BY <1>5
    <3> QED BY <1>2, <1>3, <3>1, <3>2
  <2> QED BY <2>1, <2>2 DEF SlotCapacity
<1>7. ASSUME Room(d), free' = free PROVE Room(d)'
  <2>1. Cardinality(Running') + free'[d].all <= MaxConcurrent
    BY <1>1, <1>3, <1>4, <1>5, <1>7 DEF Room
  <2>2. ASSUME NEW r \in {GPU, CPU}
        PROVE  Cardinality(Running' \cap InResource(r)) + free'[d][r] <= Slots[r]
    <3>1. free[d][r] \in Int /\ Slots[r] \in Nat
      BY <1>4, <1>5
    <3>2. Cardinality(Running \cap InResource(r)) + free[d][r] <= Slots[r]
      BY <1>7 DEF Room
    <3>3. Cardinality(Running' \cap InResource(r)) + free[d][r] <= Slots[r]
      BY <1>2, <1>3, <3>1, <3>2
    <3> QED BY <1>7, <3>3
  <2> QED BY <2>1, <2>2 DEF Room
<1> QED BY <1>6, <1>7

\* A claim of an admitted job is within the slots its daemon counted.
LEMMA AdmissionFits ==
  ASSUME TypeOK, NEW d \in Daemons, Capacity(d), NEW j \in Jobs, ClaimWon(d, j),
         pc[d] \in {GPU, CPU}, TakeSlot(d, pc[d])
  PROVE  free' \in [Daemons -> SlotType] /\ Room(d)' /\ SlotCapacity'
<1> DEFINE r == pc[d]
<1>0. d \in Clients /\ call[d].op = "claim"
  BY ClientsAssumption DEF ClaimWon
<1>1. HasRoom(d, r) /\ j \in InResource(r) /\ Room(d)
  BY <1>0 DEF Capacity, ClaimsHaveRoom, ClaimWon, IsFirst
<1>2. /\ free' \in [Daemons -> SlotType]
      /\ free'[d].all = free[d].all - 1
      /\ free'[d][r] = free[d][r] - 1
      /\ \A q \in {GPU, CPU} \ {r} : free'[d][q] = free[d][q]
  BY SlotTaken DEF Capacity
<1>3. Cardinality(Running') = Cardinality(Running) + 1
  BY <1>0, OneMoreRuns
<1>4. \A q : /\ j \in InResource(q) =>
                  Cardinality(Running' \cap InResource(q)) = Cardinality(Running \cap InResource(q)) + 1
             /\ j \notin InResource(q) =>
                  Cardinality(Running' \cap InResource(q)) = Cardinality(Running \cap InResource(q))
  BY <1>0, OneMoreRuns
<1>5. /\ Cardinality(Running) \in Nat
      /\ \A q : Cardinality(Running \cap InResource(q)) \in Nat
  BY FewerRun
<1>6. /\ free[d].all \in Int /\ \A q \in {GPU, CPU} : free[d][q] \in Int
  BY DEF SlotType, GPU, CPU, Capacity
<1>7. MaxConcurrent \in Nat /\ \A q \in {GPU, CPU} : Slots[q] \in Nat
  BY ConfigAssumption
<1>8. \A q \in {GPU, CPU} \ {r} : j \notin InResource(q)
  BY <1>1 DEF InResource
<1>9. /\ Cardinality(Running') + free'[d].all <= MaxConcurrent
      /\ Cardinality(Running') <= MaxConcurrent
  BY <1>1, <1>2, <1>3, <1>5, <1>6, <1>7 DEF Room, HasRoom
<1>10. ASSUME NEW q \in {GPU, CPU}
       PROVE  /\ Cardinality(Running' \cap InResource(q)) + free'[d][q] <= Slots[q]
              /\ Cardinality(Running' \cap InResource(q)) <= Slots[q]
  <2>1. CASE q = r
    BY <1>1, <1>2, <1>4, <1>5, <1>6, <1>7, <2>1 DEF Room, HasRoom
  <2>2. CASE q # r
    <3>1. Cardinality(Running' \cap InResource(q)) = Cardinality(Running \cap InResource(q))
      BY <1>4, <1>8, <2>2
    <3>2. free'[d][q] = free[d][q]
      BY <1>2, <2>2
    <3> QED BY <1>1, <3>1, <3>2 DEF Room, Capacity, SlotCapacity
  <2> QED BY <2>1, <2>2
<1> QED BY <1>2, <1>9, <1>10 DEF Room, SlotCapacity

\* Count() leaves the daemon with the slots that nothing running occupies.
LEMMA CountIsExact ==
  ASSUME NEW d \in Daemons, free \in [Daemons -> SlotType], Count(d)
  PROVE  free' \in [Daemons -> SlotType] /\ Room(d)'
<1>1. /\ Cardinality(Running) \in Nat
      /\ \A q : Cardinality(Running \cap InResource(q)) \in Nat
  BY FewerRun
<1>2. MaxConcurrent \in Nat /\ Slots[GPU] \in Nat /\ Slots[CPU] \in Nat
  BY ConfigAssumption
<1>3. Running' = Running
  BY DEF Count, Running, storeVars, rowVars
<1> DEFINE v == [gpu |-> FreeSlots(GPU), cpu |-> FreeSlots(CPU),
                 all |-> MaxConcurrent - Cardinality(Running)]
<1>4. FreeSlots(GPU) \in Int /\ FreeSlots(CPU) \in Int /\ MaxConcurrent - Cardinality(Running) \in Int
  BY <1>1, <1>2 DEF FreeSlots
<1>5. v \in SlotType /\ free' = [free EXCEPT ![d] = v]
  BY <1>4 DEF Count, SlotType
<1>6. free' \in [Daemons -> SlotType] /\ free'[d] = v
  BY <1>5
<1>7. /\ free'[d][GPU] = FreeSlots(GPU) /\ free'[d][CPU] = FreeSlots(CPU)
      /\ free'[d].all = MaxConcurrent - Cardinality(Running)
  BY <1>6 DEF GPU, CPU
<1>8. Cardinality(Running) + (MaxConcurrent - Cardinality(Running)) <= MaxConcurrent
  BY <1>1, <1>2
<1>9. \A r \in {GPU, CPU} : Cardinality(Running \cap InResource(r)) + FreeSlots(r) <= Slots[r]
  BY <1>1, <1>2 DEF FreeSlots
<1> HIDE DEF v
<1> QED BY <1>3, <1>6, <1>7, <1>8, <1>9 DEF Room

\* The invariant of admission control is inductive while d alone schedules.
LEMMA CapacityNext ==
  ASSUME HoldsItsJob, TypeOK, PlansAreKnown, NEW d \in Daemons, Daemons = {d}, Capacity(d),
         [Next]_cpVars
  PROVE  Capacity(d)'
<1>0. /\ free \in [Daemons -> SlotType] /\ ClaimsHaveRoom(d) /\ SlotCapacity
      /\ pc[d] \in {GPU, CPU} => Room(d)
      /\ d \in Clients /\ \A o \in Operators : o \in Clients /\ o # d
  BY ClientsAssumption DEF Capacity
<1>1. NoSlots \in SlotType
  BY DEF NoSlots, SlotType
<1>2. ASSUME NEW j \in Jobs, ClaimWon(d, j), pc[d] \in {GPU, CPU}, TakeSlot(d, pc[d]), pc' = pc
      PROVE  Capacity(d)'
  <2>1. free' \in [Daemons -> SlotType] /\ Room(d)' /\ SlotCapacity'
    BY <1>2, AdmissionFits
  <2>2. call'[d].op # "claim" /\ \A o \in Operators : call'[o] = call[o]
    BY <1>0, <1>2 DEF ClaimWon, TypeOK, Idle
  <2>3. ClaimsHaveRoom(d)'
    BY <1>0, <2>2 DEF ClaimsHaveRoom
  <2> QED BY <2>1, <2>3 DEF Capacity
<1>3. CASE Running' \subseteq Running
  <2>0. SlotCapacity' /\ (Room(d) /\ free' = free => Room(d)')
    BY <1>0, <1>3, RoomStays
  <2>1. ASSUME \/ \E o \in Operators : RequestWrite(o) \/ \E j \in Jobs : Request(o, j)
               \/ (\E j \in Jobs : Submit(j) \/ LeaseRunsOut(j)) \/ UNCHANGED cpVars
        PROVE  Capacity(d)'
    <3>1. /\ UNCHANGED <<pc, free>> /\ call'[d] = call[d]
          /\ \A o \in Operators : call'[o].op # "claim"
      BY <1>0, <2>1, OthersClaimNothing
    <3>2. ClaimsHaveRoom(d)'
      BY <1>0, <3>1 DEF ClaimsHaveRoom, HasRoom
    <3> QED BY <1>0, <2>0, <3>1, <3>2 DEF Capacity
  <2>2. ASSUME DaemonStep(d) \/ Heartbeat(d) \/ Kill(d) \/ Restart(d)
        PROVE  Capacity(d)'
    <3>1. \A o \in Operators : call'[o] = call[o]
      BY <1>0, <2>2, OtherClientsRest
    <3>2. ASSUME \/ UNCHANGED <<pc, free, call>>
                 \/ /\ call'[d].op # "claim"
                    /\ free' = free \/ free' = [free EXCEPT ![d] = NoSlots]
                    /\ pc'[d] \in {GPU, CPU} => free' = free /\ pc[d] \in {GPU, CPU}
          PROVE  Capacity(d)'
      <4>1. free' \in [Daemons -> SlotType]
        BY <1>0, <1>1, <3>2
      <4>2. ClaimsHaveRoom(d)'
        BY <1>0, <3>1, <3>2 DEF ClaimsHaveRoom, HasRoom
      <4>3. pc'[d] \in {GPU, CPU} => Room(d)'
        BY <1>0, <2>0, <3>2
      <4> QED BY <2>0, <4>1, <4>2, <4>3 DEF Capacity
    <3>3. CASE Count(d)
      <4>1. free' \in [Daemons -> SlotType] /\ Room(d)'
        BY <1>0, <3>3, CountIsExact
      <4>2. call[d].op # "claim" /\ call' = call
        BY <1>0, <3>3 DEF Count, ClaimsHaveRoom, GPU, CPU, storeVars
      <4>3. ClaimsHaveRoom(d)'
        BY <1>0, <4>2 DEF ClaimsHaveRoom
      <4> QED BY <2>0, <4>1, <4>3 DEF Capacity
    <3>4. CASE AdmitSelect(d)
      <4> DEFINE P == Page("priority", Pending(InResource(pc[d])))
      <4>1. /\ pc[d] \in {GPU, CPU} /\ HasRoom(d, pc[d]) /\ UNCHANGED <<pc, free>>
            /\ call' = [call EXCEPT ![d] = [op |-> "claim", by |-> "priority", rows |-> P]]
        BY <3>4 DEF AdmitSelect, SelectPage, daemonVars
      <4>2. P \subseteq InResource(pc[d])
        BY DEF Page, Pending
      <4>3. call'[d].rows = P
        BY <1>0, <4>1 DEF TypeOK
      <4>4. ClaimsHaveRoom(d)'
        BY <1>0, <3>1, <4>1, <4>2, <4>3 DEF ClaimsHaveRoom, HasRoom
      <4> QED BY <1>0, <2>0, <4>1, <4>4 DEF Capacity
    <3>5. ASSUME NEW j \in Jobs, ClaimLost(d, j), UNCHANGED <<pc, free>>
          PROVE  Capacity(d)'
      <4>1. call[d].op = "claim" /\ call[d] \in Pages
        BY <1>0, <3>5, CallShape DEF ClaimLost
      <4>2. call'[d].op = "claim" => call'[d].rows \subseteq call[d].rows
        <5>1. CASE call' = [call EXCEPT ![d] = Idle]
          BY <1>0, <5>1 DEF TypeOK, Idle
        <5>2. CASE call' = [call EXCEPT ![d] = [call[d] EXCEPT !.rows = call[d].rows \ {j}]]
          <6>1. call'[d] = [call[d] EXCEPT !.rows = call[d].rows \ {j}]
            BY <1>0, <5>2 DEF TypeOK
          <6>2. call'[d].rows = call[d].rows \ {j}
            BY <4>1, <6>1 DEF Pages
          <6> QED BY <6>2
        <5> QED BY <3>5, <5>1, <5>2 DEF ClaimLost
      <4>3. ClaimsHaveRoom(d)'
        BY <1>0, <3>1, <3>5, <4>1, <4>2 DEF ClaimsHaveRoom, HasRoom
      <4> QED BY <1>0, <2>0, <3>5, <4>3 DEF Capacity
    <3>6. CASE AdmitTry(d)
      <4>1. PICK j \in Jobs : \/ ClaimWon(d, j) /\ pc[d] \in {GPU, CPU} /\ TakeSlot(d, pc[d]) /\ pc' = pc
                              \/ ClaimLost(d, j) /\ UNCHANGED <<pc, free>>
        BY <3>6 DEF AdmitTry, daemonVars
      <4> QED BY <1>2, <3>5, <4>1
    <3> QED BY <1>0, <2>2, <3>2, <3>3, <3>4, <3>6, SlotsMove
  <2> QED BY <2>1, <2>2, Actors
<1> QED BY <1>2, <1>3, RunningMoves

\* While one daemon schedules, the RUNNING jobs never exceed a resource's slots
\* nor the global cap, whatever is killed, expires, is reaped or requested
\* between its count and its claims. A second daemon counts on its own, and
\* then the two may overfill what neither sees.
THEOREM AdmissionRespectsCapacity ==
  ASSUME NEW d \in Daemons, Daemons = {d}
  PROVE  Spec => []SlotCapacity
<1>1. Init => Capacity(d)
  <2> SUFFICES ASSUME Init PROVE Capacity(d)
    OBVIOUS
  <2>1. free \in [Daemons -> SlotType] /\ pc[d] \notin {GPU, CPU}
    BY DEF Init, NoSlots, SlotType, GPU, CPU
  <2>2. ClaimsHaveRoom(d)
    BY ClientsAssumption DEF Init, StoreInit, ClaimsHaveRoom, Idle
  <2>3. Running = {}
    BY DEF Init, StoreInit, Running, ABSENT, RUNNING
  <2>4. \A S : Running \cap S = {}
    BY <2>3
  <2>5. Cardinality({}) = 0
    BY FS_EmptySet
  <2>6. SlotCapacity
    BY <2>3, <2>4, <2>5, ConfigAssumption DEF SlotCapacity
  <2> QED BY <2>1, <2>2, <2>6 DEF Capacity
<1>2. ControlInv /\ Capacity(d) /\ [Next]_cpVars => Capacity(d)'
  BY CapacityNext DEF ControlInv, IInv
<1>3. Capacity(d) => SlotCapacity
  BY DEF Capacity
<1> QED BY <1>1, <1>2, <1>3, ControlInvariant, PTL DEF Spec

=============================================================================
