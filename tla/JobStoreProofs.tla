---------------------------- MODULE JobStoreProofs ----------------------------
(***************************************************************************)
(* Proofs about the job store, for every table, every set of connections   *)
(* and every retry budget.                                                 *)
(*                                                                         *)
(* None of the store's invariants is inductive alone: an UPDATE writes     *)
(* what its client read some steps earlier. PlansAreSound says what stays  *)
(* true of those stale values until they are written.                      *)
(***************************************************************************)
EXTENDS JobStore, FiniteSetTheorems, TLAPS

\* A planned UPDATE follows the graph from the state it read, stays within
\* the budget, and charges no failure beyond those that happened.
PlanIsSound(u) ==
  /\ can_transition(u.seen, u.to) \/ Lifecycle!FailPath(u.seen, u.to)
  /\ u.attempts <= MaxAttempts[u.job]
  /\ u.to \notin {FAILED, DEAD_LETTER} => u.attempts < MaxAttempts[u.job]
  /\ u.attempts - u.bump <= fails[u.job]

PlansAreSound ==
  \A c \in Clients : call[c].op = "update" => PlanIsSound(call[c])

FailsCapped == \A j \in Jobs : fails[j] <= MaxAttempts[j]

IInv == /\ TypeOK
        /\ RetryBudget
        /\ NoPhantomFailure
        /\ LeaseOnlyWhileRunning
        /\ PlansAreSound
        /\ FailsCapped

\* Every state predicate of the store depends on its variables only.
LEMMA Stuttering == IInv /\ UNCHANGED storeVars => IInv'
BY DEF IInv, TypeOK, RetryBudget, NoPhantomFailure, LeaseOnlyWhileRunning,
       PlansAreSound, PlanIsSound, FailsCapped, storeVars, Updates, Pages, Idle


\* The operation field of what a client carries tells its shape.
LEMMA CallShape ==
  ASSUME TypeOK, NEW c \in Clients
  PROVE  /\ call[c].op = "update" => call[c] \in Updates
         /\ call[c].op = "claim" => call[c] \in Pages
BY DEF TypeOK, Updates, Pages, Idle

\* The empty table.
LEMMA InitIInv == StoreInit => IInv
<1> SUFFICES ASSUME StoreInit PROVE IInv
  OBVIOUS
<1>1. TypeOK
  BY DEF StoreInit, TypeOK, Idle, ABSENT, NULL
<1>2. RetryBudget /\ NoPhantomFailure /\ LeaseOnlyWhileRunning /\ FailsCapped
  BY MaxAttemptsAssumption
  DEF StoreInit, RetryBudget, NoPhantomFailure, LeaseOnlyWhileRunning, FailsCapped,
      NULL
<1>3. PlansAreSound
  BY DEF StoreInit, PlansAreSound, Idle
<1> QED
  BY <1>1, <1>2, <1>3 DEF IInv

\* INSERT.
LEMMA CreateIInv ==
  ASSUME IInv, NEW j \in Jobs, create(j)
  PROVE  IInv'
<1> DEFINE rows == {i \in Jobs : state[i] # ABSENT}
<1>1. Cardinality(rows) \in Nat
  BY JobsAssumption, FS_Subset, FS_CardinalityType
<1>2. TypeOK'
  BY <1>1 DEF IInv, TypeOK, create, JobState, PENDING, Updates, Pages, Idle
<1>3. RetryBudget' /\ NoPhantomFailure' /\ FailsCapped'
  BY DEF IInv, TypeOK, RetryBudget, NoPhantomFailure, FailsCapped, create,
         PENDING, ABSENT, FAILED, DEAD_LETTER
<1>4. LeaseOnlyWhileRunning'
  BY DEF IInv, TypeOK, LeaseOnlyWhileRunning, create, PENDING, ABSENT, RUNNING
<1>5. PlansAreSound'
  BY DEF IInv, PlansAreSound, PlanIsSound, create
<1> QED
  BY <1>2, <1>3, <1>4, <1>5 DEF IInv

\* A renewal, and the clock passing a lease: only the lease column moves.
LEMMA LeaseIInv ==
  ASSUME IInv, NEW j \in Jobs, renew_lease(j) \/ Expire(j)
  PROVE  IInv'
<1>1. TypeOK'
  BY DEF IInv, TypeOK, renew_lease, Grant, Expire, LIVE, EXPIRED, Updates, Pages, Idle
<1>2. RetryBudget' /\ NoPhantomFailure' /\ FailsCapped' /\ PlansAreSound'
  BY DEF IInv, RetryBudget, NoPhantomFailure, FailsCapped, PlansAreSound,
         PlanIsSound, renew_lease, Expire
<1>3. LeaseOnlyWhileRunning'
  BY DEF IInv, TypeOK, LeaseOnlyWhileRunning, renew_lease, Grant, Renewable, Expire,
         LIVE, EXPIRED, NULL
<1> QED
  BY <1>1, <1>2, <1>3 DEF IInv

\* Steps that move no row keep every conjunct about rows, so only the type of
\* what the clients carry, and the soundness of their plans, is at stake.
LEMMA RowsUnchanged ==
  ASSUME IInv, UNCHANGED rowVars
  PROVE  RetryBudget' /\ NoPhantomFailure' /\ LeaseOnlyWhileRunning' /\ FailsCapped'
BY DEF IInv, rowVars, RetryBudget, NoPhantomFailure, LeaseOnlyWhileRunning, FailsCapped

\* SELECT of transition() and fail(): a sound plan is made.
LEMMA PlanIInv ==
  ASSUME IInv, NEW c \in Clients, NEW j \in Jobs,
         NEW dst \in JobState, NEW b \in {0, 1},
         state[j] \in JobState,
         PlanIsSound(Planned(j, dst, b)),
         call' = [call EXCEPT ![c] = Planned(j, dst, b)],
         UNCHANGED rowVars, reaping' \in [Clients -> SUBSET Jobs]
  PROVE  IInv'
<1>1. Planned(j, dst, b) \in Updates
  BY DEF Planned, Updates, IInv, TypeOK
<1>2. TypeOK'
  BY <1>1 DEF IInv, TypeOK, rowVars
<1>3. PlansAreSound'
  <2> SUFFICES ASSUME NEW k \in Clients, call'[k].op = "update"
               PROVE  PlanIsSound(call[k])'
    BY DEF PlansAreSound
  <2>1. CASE k = c
    BY <2>1 DEF PlanIsSound, rowVars, IInv, TypeOK
  <2>2. CASE k # c
    BY <2>2 DEF PlanIsSound, rowVars, IInv, TypeOK, PlansAreSound
  <2> QED BY <2>1, <2>2
<1> QED
  BY <1>2, <1>3, RowsUnchanged DEF IInv

\* The SELECT of transition(), which plans the UPDATE.
LEMMA TransitionIInv ==
  ASSUME IInv, NEW c \in Clients, NEW j \in Jobs, transition(c, j)
  PROVE  IInv'
<1>1. PICK t \in Targets : BeginTransition(c, j, t[1], t[2])
  BY DEF transition
<1>2. t[1] \in JobState /\ t[2] \in {0, 1}
  BY DEF Targets, JobState
<1>3. can_transition(state[j], t[1]) /\ state[j] \in JobState
  BY <1>1 DEF BeginTransition, can_transition, Transitions, JobState
<1>4. PlanIsSound(Planned(j, t[1], t[2]))
  <2>1. t[2] = 1 => state[j] = RUNNING /\ t[1] = FAILED
    BY <1>3 DEF Targets, can_transition, Transitions, FAILED, SUCCEEDED, PAUSED,
                PENDING, CANCELLED, DEAD_LETTER, RUNNING, RETRYING
  <2>2. state[j] = DEAD_LETTER => FALSE
    BY <1>3 DEF can_transition, Transitions, FAILED, SUCCEEDED, PAUSED,
                PENDING, CANCELLED, DEAD_LETTER, RUNNING, RETRYING
  <2>3. state[j] = FAILED => t[1] = DEAD_LETTER /\ t[2] = 0
    BY <1>3 DEF Targets, can_transition, Transitions, FAILED, SUCCEEDED, PAUSED,
                PENDING, CANCELLED, DEAD_LETTER, RUNNING, RETRYING
  <2>4. /\ attempts[j] \in Nat /\ MaxAttempts[j] \in Nat /\ fails[j] \in Nat
        /\ attempts[j] <= fails[j] /\ attempts[j] <= MaxAttempts[j]
        /\ state[j] \notin {FAILED, DEAD_LETTER} => attempts[j] < MaxAttempts[j]
    BY MaxAttemptsAssumption DEF IInv, TypeOK, RetryBudget, NoPhantomFailure
  <2> QED
    BY <1>2, <1>3, <2>1, <2>2, <2>3, <2>4
    DEF PlanIsSound, Planned, RUNNING, FAILED, DEAD_LETTER
<1> QED
  BY <1>1, <1>2, <1>3, <1>4, PlanIInv DEF transition, BeginTransition, IInv, TypeOK

\* The retry policy of fail() plans a write within the budget: DEAD_LETTER when
\* the budget is spent, another attempt otherwise.
LEMMA FailPlanSound ==
  ASSUME IInv, NEW j \in Jobs, can_transition(state[j], FAILED)
  PROVE  /\ FailTarget(j) \in JobState
         /\ state[j] \in JobState
         /\ PlanIsSound(Planned(j, FailTarget(j), 1))
<1>1. state[j] = RUNNING
  BY DEF can_transition, Transitions, FAILED, SUCCEEDED, PAUSED, PENDING, CANCELLED,
         DEAD_LETTER, RUNNING, RETRYING
<1>2. FailTarget(j) \in {PENDING, DEAD_LETTER}
  BY DEF FailTarget
<1>3. Lifecycle!FailPath(state[j], FailTarget(j))
  BY <1>1, <1>2
  DEF Lifecycle!FailPath, Lifecycle!can_transition, Lifecycle!Transitions,
      Lifecycle!FAILED, Lifecycle!RUNNING, Lifecycle!RETRYING, Lifecycle!PENDING,
      Lifecycle!DEAD_LETTER, RUNNING, PENDING, DEAD_LETTER
<1>4. /\ attempts[j] \in Nat /\ MaxAttempts[j] \in Nat /\ fails[j] \in Nat
      /\ attempts[j] <= fails[j] /\ attempts[j] < MaxAttempts[j]
  BY <1>1, MaxAttemptsAssumption
  DEF IInv, TypeOK, RetryBudget, NoPhantomFailure, RUNNING, FAILED, DEAD_LETTER
<1>5. PlanIsSound(Planned(j, FailTarget(j), 1))
  BY <1>3, <1>4 DEF PlanIsSound, Planned, FailTarget, PENDING, FAILED, DEAD_LETTER
<1> QED
  BY <1>1, <1>2, <1>5 DEF JobState

\* fail(), called by a worker or by the reaper.
LEMMA FailIInv ==
  ASSUME IInv, NEW c \in Clients, NEW j \in Jobs, fail(c, j) \/ ReapNext(c, j)
  PROVE  IInv'
<1>1. /\ can_transition(state[j], FAILED)
      /\ call' = [call EXCEPT ![c] = Planned(j, FailTarget(j), 1)]
      /\ UNCHANGED rowVars
  BY DEF fail, ReapNext, BeginFail
<1>2. reaping' \in [Clients -> SUBSET Jobs]
  BY DEF fail, ReapNext, Rest, IInv, TypeOK
<1> QED
  BY <1>1, <1>2, FailPlanSound, PlanIInv

\* Statements that only change what clients carry, and plan no UPDATE.
LEMMA CarryIInv ==
  ASSUME IInv, NEW c \in Clients, NEW v \in {Idle} \cup Pages,
         call' = [call EXCEPT ![c] = v],
         UNCHANGED rowVars, reaping' \in [Clients -> SUBSET Jobs]
  PROVE  IInv'
<1>1. TypeOK'
  BY DEF IInv, TypeOK, rowVars
<1>2. PlansAreSound'
  <2>1. v.op # "update"
    BY DEF Idle, Pages
  <2> QED
    BY <2>1 DEF IInv, TypeOK, PlansAreSound, PlanIsSound, rowVars
<1> QED
  BY <1>1, <1>2, RowsUnchanged DEF IInv

\* Calls that change neither a state nor a plan to write one.
LEMMA QuietIInv ==
  ASSUME IInv, NEW c \in Clients,
         UpdateConflict(c) \/ Abandon(c) \/ ReapSelect(c)
  PROVE  IInv'
<1>1. CASE UpdateConflict(c) \/ Abandon(c)
  BY <1>1, CarryIInv DEF UpdateConflict, Abandon, IInv, TypeOK
<1>2. CASE ReapSelect(c)
  <2>1. TypeOK'
    BY <1>2 DEF ReapSelect, Expired, IInv, TypeOK, rowVars
  <2>2. PlansAreSound'
    BY <1>2 DEF ReapSelect, IInv, PlansAreSound, PlanIsSound, rowVars
  <2> QED
    BY <1>2, <2>1, <2>2, RowsUnchanged DEF ReapSelect, IInv
<1> QED
  BY <1>1, <1>2

\* The SELECT of claim_priority().
LEMMA SelectPageIInv ==
  ASSUME IInv, NEW c \in Clients, NEW by \in {"age", "priority"}, NEW q \in Queues,
         SelectPage(c, by, q)
  PROVE  IInv'
<1> DEFINE page == [op |-> "claim", by |-> by, rows |-> Page(by, Pending(q))]
<1>1. page \in Pages
  BY QueuesAssumption DEF Pages, Page, Pending
<1> QED
  BY <1>1, CarryIInv DEF SelectPage, IInv, TypeOK

\* A claim that another client was faster with.
LEMMA ClaimLostIInv ==
  ASSUME IInv, NEW c \in Clients, NEW j \in Jobs, ClaimLost(c, j)
  PROVE  IInv'
<1> DEFINE v == IF call[c].rows = {j} THEN Idle
                ELSE [call[c] EXCEPT !.rows = call[c].rows \ {j}]
<1>1. call[c] \in Pages
  BY CallShape DEF ClaimLost, IInv
<1>2. v \in {Idle} \cup Pages
  BY <1>1 DEF Pages
<1>3. call' = [call EXCEPT ![c] = v]
  BY DEF ClaimLost, IInv, TypeOK
<1> QED
  BY <1>2, <1>3, CarryIInv DEF ClaimLost, IInv, TypeOK

\* A claim that is granted: the job was PENDING, and is leased.
LEMMA ClaimWonIInv ==
  ASSUME IInv, NEW c \in Clients, NEW j \in Jobs, ClaimWon(c, j)
  PROVE  IInv'
<1>1. TypeOK'
  BY DEF IInv, TypeOK, ClaimWon, Grant, JobState, LIVE
<1>2. RetryBudget' /\ NoPhantomFailure' /\ FailsCapped'
  BY DEF IInv, TypeOK, RetryBudget, NoPhantomFailure, FailsCapped, ClaimWon,
         Claimable, PENDING, RUNNING, FAILED, DEAD_LETTER
<1>3. LeaseOnlyWhileRunning'
  BY DEF IInv, TypeOK, LeaseOnlyWhileRunning, ClaimWon, Grant
<1>4. PlansAreSound'
  BY DEF IInv, TypeOK, PlansAreSound, PlanIsSound, ClaimWon, Idle
<1> QED
  BY <1>1, <1>2, <1>3, <1>4 DEF IInv

\* The guarded UPDATE: the row takes the planned values, however old the read.
LEMMA UpdateIInv ==
  ASSUME IInv, NEW c \in Clients, Update(c)
  PROVE  IInv'
<1> DEFINE u == call[c]
<1>1. u \in Updates /\ PlanIsSound(u)
  BY CallShape DEF Update, IInv, PlansAreSound
<1>2. /\ u.job \in Jobs /\ u.to \in JobState /\ u.attempts \in Nat
      /\ u.bump \in {0, 1}
      /\ MaxAttempts[u.job] \in Nat
      /\ fails[u.job] \in Nat /\ fails[u.job] <= MaxAttempts[u.job]
  BY <1>1, MaxAttemptsAssumption DEF Updates, IInv, TypeOK, FailsCapped
<1> DEFINE f == IF fails[u.job] < MaxAttempts[u.job]
                THEN fails[u.job] + u.bump ELSE fails[u.job]
<1>3. /\ state' = [state EXCEPT ![u.job] = u.to]
      /\ attempts' = [attempts EXCEPT ![u.job] = u.attempts]
      /\ lease' = [lease EXCEPT ![u.job] = NULL]
      /\ fails' = [fails EXCEPT ![u.job] = f]
      /\ call' = [call EXCEPT ![c] = Idle]
      /\ UNCHANGED <<born, reaping>>
  BY DEF Update, Release, CountFailure
<1>4. f \in Nat /\ fails[u.job] <= f /\ f <= MaxAttempts[u.job] /\ u.attempts <= f
  BY <1>1, <1>2 DEF PlanIsSound
<1>5. TypeOK'
  BY <1>2, <1>3, <1>4 DEF IInv, TypeOK
<1>6. RetryBudget'
  BY <1>1, <1>2, <1>3 DEF IInv, TypeOK, RetryBudget, PlanIsSound
<1>7. NoPhantomFailure' /\ FailsCapped'
  BY <1>2, <1>3, <1>4 DEF IInv, TypeOK, NoPhantomFailure, FailsCapped
<1>8. LeaseOnlyWhileRunning'
  BY <1>2, <1>3 DEF IInv, TypeOK, LeaseOnlyWhileRunning, NULL
<1>9. PlansAreSound'
  <2> SUFFICES ASSUME NEW k \in Clients, call'[k].op = "update"
               PROVE  PlanIsSound(call[k])'
    BY DEF PlansAreSound
  <2>1. k # c /\ call'[k] = call[k]
    BY <1>3 DEF Idle, IInv, TypeOK
  <2>2. call[k] \in Updates /\ PlanIsSound(call[k])
    BY <2>1, CallShape DEF IInv, PlansAreSound
  <2>3. fails[call[k].job] <= fails'[call[k].job] /\ fails[call[k].job] \in Nat
        /\ fails'[call[k].job] \in Nat
    BY <1>2, <1>3, <1>4, <2>2 DEF Updates, IInv, TypeOK
  <2> QED
    BY <2>1, <2>2, <2>3 DEF PlanIsSound, Updates
<1> QED
  BY <1>5, <1>6, <1>7, <1>8, <1>9 DEF IInv

\* The invariant is kept by every statement of every client.
LEMMA NextIInv == IInv /\ [StoreNext]_storeVars => IInv'
<1> SUFFICES ASSUME IInv, [StoreNext]_storeVars PROVE IInv'
  OBVIOUS
<1>1. CASE UNCHANGED storeVars
  BY <1>1, Stuttering
<1>2. CASE \E j \in Jobs : create(j) \/ renew_lease(j) \/ Expire(j)
  BY <1>2, CreateIInv, LeaseIInv
<1>3. ASSUME NEW c \in Clients,
             Update(c) \/ UpdateConflict(c) \/ Abandon(c) \/ ReapSelect(c)
      PROVE  IInv'
  BY <1>3, UpdateIInv, QuietIInv
<1>4. ASSUME NEW c \in Clients, NEW j \in Jobs,
             \/ transition(c, j) \/ fail(c, j)
             \/ ClaimWon(c, j) \/ ClaimLost(c, j) \/ ReapNext(c, j)
      PROVE  IInv'
  BY <1>4, TransitionIInv, FailIInv, ClaimWonIInv, ClaimLostIInv
<1>5. ASSUME NEW c \in Clients, NEW by \in {"age", "priority"}, NEW q \in Queues,
             SelectPage(c, by, q)
      PROVE  IInv'
  BY <1>5, SelectPageIInv
<1> QED
  BY <1>1, <1>2, <1>3, <1>4, <1>5 DEF StoreNext

\* Hence it holds always.
LEMMA Inductive == StoreSpec => []IInv
BY InitIInv, NextIInv, PTL DEF StoreSpec

-----------------------------------------------------------------------------
\* Every column and everything a client carries keeps its type.
THEOREM TypeCorrect == StoreSpec => []TypeOK
BY Inductive, PTL DEF IInv

\* Bounded retry: under every interleaving of stale reads and guarded writes,
\* a job that is neither FAILED nor DEAD_LETTER has an attempt left.
THEOREM RetryBudgetHolds == StoreSpec => []RetryBudget
BY Inductive, PTL DEF IInv

\* attempts never exceeds the failures that were committed, so fail() gives no
\* job up before its budget is really spent.
THEOREM NoPhantomFailureHolds == StoreSpec => []NoPhantomFailure
BY Inductive, PTL DEF IInv

\* Only a RUNNING job has a lease.
THEOREM LeaseDiscipline == StoreSpec => []LeaseOnlyWhileRunning
BY Inductive, PTL DEF IInv

\* What one step does to the persisted states is a step of the lifecycle.
LEMMA StepRefines ==
  ASSUME IInv, [StoreNext]_storeVars
  PROVE  [Lifecycle!Next]_state
<1> USE DEF Lifecycle!Next, Lifecycle!Create, Lifecycle!Move, Lifecycle!Fail
<1>1. ASSUME NEW j \in Jobs, create(j) PROVE Lifecycle!Next
  BY <1>1 DEF create, Lifecycle!PENDING, PENDING, Lifecycle!ABSENT, ABSENT
<1>2. ASSUME NEW c \in Clients, NEW j \in Jobs, ClaimWon(c, j) PROVE Lifecycle!Next
  <2>1. /\ Lifecycle!can_transition(state[j], RUNNING)
        /\ RUNNING \in Lifecycle!JobState
    BY <1>2 DEF ClaimWon, Claimable, Lifecycle!can_transition, Lifecycle!Transitions,
                Lifecycle!PENDING, Lifecycle!RUNNING, PENDING, RUNNING,
                Lifecycle!JobState
  <2> QED
    BY <1>2, <2>1 DEF ClaimWon
<1>3. ASSUME NEW c \in Clients, Update(c) PROVE Lifecycle!Next
  <2> DEFINE u == call[c]
  <2>1. u \in Updates /\ PlanIsSound(u)
    BY <1>3, CallShape DEF Update, IInv, PlansAreSound
  <2>2. u.job \in Jobs /\ u.to \in JobState /\ state[u.job] = u.seen
    BY <1>3, <2>1 DEF Updates, Update, Matches
  <2>3. u.to \in Lifecycle!JobState
    BY <2>2 DEF JobState, Lifecycle!JobState, PENDING, RUNNING, PAUSED, SUCCEEDED,
       FAILED, RETRYING, DEAD_LETTER, CANCELLED, Lifecycle!PENDING,
       Lifecycle!RUNNING, Lifecycle!PAUSED, Lifecycle!SUCCEEDED, Lifecycle!FAILED,
       Lifecycle!RETRYING, Lifecycle!DEAD_LETTER, Lifecycle!CANCELLED
  <2>4. \/ Lifecycle!can_transition(state[u.job], u.to)
        \/ Lifecycle!FailPath(state[u.job], u.to)
    BY <2>1, <2>2 DEF PlanIsSound, can_transition, Lifecycle!can_transition,
       Transitions, Lifecycle!Transitions, PENDING, RUNNING, PAUSED, SUCCEEDED,
       FAILED, RETRYING, DEAD_LETTER, CANCELLED, Lifecycle!PENDING,
       Lifecycle!RUNNING, Lifecycle!PAUSED, Lifecycle!SUCCEEDED, Lifecycle!FAILED,
       Lifecycle!RETRYING, Lifecycle!DEAD_LETTER, Lifecycle!CANCELLED
  <2>5. state' = [state EXCEPT ![u.job] = u.to]
    BY <1>3 DEF Update
  <2> QED
    BY <2>2, <2>3, <2>4, <2>5
<1>4. CASE UNCHANGED state
  BY <1>4
<1> QED
  BY <1>1, <1>2, <1>3, <1>4
  DEF StoreNext, storeVars, rowVars, renew_lease, Expire, UpdateConflict, Abandon,
      ReapSelect, ReapNext, transition, fail, ClaimLost, SelectPage

\* The store implements the lifecycle: whatever its clients do, a job's
\* persisted states are a walk of the transition graph.
THEOREM StoreImplementsLifecycle == StoreSpec => ImplementsLifecycle
<1>1. StoreInit => Lifecycle!Init
  BY DEF StoreInit, Lifecycle!Init, ABSENT, Lifecycle!ABSENT
<1> QED
  BY <1>1, StepRefines, Inductive, PTL DEF StoreSpec, ImplementsLifecycle, Lifecycle!Spec

\* No step moves, charges or leases a job that has ended.
LEMMA StepKeepsTerminal ==
  ASSUME IInv, [StoreNext]_storeVars, NEW j \in Jobs, state[j] \in TERMINAL
  PROVE  state'[j] = state[j] /\ attempts'[j] = attempts[j] /\ lease'[j] = lease[j]
<1> USE DEF TERMINAL, PENDING, RUNNING, PAUSED, SUCCEEDED, FAILED, RETRYING,
            DEAD_LETTER, CANCELLED, ABSENT
<1>1. ASSUME NEW i \in Jobs, create(i)
      PROVE  state'[j] = state[j] /\ attempts'[j] = attempts[j] /\ lease'[j] = lease[j]
  BY <1>1 DEF create, IInv, TypeOK
<1>2. ASSUME NEW i \in Jobs, renew_lease(i) \/ Expire(i)
      PROVE  state'[j] = state[j] /\ attempts'[j] = attempts[j] /\ lease'[j] = lease[j]
  BY <1>2 DEF renew_lease, Grant, Renewable, Expire, IInv, TypeOK, LeaseOnlyWhileRunning,
              NULL, LIVE
<1>3. ASSUME NEW c \in Clients, NEW i \in Jobs, ClaimWon(c, i)
      PROVE  state'[j] = state[j] /\ attempts'[j] = attempts[j] /\ lease'[j] = lease[j]
  BY <1>3 DEF ClaimWon, Claimable, Grant, IInv, TypeOK
<1>4. ASSUME NEW c \in Clients, Update(c)
      PROVE  state'[j] = state[j] /\ attempts'[j] = attempts[j] /\ lease'[j] = lease[j]
  <2> DEFINE u == call[c]
  <2>1. u \in Updates /\ PlanIsSound(u) /\ state[u.job] = u.seen
    BY <1>4, CallShape DEF Update, Matches, IInv, PlansAreSound
  <2>2. u.seen \notin TERMINAL
    BY <2>1 DEF PlanIsSound, can_transition, Transitions, Lifecycle!FailPath,
       Lifecycle!can_transition, Lifecycle!Transitions, Lifecycle!PENDING,
       Lifecycle!RUNNING, Lifecycle!PAUSED, Lifecycle!SUCCEEDED, Lifecycle!FAILED,
       Lifecycle!RETRYING, Lifecycle!DEAD_LETTER, Lifecycle!CANCELLED
  <2>3. u.job # j
    BY <2>1, <2>2
  <2> QED
    BY <1>4, <2>3 DEF Update, Release, IInv, TypeOK
<1>5. CASE UNCHANGED <<state, attempts, lease>>
  BY <1>5
<1> QED
  BY <1>1, <1>2, <1>3, <1>4, <1>5
  DEF StoreNext, storeVars, rowVars, UpdateConflict, Abandon, ReapSelect, ReapNext,
      transition, fail, ClaimLost, SelectPage

\* SUCCEEDED, DEAD_LETTER and CANCELLED are final: no write planned before the
\* job ended can reach it afterwards.
THEOREM TerminalFinal == StoreSpec => TerminalIsFinal
<1>1. IInv /\ [StoreNext]_storeVars =>
        [\A j \in Jobs : state[j] \in TERMINAL =>
            /\ state'[j] = state[j]
            /\ attempts'[j] = attempts[j]
            /\ lease'[j] = lease[j]]_storeVars
  BY StepKeepsTerminal
<1> QED
  BY <1>1, Inductive, PTL DEF StoreSpec, TerminalIsFinal

-----------------------------------------------------------------------------
(* What the programs over the store use to show that they implement it.      *)

\* The store's calls, made by a client, are steps of the store.
LEMMA ClientCalls ==
  ASSUME NEW c \in Clients
  PROVE  /\ Update(c) => StoreNext
         /\ UpdateConflict(c) => StoreNext
         /\ Abandon(c) => StoreNext
         /\ ReapSelect(c) => StoreNext
         /\ \A j \in Jobs : (ClaimWon(c, j) \/ ClaimLost(c, j) \/ ReapNext(c, j)
                             \/ fail(c, j)) => StoreNext
         /\ \A by \in {"age", "priority"}, q \in Queues :
              SelectPage(c, by, q) => StoreNext
BY DEF StoreNext

\* A transition some caller asks for is one of Targets.
LEMMA TransitionCalls ==
  ASSUME NEW c \in Clients, NEW j \in Jobs,
         NEW s \in {SUCCEEDED, PAUSED, PENDING, CANCELLED},
         BeginTransition(c, j, s, 0), UNCHANGED <<rowVars, reaping>>
  PROVE  StoreNext
<1>1. <<s, 0>> \in Targets
  BY DEF Targets
<1>2. transition(c, j)
  BY <1>1 DEF transition
<1> QED BY <1>2 DEF StoreNext

\* So are the calls on a job alone.
LEMMA JobCalls ==
  ASSUME NEW j \in Jobs
  PROVE  create(j) \/ renew_lease(j) \/ Expire(j) => StoreNext
BY DEF StoreNext

StoreStep == StoreNext \/ UNCHANGED storeVars

=============================================================================
