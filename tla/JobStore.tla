------------------------------- MODULE JobStore -------------------------------
(***************************************************************************)
(* The SQLite job store of platform/store.py, at the grain at which its    *)
(* clients interleave: every SELECT and every UPDATE + commit is one step. *)
(* transition() and fail() read the row, decide, and write back with the   *)
(* guard WHERE state = <the state read>; claim() and claim_priority() read *)
(* a page of candidate ids and try each with WHERE state = 'pending';      *)
(* reap_expired() reads the ids of expired leases and fails each.          *)
(*                                                                         *)
(* A client here is any process holding a connection, and may make every   *)
(* call some caller in the repository makes. ControlPlane restricts it to  *)
(* the programs that run.                                                  *)
(***************************************************************************)
EXTENDS JobStates, Integers, FiniteSets

CONSTANTS
  Jobs,          \* job ids
  Clients,       \* connections that issue statements
  MaxAttempts,   \* max_attempts of each job
  Priority,      \* priority of each job
  Queues,        \* the WHERE filters of claims: sets of jobs (a kind, a resource)
  ClaimLimit     \* LIMIT of the candidate page (8 in the code)

ASSUME JobsAssumption        == IsFiniteSet(Jobs)
ASSUME MaxAttemptsAssumption == MaxAttempts \in [Jobs -> Nat \ {0}]
ASSUME PriorityAssumption    == Priority \in [Jobs -> Int]
ASSUME QueuesAssumption      == Queues \subseteq SUBSET Jobs
ASSUME ClaimLimitAssumption  == ClaimLimit \in Nat \ {0}

VARIABLES
  state,      \* jobs.state, ABSENT before INSERT
  attempts,   \* jobs.attempts
  lease,      \* jobs.lease_expires_at, relative to the clock
  born,       \* jobs.created_at: the rank of the INSERT
  call,       \* what each client carries from its SELECT to its UPDATE
  reaping,    \* ids a client's reap_expired() has selected and not yet failed
  fails       \* history: failures committed for each job, counted to MaxAttempts

rowVars   == <<state, attempts, lease, born, fails>>
storeVars == <<state, attempts, lease, born, call, reaping, fails>>

NULL    == "null"
LIVE    == "live"      \* lease_expires_at >= now
EXPIRED == "expired"   \* lease_expires_at < now

Idle == [op |-> "idle"]

\* A guarded UPDATE about to be issued: the state read, and the values to write.
Updates == [op : {"update"}, job : Jobs, seen : JobState, to : JobState,
            attempts : Nat, bump : {0, 1}]

\* A page of candidates not yet tried.
Pages == [op : {"claim"}, by : {"age", "priority"}, rows : SUBSET Jobs]

-----------------------------------------------------------------------------
StoreInit ==
  /\ state    = [j \in Jobs |-> ABSENT]
  /\ attempts = [j \in Jobs |-> 0]
  /\ lease    = [j \in Jobs |-> NULL]
  /\ born     = [j \in Jobs |-> 0]
  /\ call     = [c \in Clients |-> Idle]
  /\ reaping  = [c \in Clients |-> {}]
  /\ fails    = [j \in Jobs |-> 0]

create(j) ==
  /\ state[j] = ABSENT
  /\ state' = [state EXCEPT ![j] = PENDING]
  /\ born'  = [born EXCEPT ![j] =
                 1 + Cardinality({i \in Jobs : state[i] # ABSENT})]
  /\ UNCHANGED <<attempts, lease, call, reaping, fails>>

-----------------------------------------------------------------------------
(* transition() and fail(): SELECT, decide, guarded UPDATE.                 *)

Free(c) == call[c] = Idle

\* Mutant: a sign slip in the attempt count.
PlannedSignSlip(j, dst, b) ==
  [op |-> "update", job |-> j, seen |-> state[j], to |-> dst,
   attempts |-> attempts[j] - b, bump |-> b]

\* Mutant: every write charges an attempt.
PlannedAlwaysBumps(j, dst, b) ==
  [op |-> "update", job |-> j, seen |-> state[j], to |-> dst,
   attempts |-> attempts[j] + 1, bump |-> b]

\* What the UPDATE will write, from the row as it was read.
Planned(j, dst, b) ==
  [op |-> "update", job |-> j, seen |-> state[j], to |-> dst,
   attempts |-> attempts[j] + b, bump |-> b]

\* get() and assert_transition(); an illegal edge raises and plans nothing.
BeginTransition(c, j, dst, b) ==
  /\ Free(c)
  /\ can_transition(state[j], dst)
  /\ call' = [call EXCEPT ![c] = Planned(j, dst, b)]

\* Mutant: the budget comparison is off by one.
FailTargetOffByOne(j) ==
  IF attempts[j] + 1 > MaxAttempts[j] THEN DEAD_LETTER ELSE PENDING

\* Mutant: a failed job is not queued again.
FailTargetStrands(j) ==
  IF attempts[j] + 1 >= MaxAttempts[j] THEN DEAD_LETTER ELSE FAILED

FailTarget(j) ==
  IF attempts[j] + 1 >= MaxAttempts[j] THEN DEAD_LETTER ELSE PENDING

BeginFail(c, j) ==
  /\ Free(c)
  /\ can_transition(state[j], FAILED)
  /\ call' = [call EXCEPT ![c] = Planned(j, FailTarget(j), 1)]

\* Mutant: the UPDATE has no AND state=? guard.
MatchesAlways(u) == TRUE

\* WHERE id=? AND state=<the state read>
Matches(u) == state[u.job] = u.seen

Release(j) == [lease EXCEPT ![j] = NULL]

\* The failures a job has really had, a counter that stops at its budget.
CountFailure(u) ==
  [fails EXCEPT ![u.job] = IF @ < MaxAttempts[u.job] THEN @ + u.bump ELSE @]

\* UPDATE jobs SET state, attempts, lease=NULL WHERE ...; rowcount 1.
Update(c) ==
  LET u == call[c] IN
  /\ u.op = "update"
  /\ Matches(u)
  /\ state'    = [state EXCEPT ![u.job] = u.to]
  /\ attempts' = [attempts EXCEPT ![u.job] = u.attempts]
  /\ lease'    = Release(u.job)
  /\ fails'    = CountFailure(u)
  /\ call'     = [call EXCEPT ![c] = Idle]
  /\ UNCHANGED <<born, reaping>>

\* rowcount 0: ConcurrentModification, which also ends a reap_expired().
UpdateConflict(c) ==
  /\ call[c].op = "update"
  /\ ~Matches(call[c])
  /\ call'    = [call EXCEPT ![c] = Idle]
  /\ reaping' = [reaping EXCEPT ![c] = {}]
  /\ UNCHANGED rowVars

\* The process dies, or an exception unwinds out of the store, between two
\* statements: what it had read is lost, the table keeps what was committed.
Abandon(c) ==
  /\ ~Free(c) \/ reaping[c] # {}
  /\ call'    = [call EXCEPT ![c] = Idle]
  /\ reaping' = [reaping EXCEPT ![c] = {}]
  /\ UNCHANGED rowVars

-----------------------------------------------------------------------------
(* claim() and claim_priority().                                            *)

\* ORDER BY created_at, or ORDER BY priority DESC, created_at ASC.
Before(by, i, k) ==
  IF by = "priority" /\ Priority[i] # Priority[k]
  THEN Priority[i] > Priority[k]
  ELSE born[i] < born[k]

Pending(queue) == {j \in queue : state[j] = PENDING}

\* ... LIMIT ClaimLimit
Page(by, S) ==
  {j \in S : Cardinality({i \in S : Before(by, i, j)}) < ClaimLimit}

SelectPage(c, by, queue) ==
  /\ Free(c)
  /\ Pending(queue) # {}
  /\ call' = [call EXCEPT ![c] =
                [op |-> "claim", by |-> by, rows |-> Page(by, Pending(queue))]]
  /\ UNCHANGED <<rowVars, reaping>>

IsFirst(j, page) == /\ j \in page.rows
                    /\ \A i \in page.rows \ {j} : Before(page.by, j, i)

\* Mutant: the claim's UPDATE names the id only.
ClaimableAlways(j) == TRUE

\* WHERE id=? AND state='pending'
Claimable(j) == state[j] = PENDING

\* Mutant: a claim sets the state and not the lease.
GrantForgotten(j) == lease

Grant(j) == [lease EXCEPT ![j] = LIVE]

ClaimWon(c, j) ==
  /\ call[c].op = "claim"
  /\ IsFirst(j, call[c])
  /\ Claimable(j)
  /\ state' = [state EXCEPT ![j] = RUNNING]
  /\ lease' = Grant(j)
  /\ call'  = [call EXCEPT ![c] = Idle]
  /\ UNCHANGED <<attempts, born, reaping, fails>>

\* The candidate is gone: try the next one, or query again after the last.
ClaimLost(c, j) ==
  /\ call[c].op = "claim"
  /\ IsFirst(j, call[c])
  /\ ~Claimable(j)
  /\ call' = [call EXCEPT ![c] =
                IF call[c].rows = {j} THEN Idle
                ELSE [call[c] EXCEPT !.rows = call[c].rows \ {j}]]
  /\ UNCHANGED <<rowVars, reaping>>

-----------------------------------------------------------------------------
(* Leases.                                                                  *)

Renewable(j) == state[j] = RUNNING

renew_lease(j) ==
  /\ Renewable(j)
  /\ lease' = Grant(j)
  /\ UNCHANGED <<state, attempts, born, call, reaping, fails>>

\* The clock passes lease_expires_at.
Expire(j) ==
  /\ lease[j] = LIVE
  /\ lease' = [lease EXCEPT ![j] = EXPIRED]
  /\ UNCHANGED <<state, attempts, born, call, reaping, fails>>

\* Mutant: the reaper finds nothing.
ExpiredNever == {}

Expired == {j \in Jobs : state[j] = RUNNING /\ lease[j] = EXPIRED}

ReapSelect(c) ==
  /\ Free(c)
  /\ reaping[c] = {}
  /\ Expired # {}
  /\ reaping' = [reaping EXCEPT ![c] = Expired]
  /\ UNCHANGED <<rowVars, call>>

Rest(c, j) == reaping[c] \ {j}

\* fail() on one of the selected ids: its SELECT. The lease is not read again.
ReapNext(c, j) ==
  /\ j \in reaping[c]
  /\ BeginFail(c, j)
  /\ reaping' = [reaping EXCEPT ![c] = Rest(c, j)]
  /\ UNCHANGED rowVars

-----------------------------------------------------------------------------
\* The (target, bump_attempt) pairs some caller passes to transition():
\* complete(), the API's pause / resume / cancel, _dead_letter_now() and the
\* dashboard simulations, which move their own job to RUNNING.
Targets == {<<SUCCEEDED, 0>>, <<PAUSED, 0>>, <<PENDING, 0>>, <<CANCELLED, 0>>,
            <<FAILED, 1>>, <<DEAD_LETTER, 0>>, <<RUNNING, 0>>}

transition(c, j) ==
  /\ \E t \in Targets : BeginTransition(c, j, t[1], t[2])
  /\ UNCHANGED <<rowVars, reaping>>

fail(c, j) == BeginFail(c, j) /\ UNCHANGED <<rowVars, reaping>>

StoreNext ==
  \/ \E j \in Jobs : create(j) \/ renew_lease(j) \/ Expire(j)
  \/ \E c \in Clients :
       \/ Update(c) \/ UpdateConflict(c) \/ Abandon(c) \/ ReapSelect(c)
       \/ \E j \in Jobs : \/ transition(c, j) \/ fail(c, j)
                          \/ ClaimWon(c, j) \/ ClaimLost(c, j) \/ ReapNext(c, j)
       \/ \E by \in {"age", "priority"}, q \in Queues : SelectPage(c, by, q)

StoreSpec == StoreInit /\ [][StoreNext]_storeVars

-----------------------------------------------------------------------------
TypeOK ==
  /\ state \in [Jobs -> JobState \cup {ABSENT}]
  /\ attempts \in [Jobs -> Nat]
  /\ lease \in [Jobs -> {NULL, LIVE, EXPIRED}]
  /\ born \in [Jobs -> Nat]
  /\ call \in [Clients -> {Idle} \cup Updates \cup Pages]
  /\ reaping \in [Clients -> SUBSET Jobs]
  /\ fails \in [Jobs -> Nat]

\* A job that can still run has a retry left: whatever reads and writes
\* interleave, attempts is below max_attempts in every state but FAILED and
\* DEAD_LETTER, and never above it (bounded retry, store.py fail()).
RetryBudget ==
  \A j \in Jobs :
    /\ attempts[j] <= MaxAttempts[j]
    /\ state[j] \notin {FAILED, DEAD_LETTER} => attempts[j] < MaxAttempts[j]

\* attempts never claims a failure that did not happen, so the retry policy
\* gives no job up early, even when the attempts it writes back were read
\* before other clients failed and re-claimed the job.
NoPhantomFailure == \A j \in Jobs : attempts[j] <= fails[j]

\* "NULL whenever the job is not actively claimed" (jobs.py): only a RUNNING
\* job has a lease, although renewals, claims and releases come from
\* different processes.
LeaseOnlyWhileRunning == \A j \in Jobs : lease[j] # NULL => state[j] = RUNNING

\* A job that has ended stays as it ended, whatever a client read before:
\* no late UPDATE moves it, charges it an attempt or gives it a lease.
TerminalIsFinal ==
  [][\A j \in Jobs : state[j] \in TERMINAL =>
        /\ state'[j] = state[j]
        /\ attempts'[j] = attempts[j]
        /\ lease'[j] = lease[j]]_storeVars

\* The store implements the lifecycle: every history of a job's persisted
\* state is a walk of the transition graph with the failure path collapsed.
Lifecycle == INSTANCE JobLifecycle WITH phase <- state

ImplementsLifecycle == Lifecycle!Spec

=============================================================================
