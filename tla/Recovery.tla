------------------------------- MODULE Recovery -------------------------------
(***************************************************************************)
(* The recovery controller of platform/failures.py and the fault           *)
(* simulations of platform/dash_data.py, on the job table.                 *)
(*                                                                         *)
(* A controller call is a sequence of statements: it reads the payload,    *)
(* writes the shrunk batch, then fails the job, or commits FAILED and      *)
(* DEAD_LETTER one after the other. transition() and fail() are a SELECT   *)
(* and an UPDATE that is guarded by the state read, not by the attempts.   *)
(* A process may be killed between any two statements.                     *)
(***************************************************************************)
EXTENDS JobStates, Naturals, Sequences, FiniteSets

CONSTANTS
  NONE,
  Jobs, Kind,       \* job ids and their kinds
  SimJobs,          \* the ids that simulations create, in order of use
  Controllers,      \* processes that call handle()
  Visitor,          \* one of them: the simulations and other job consumers
  Reaper,           \* a daemon, as far as it calls reap_expired()
  MaxAttempts,
  Enabled,          \* RecoveryController(enabled=...)
  Microbatch,       \* BatchPlan of a new optimize job
  FaultBudget       \* visits, kills, lost leases and handler errors, together

ASSUME RecoveryAssumption ==
  /\ Visitor \in Controllers /\ Reaper \notin Controllers /\ DOMAIN Kind = Jobs
  /\ SimJobs \subseteq Jobs
  /\ MaxAttempts \in Nat \ {0} /\ Microbatch \in Nat \ {0}
  /\ Enabled \in BOOLEAN /\ FaultBudget \in Nat
  /\ NONE \notin Jobs \cup {"live", "ancient"}

FailureClass == {"transient", "oom", "permanent", "unknown"}

VARIABLES
  state, attempts,
  fails,       \* history: the failures committed for each job
  lease,       \* NONE, "live", or "ancient": the expired lease of sim_kill_worker()
  queue,       \* job ids by created_at
  mb, ga,      \* microbatch_size and grad_accum_steps of the payload
  ctl,         \* each call: its job, the payload and the row it read, the ids
               \* it still has to reap, and what is next
  visits, kills, errors,
  broken,      \* history: jobs a killed controller call was in the middle of
  reaped       \* history: jobs whose lease ran out

tableVars == <<state, attempts, fails, lease, queue, mb, ga>>
recVars   == <<tableVars, ctl, visits, kills, errors, broken, reaped>>

FaultsLeft == visits + kills + errors + Cardinality(reaped) < FaultBudget

Processes == Controllers \cup {Reaper}

Resting == [pc |-> "idle", job |-> NONE, mb |-> 0, ga |-> 0, row |-> NONE, list |-> {}]

TableInit ==
  /\ state    = [j \in Jobs |-> ABSENT]
  /\ attempts = [j \in Jobs |-> 0]
  /\ fails    = [j \in Jobs |-> 0]
  /\ lease    = [j \in Jobs |-> NONE]
  /\ queue    = <<>>
  /\ mb       = [j \in Jobs |-> Microbatch]
  /\ ga       = [j \in Jobs |-> 1]
  /\ ctl      = [c \in Processes |-> Resting]
  /\ visits = 0 /\ kills = 0 /\ errors = 0 /\ broken = {} /\ reaped = {}

-----------------------------------------------------------------------------
(* The calls of the job store. transition() and fail() write what they      *)
(* computed from the row r they read, if the state is still the one in r.   *)

create(j) ==
  /\ state[j] = ABSENT
  /\ state' = [state EXCEPT ![j] = PENDING]
  /\ queue' = Append(queue, j)
  /\ UNCHANGED <<attempts, fails, lease, mb, ga>>

\* get()
Row(j) == [st |-> state[j], at |-> attempts[j]]

\* InvalidTransition or ConcurrentModification.
Refused(j, r, to) == ~can_transition(r.st, to) \/ state[j] # r.st

\* The UPDATE: every one leaves the lease NULL.
Write(j, to, at, charge) ==
  /\ state'    = [state EXCEPT ![j] = to]
  /\ attempts' = [attempts EXCEPT ![j] = at]
  /\ fails'    = [fails EXCEPT ![j] = @ + charge]
  /\ lease'    = [lease EXCEPT ![j] = NONE]
  /\ UNCHANGED <<queue, mb, ga>>

\* transition(), which counts the attempt when the job failed.
transition(j, r, to) ==
  /\ r # NONE /\ ~Refused(j, r, to)
  /\ IF to = FAILED THEN Write(j, to, r.at + 1, 1) ELSE Write(j, to, r.at, 0)

FailTarget(r) == IF r.at + 1 >= MaxAttempts THEN DEAD_LETTER ELSE PENDING

fail(j, r) ==
  /\ r # NONE /\ ~Refused(j, r, FAILED)
  /\ Write(j, FailTarget(r), r.at + 1, 1)

\* Mutant: a job that is RUNNING is handed out as well.
IsOldestAny(j, kinds) ==
  \E p \in DOMAIN queue :
    /\ queue[p] = j /\ state[j] \in {PENDING, RUNNING} /\ Kind[j] \in kinds
    /\ \A q \in 1..(p - 1) : ~(state[queue[q]] = PENDING /\ Kind[queue[q]] \in kinds)

\* claim(kinds): the oldest PENDING job.
IsOldest(j, kinds) ==
  \E p \in DOMAIN queue :
    /\ queue[p] = j /\ state[j] = PENDING /\ Kind[j] \in kinds
    /\ \A q \in 1..(p - 1) : ~(state[queue[q]] = PENDING /\ Kind[queue[q]] \in kinds)

NothingToClaim(kinds) == \A j \in Jobs : ~(state[j] = PENDING /\ Kind[j] \in kinds)

claim(j, kinds) ==
  /\ IsOldest(j, kinds)
  /\ state' = [state EXCEPT ![j] = RUNNING]
  /\ lease' = [lease EXCEPT ![j] = "live"]
  /\ UNCHANGED <<attempts, fails, queue, mb, ga>>

\* update_payload(): whatever state the job is in.
update_payload(j, m, g) ==
  /\ mb' = [mb EXCEPT ![j] = m]
  /\ ga' = [ga EXCEPT ![j] = g]
  /\ UNCHANGED <<state, attempts, fails, lease, queue>>

-----------------------------------------------------------------------------
(* RecoveryController.handle(), called by c for job j with an exception of  *)
(* class fc. Control(c, r) records how far the call is.                     *)

Control(c, r) == ctl' = [ctl EXCEPT ![c] = r]
At(c, l) == ctl[c].pc = l
Goto(c, l) == Control(c, [ctl[c] EXCEPT !.pc = l, !.row = NONE])

\* The SELECT of the transition() or fail() that is next.
SelectRow(c) ==
  /\ ctl[c].pc \in {"fail", "bury", "buried", "sim"} /\ ctl[c].row = NONE
  /\ Control(c, [ctl[c] EXCEPT !.row = Row(ctl[c].job)])
  /\ UNCHANGED tableVars

\* Its UPDATE finds what was read, and the call goes on at l, ...
Transition(c, to, l) == transition(ctl[c].job, ctl[c].row, to) /\ Goto(c, l)

\* ... or it raises.
Raise(c, to, l) ==
  /\ ctl[c].row # NONE /\ Refused(ctl[c].job, ctl[c].row, to)
  /\ Goto(c, l) /\ UNCHANGED tableVars

\* Mutant: the accumulation is doubled although the microbatch stays.
ShrunkTwice(m, g) == [mb |-> m, ga |-> g * 2]

\* BatchPlan.shrink()
Shrunk(m, g) ==
  LET new == IF m \div 2 > 1 THEN m \div 2 ELSE 1
  IN  [mb |-> new, ga |-> g * (m \div new)]

\* The job is read (its payload with it) and the exception classified.
Handle(c, j, fc) ==
  /\ Control(c, [Resting EXCEPT
                  !.pc = CASE ~Enabled -> "fail"
                           [] Enabled /\ fc = "permanent" -> "bury"
                           [] Enabled /\ fc = "oom" -> IF mb[j] > 1 THEN "shrink" ELSE "bury"
                           [] OTHER -> "fail",
                  !.job = j, !.mb = mb[j], !.ga = ga[j]])
  /\ UNCHANGED tableVars

ShrinkPayload(c) ==
  /\ At(c, "shrink")
  /\ LET new == Shrunk(ctl[c].mb, ctl[c].ga) IN
       update_payload(ctl[c].job, new.mb, new.ga)
  /\ Goto(c, "fail")

\* A call that raises leaves handle(); what it committed before stays.
FailJob(c) ==
  /\ At(c, "fail")
  /\ \/ fail(ctl[c].job, ctl[c].row) /\ Goto(c, "handled")
     \/ Raise(c, FAILED, "raised")

\* Mutant: the second commit is forgotten.
BuryHalf(c) ==
  /\ At(c, "bury")
  /\ Transition(c, FAILED, "handled") \/ Raise(c, FAILED, "raised")

\* _dead_letter_now(): two commits.
Bury(c) ==
  /\ At(c, "bury")
  /\ Transition(c, FAILED, "buried") \/ Raise(c, FAILED, "raised")

DeadLetter(c) ==
  /\ At(c, "buried")
  /\ Transition(c, DEAD_LETTER, "handled") \/ Raise(c, DEAD_LETTER, "raised")

\* A process that holds j in the middle of a call.
HeldBy(c, j) == ctl[c].job = j /\ ctl[c].pc \notin {"idle", "handled", "raised", "reaping", "expire"}

HandleStep(c) ==
  /\ SelectRow(c) \/ ShrinkPayload(c) \/ FailJob(c) \/ Bury(c) \/ DeadLetter(c)
  /\ UNCHANGED <<visits, kills, errors, broken, reaped>>

-----------------------------------------------------------------------------
(* reap_expired(), called by c: the ids are listed, ...                     *)

ListExpired(c, ids) == /\ Control(c, [ctl[c] EXCEPT !.pc = "reaping", !.list = ids])
                       /\ UNCHANGED tableVars

\* ... then failed one after the other, whatever became of their leases. The
\* SELECT of fail(), ...
ReapNext(c) ==
  /\ At(c, "reaping")
  /\ \/ \E j \in ctl[c].list :
          Control(c, [ctl[c] EXCEPT !.pc = "expire", !.job = j, !.list = @ \ {j}, !.row = Row(j)])
     \/ ctl[c].list = {} /\ Control(c, Resting)
  /\ UNCHANGED tableVars

\* ... and its UPDATE: the first one that raises ends the call.
ReapFail(c) ==
  /\ At(c, "expire")
  /\ \/ fail(ctl[c].job, ctl[c].row) /\ Goto(c, "reaping")
     \/ /\ Refused(ctl[c].job, ctl[c].row, FAILED)
        /\ Control(c, Resting) /\ UNCHANGED tableVars

ReapStep(c) == /\ ReapNext(c) \/ ReapFail(c)
               /\ UNCHANGED <<visits, kills, errors, broken, reaped>>

\* A daemon: leases ran out, whatever their holders are doing.
LeasesExpire(ids) ==
  /\ At(Reaper, "idle") /\ FaultsLeft
  /\ ids # {} /\ \A j \in ids : state[j] = RUNNING /\ lease[j] # NONE
  /\ ListExpired(Reaper, ids)
  /\ reaped' = reaped \cup ids
  /\ UNCHANGED <<visits, kills, errors, broken>>

ReaperStep == ReapStep(Reaper) \/ \E ids \in SUBSET {j \in Jobs : lease[j] # NONE} : LeasesExpire(ids)

-----------------------------------------------------------------------------
(* The visitor: simulations started from the operations console, and        *)
(* consumers of the queue that report their failures to the controller.     *)

v == Visitor

\* sim_oom(), sim_kill_worker(): a job of their own, ...
SimCreate(j) ==
  /\ At(v, "idle") /\ FaultsLeft
  /\ j \in SimJobs /\ create(j)
  /\ Control(v, [Resting EXCEPT !.pc = "sim", !.job = j])
  /\ visits' = visits + 1
  /\ UNCHANGED <<kills, errors, broken, reaped>>

\* ... moved to RUNNING by transition(), which raises if a worker was faster,
SimRun ==
  /\ At(v, "sim")
  /\ \/ Transition(v, RUNNING, IF Kind[ctl[v].job] = "optimize" THEN "oom" ELSE "renew")
     \/ Raise(v, RUNNING, "raised")
  /\ UNCHANGED <<visits, kills, errors, broken, reaped>>

\* ... then failed as an OOM, ...
SimOom ==
  /\ At(v, "oom")
  /\ Handle(v, ctl[v].job, "oom")
  /\ UNCHANGED <<visits, kills, errors, broken, reaped>>

\* ... or given an expired lease, ...
SimRenew ==
  /\ At(v, "renew")
  /\ LET j == ctl[v].job IN
     \/ /\ state[j] = RUNNING
        /\ lease' = [lease EXCEPT ![j] = "ancient"]
        /\ Goto(v, "reap")
        /\ UNCHANGED <<state, attempts, fails, queue, mb, ga>>
     \/ state[j] # RUNNING /\ Control(v, Resting) /\ UNCHANGED tableVars
  /\ UNCHANGED <<visits, kills, errors, broken, reaped>>

\* ... by which reap_expired(now=10_000) finds it, and its like.
SimReap ==
  /\ At(v, "reap")
  /\ ListExpired(v, {j \in Jobs : state[j] = RUNNING /\ lease[j] = "ancient"})
  /\ UNCHANGED <<visits, kills, errors, broken, reaped>>

ConsumerClaim ==
  /\ At(v, "idle") /\ FaultsLeft
  /\ \E j \in Jobs : /\ claim(j, {"optimize"})
                     /\ Control(v, [Resting EXCEPT !.pc = "consume", !.job = j])
  /\ visits' = visits + 1
  /\ UNCHANGED <<kills, errors, broken, reaped>>

ConsumerFails(fc) ==
  /\ At(v, "consume")
  /\ Handle(v, ctl[v].job, fc)
  /\ UNCHANGED <<visits, kills, errors, broken, reaped>>

VisitorDone ==
  /\ ctl[v].pc \in {"handled", "raised"}
  /\ Control(v, Resting)
  /\ UNCHANGED <<tableVars, visits, kills, errors, broken, reaped>>

VisitorKilled ==
  /\ ctl[v].pc \notin {"idle", "handled", "raised"}
  /\ FaultsLeft
  /\ kills' = kills + 1
  /\ broken' = broken \cup {j \in Jobs : HeldBy(v, j)}
  /\ Control(v, Resting)
  /\ UNCHANGED <<tableVars, visits, errors, reaped>>

VisitorStep ==
  \/ \E j \in SimJobs : SimCreate(j)
  \/ SimRun \/ SimOom \/ SimRenew \/ SimReap \/ ReapStep(v)
  \/ ConsumerClaim \/ \E fc \in FailureClass : ConsumerFails(fc)
  \/ HandleStep(v) \/ VisitorDone

-----------------------------------------------------------------------------
\* The optimization is the same after any number of recoveries: microbatch
\* times accumulation is kept, although controllers write payloads they read
\* before another one did (BatchPlan.shrink(), update_payload()).
EffectiveBatchKept == \A j \in Jobs : mb[j] * ga[j] = Microbatch

\* Nothing is left where no reaper and no worker finds it (FAILED, or RUNNING
\* without a lease) unless the process that put it there is still at it, or
\* was killed in between: the controller's two commits and the simulations'
\* unleased RUNNING have no other window.
StrandedHasCulprit ==
  \A j \in Jobs :
    state[j] \in {FAILED, RETRYING} \/ (state[j] = RUNNING /\ lease[j] = NONE) =>
      j \in broken \/ \E c \in Controllers : HeldBy(c, j)

=============================================================================
