---------------------------- MODULE PipelineProofs ----------------------------
(***************************************************************************)
(* The pipeline and the recovery controller, for any number of runs,       *)
(* steps, prompts, workers, attempts and faults.                           *)
(*                                                                         *)
(* The table only moves by the UPDATEs of the job store (TableStep), so    *)
(* most invariants are about one of them: what a controller knows when it  *)
(* makes it (Culprits), although the row it read may be stale (Readings),  *)
(* what a worker has written before it (Accounted), how often the job was  *)
(* handed out (Paid), and that nobody else touches the optimize job of an  *)
(* undisturbed run (OnCourse).                                             *)
(***************************************************************************)
EXTENDS Pipeline, FiniteSetTheorems, TLAPS

States == JobState \cup {ABSENT}

\* The types of the job table, of the controller calls, and of the pipeline.
TableTypeOK ==
  /\ state \in [Jobs -> States]
  /\ attempts \in [Jobs -> Nat]
  /\ fails \in [Jobs -> Nat]
  /\ lease \in [Jobs -> {NONE, "live", "ancient"}]
  /\ mb \in [Jobs -> Nat] /\ ga \in [Jobs -> Nat]

\* What get() can have returned.
Rows == [st : States, at : Nat]

\* Where a call of handle(), or the visitor or the reaper, can be with a job.
Busy == {"shrink", "fail", "bury", "buried", "sim", "oom", "renew", "reap", "expire", "consume"}

CtlRecords == [pc : Busy \cup {"idle", "handled", "raised", "reaping"}, job : Jobs \cup {NONE},
               mb : Nat, ga : Nat, row : Rows \cup {NONE}, list : SUBSET Jobs]

CtlTypeOK ==
  /\ ctl \in [Processes -> CtlRecords]
  /\ \A c \in Processes : ctl[c].pc \in Busy => ctl[c].job \in Jobs
  /\ broken \subseteq Jobs
  /\ visits \in Nat

\* Where the pipeline process can be while its pool is not running, ...
Alone == {"enqueue", "claim", "oom", "handling", "reclaim", "aggregate", "save", "complete"}

MainTypeOK ==
  main \in [pc : Alone \cup {"pool", "done", "raised", "killed"}, run : 1..Runs, step : 1..Steps,
            row : Rows \cup {NONE}]

\* ... and where a worker is with a job.
AtWork == {"put", "complete", "recorded", "fail"}

WorkerRecords == [pc : AtWork \cup {"gone", "claim"}, job : Jobs \cup {NONE}, left : 0..Samples,
                  row : Rows \cup {NONE}]

WorkerTypeOK ==
  /\ worker \in [Workers -> WorkerRecords]
  /\ \A w \in Workers : worker[w].pc \in AtWork => worker[w].job \in Jobs
  /\ trajs \in [Jobs -> Nat]
  /\ deaths \in BOOLEAN

PipeTypeOK == TableTypeOK /\ CtlTypeOK /\ MainTypeOK /\ WorkerTypeOK

\* The pipeline process is in a call of handle() exactly when it is handling an
\* OOM, and for the optimize job it is at.
MainCalls ==
  /\ main.pc # "handling" => ctl[Main].pc = "idle"
  /\ main.pc = "handling" =>
       /\ ctl[Main].pc \in {"shrink", "fail", "bury", "buried", "handled", "raised"}
       /\ ctl[Main].job = Own

\* Who is to blame for a job nobody will find: FAILED, or RUNNING without a lease.
Culprits ==
  \A j \in Jobs :
    /\ state[j] # RETRYING
    /\ state[j] = FAILED => \/ j \in broken
                            \/ \E c \in Controllers : ctl[c].pc = "buried" /\ ctl[c].job = j
    /\ state[j] = RUNNING /\ lease[j] = NONE =>
         \/ j \in broken
         \/ /\ ctl[Visitor].pc \in {"oom", "renew", "shrink", "fail", "bury"}
            /\ ctl[Visitor].job = j

\* What a row that was read says of the job now: nobody but the controller at
\* it takes a job out of FAILED, nobody but the visitor takes one to RUNNING
\* without a lease.
Readings ==
  /\ \A c \in Controllers : ctl[c].pc = "buried" =>
       /\ state[ctl[c].job] \in {FAILED, DEAD_LETTER}
       /\ ctl[c].row # NONE => \/ ctl[c].row.st = FAILED
                               \/ ctl[c].row.st = DEAD_LETTER /\ state[ctl[c].job] = DEAD_LETTER
  /\ ctl[Visitor].pc \in {"fail", "bury"} /\ ctl[Visitor].row # NONE =>
       \/ ctl[Visitor].row.st = RUNNING
       \/ state[ctl[Visitor].job] # RUNNING \/ lease[ctl[Visitor].job] # NONE

\* What each worker has written, and what is recorded.
Accounted ==
  /\ \A w \in Workers :
       /\ worker[w].pc = "put" => trajs[worker[w].job] + worker[w].left >= Samples
       /\ worker[w].pc \in {"complete", "recorded"} => worker[w].job \in results
  /\ RecordedIsComplete

\* The trajectories that workers under way with j still have to put.
Outstanding(j) == {x \in Workers \X (1..Samples) :
                     /\ worker[x[1]].pc = "put" /\ worker[x[1]].job = j
                     /\ x[2] <= worker[x[1]].left}

\* How often j can have been claimed.
Deliveries(j) == fails[j] + (IF state[j] \in {ABSENT, PENDING} THEN 0 ELSE 1)

\* Trajectories written, and those still to be put, fit the deliveries.
Paid == \A j \in Jobs :
          trajs[j] + Cardinality(Outstanding(j)) <= Samples * Deliveries(j)

\* No simulation, consumer or dead worker has interfered, and no lease of an
\* optimize job was lost.
Undisturbed == /\ visits = 0 /\ ~deaths
               /\ \A j \in reaped : Kind[j] # "optimize"

\* The optimize jobs a claim could return.
Waiting == {j \in Jobs : state[j] = PENDING /\ Kind[j] = "optimize"}

\* The course of an undisturbed run: the pool leaves no optimize job behind, so
\* the one that is claimed, failed and claimed again is the run's own.
Course ==
  /\ ctl[Visitor].pc = "idle"
  /\ \A j \in Jobs : state[j] = ABSENT => attempts[j] = 0 /\ mb[j] = Microbatch
  /\ main.pc = "pool" /\ Waiting # {} => \E w \in Workers : worker[w].pc # "gone"
  /\ main.pc \in {"claim", "reclaim"} => Waiting = {Own}
  /\ main.pc \in {"claim", "oom"} => attempts[Own] = 0 /\ mb[Own] = Microbatch
  /\ main.pc \in {"oom", "handling", "aggregate", "save", "complete"} => Waiting \subseteq {Own}
  /\ main.pc \in {"oom", "aggregate", "save", "complete"} => state[Own] = RUNNING
  /\ main.pc = "handling" =>
       /\ ctl[Main].pc \in {"shrink", "fail", "handled"}
       /\ ctl[Main].pc = "handled" => state[Own] = PENDING
       /\ ctl[Main].pc # "handled" => state[Own] = RUNNING /\ attempts[Own] = 0
       /\ ctl[Main].row # NONE => ctl[Main].row.st = RUNNING /\ ctl[Main].row.at = 0
  /\ main.pc = "complete" /\ main.row # NONE => main.row.st = RUNNING
  /\ main.pc # "raised"
  /\ \A j \in ctl[Reaper].list : Kind[j] # "optimize"
  /\ ctl[Reaper].pc = "expire" => Kind[ctl[Reaper].job] # "optimize"

\* The pool has ended wherever the pipeline process acts.
Rested == main.pc \in Alone => \A w \in Workers : worker[w].pc = "gone"

\* What RaisesOnlyIfDisturbed needs.
OnCourse == Rested /\ (Undisturbed => Course)

\* The invariant of the pipeline, whatever is done to it.
PipeInv == PipeTypeOK /\ MainCalls /\ Culprits /\ Readings /\ Accounted /\ Paid

-----------------------------------------------------------------------------
USE DEF Busy, AtWork, Alone

\* The parameters that are numbers.
LEMMA Sizes == /\ Runs \in Nat \ {0} /\ Steps \in Nat \ {0} /\ Samples \in Nat
               /\ MaxAttempts \in Nat \ {0} /\ Microbatch \in Nat \ {0}
BY PipelineAssumption, RecoveryAssumption

\* The states are strings that differ.
LEMMA StateNames ==
  /\ PENDING = "pending" /\ RUNNING = "running" /\ PAUSED = "paused"
  /\ SUCCEEDED = "succeeded" /\ FAILED = "failed" /\ RETRYING = "retrying"
  /\ DEAD_LETTER = "dead_letter" /\ CANCELLED = "cancelled" /\ ABSENT = "absent"
BY DEF PENDING, RUNNING, PAUSED, SUCCEEDED, FAILED, RETRYING, DEAD_LETTER, CANCELLED, ABSENT

\* The edges of the transition graph that the pipeline's actors use.
LEMMA Edges ==
  ASSUME NEW s
  PROVE  /\ can_transition(s, FAILED) <=> s = RUNNING
         /\ can_transition(s, SUCCEEDED) <=> s = RUNNING
         /\ can_transition(s, RUNNING) <=> s = PENDING
         /\ can_transition(s, DEAD_LETTER) <=> s \in {FAILED, RETRYING}
BY StateNames DEF can_transition, Transitions

\* What an UPDATE does to the table, with k failures more, and whatever the
\* attempts become.
Moves(j, to, k) ==
  /\ state' = [state EXCEPT ![j] = to]
  /\ fails' = [fails EXCEPT ![j] = @ + k]
  /\ lease' = [lease EXCEPT ![j] = NONE]
  /\ \E n \in Nat : attempts' = [attempts EXCEPT ![j] = n]
  /\ UNCHANGED <<queue, mb, ga>>

\* A call of the job store about job j, or the UPDATE of one.
Calls(j) ==
  \/ create(j)
  \/ state[j] = RUNNING /\ \E to \in {PENDING, DEAD_LETTER} : Moves(j, to, 1)
  \/ /\ state[j] = RUNNING /\ Moves(j, SUCCEEDED, 0)
     /\ \/ Kind[j] = "optimize"
        \/ \E w \in Workers : worker[w].pc \in {"complete", "recorded"} /\ worker[w].job = j
  \/ state[j] \in {FAILED, RETRYING} /\ Moves(j, DEAD_LETTER, 0)
  \/ /\ state[j] = PENDING /\ Moves(j, RUNNING, 0)
     /\ ctl[v].job = j /\ ctl'[v].job = j /\ ctl'[v].pc \in {"oom", "renew"}
  \/ /\ state[j] = RUNNING /\ Moves(j, FAILED, 1)
     /\ \E c \in Controllers : /\ ctl[c].job = j /\ ctl[c].pc = "bury"
                               /\ ctl'[c].job = j /\ ctl'[c].pc = "buried" /\ ctl'[c].row = NONE
  \/ claim(j, {"optimize"}) \/ claim(j, Kinds)
  \/ \E c \in Controllers :
       /\ At(c, "shrink") /\ ctl[c].job = j
       /\ update_payload(j, Shrunk(ctl[c].mb, ctl[c].ga).mb, Shrunk(ctl[c].mb, ctl[c].ga).ga)
  \/ /\ state[j] = RUNNING /\ lease' = [lease EXCEPT ![j] = "ancient"]
     /\ UNCHANGED <<state, attempts, fails, queue, mb, ga>>

\* transition() and fail() as moves: the guard of the UPDATE is on the state.
LEMMA Updates ==
  ASSUME NEW j, NEW r \in Rows \cup {NONE}
  PROVE  /\ fail(j, r) => /\ state[j] = RUNNING /\ r.st = RUNNING
                          /\ FailTarget(r) \in {PENDING, DEAD_LETTER}
                          /\ Moves(j, FailTarget(r), 1)
         /\ transition(j, r, SUCCEEDED) => state[j] = RUNNING /\ Moves(j, SUCCEEDED, 0)
         /\ transition(j, r, RUNNING) => state[j] = PENDING /\ Moves(j, RUNNING, 0)
         /\ transition(j, r, DEAD_LETTER) =>
              state[j] \in {FAILED, RETRYING} /\ Moves(j, DEAD_LETTER, 0)
         /\ transition(j, r, FAILED) => state[j] = RUNNING /\ Moves(j, FAILED, 1)
<1>1. r # NONE => r.at \in Nat /\ r.at + 1 \in Nat
  BY DEF Rows
<1>2. ASSUME NEW to, NEW n \in Nat, NEW k, Write(j, to, n, k) PROVE Moves(j, to, k)
  BY <1>2 DEF Write, Moves
<1>3. ASSUME fail(j, r)
      PROVE  /\ state[j] = RUNNING /\ r.st = RUNNING /\ FailTarget(r) \in {PENDING, DEAD_LETTER}
             /\ Moves(j, FailTarget(r), 1)
  <2>1. r # NONE /\ can_transition(r.st, FAILED) /\ state[j] = r.st
        /\ Write(j, FailTarget(r), r.at + 1, 1)
    BY <1>3 DEF fail, Refused
  <2> QED BY <1>1, <1>2, <2>1, Edges DEF FailTarget
<1>4. ASSUME NEW to, transition(j, r, to)
      PROVE  /\ can_transition(state[j], to)
             /\ to = FAILED => Moves(j, to, 1)
             /\ to # FAILED => Moves(j, to, 0)
  <2>1. r # NONE /\ can_transition(r.st, to) /\ state[j] = r.st
        /\ IF to = FAILED THEN Write(j, to, r.at + 1, 1) ELSE Write(j, to, r.at, 0)
    BY <1>4 DEF transition, Refused
  <2> QED BY <1>1, <1>2, <2>1
<1> QED BY <1>3, <1>4, Edges, StateNames

\* The job the pipeline is at is one, and is an optimize job.
LEMMA OwnIsAJob == MainTypeOK => Own \in Jobs /\ Kind[Own] = "optimize"
BY PipelineAssumption DEF MainTypeOK, Own

\* Who makes the calls.
LEMMA Members ==
  /\ Main \in Controllers /\ Visitor \in Controllers /\ Main # Visitor
  /\ Controllers = {Main, Visitor} /\ Reaper \notin Controllers
  /\ Main \in Processes /\ Visitor \in Processes /\ Reaper \in Processes
  /\ \A c \in Controllers : c \in Processes
  /\ Main # Reaper /\ Visitor # Reaper
BY PipelineAssumption, RecoveryAssumption DEF Processes

\* Where a call goes on, its job and what it read of the payload stay.
LEMMA GoingOn ==
  ASSUME CtlTypeOK, NEW c \in Processes, NEW l, Goto(c, l)
  PROVE  /\ ctl'[c].pc = l /\ ctl'[c].job = ctl[c].job /\ ctl'[c].row = NONE
         /\ ctl'[c].mb = ctl[c].mb /\ ctl'[c].ga = ctl[c].ga /\ ctl'[c].list = ctl[c].list
         /\ \A d \in Processes : d # c => ctl'[d] = ctl[d]
BY DEF CtlTypeOK, CtlRecords, Goto, Control

\* A step of handle() is such a call, or none.
LEMMA HandleCalls ==
  ASSUME CtlTypeOK, NEW c \in Controllers, HandleStep(c)
  PROVE  UNCHANGED tableVars \/ Calls(ctl[c].job)
<1>0. c \in Processes /\ ctl[c].row \in Rows \cup {NONE}
  BY Members DEF CtlTypeOK, CtlRecords
<1>1. CASE SelectRow(c)
  BY <1>1 DEF SelectRow
<1>2. CASE ShrinkPayload(c)
  BY <1>2 DEF ShrinkPayload, Calls
<1>3. CASE FailJob(c)
  BY <1>0, <1>3, Updates DEF FailJob, Raise, Calls
<1>4. CASE Bury(c)
  <2>1. CASE Transition(c, FAILED, "buried")
    BY <1>0, <1>4, <2>1, Updates, GoingOn DEF Bury, At, Transition, Calls
  <2> QED BY <1>4, <2>1 DEF Bury, Raise
<1>5. CASE DeadLetter(c)
  BY <1>0, <1>5, Updates DEF DeadLetter, Transition, Raise, Calls
<1> QED BY <1>1, <1>2, <1>3, <1>4, <1>5 DEF HandleStep

\* And so is a step of reap_expired().
LEMMA ReapCalls ==
  ASSUME CtlTypeOK, NEW c \in Processes, ReapStep(c)
  PROVE  UNCHANGED tableVars \/ \E j \in Jobs : Calls(j)
<1>0. ctl[c].row \in Rows \cup {NONE}
  BY DEF CtlTypeOK, CtlRecords
<1>1. CASE ReapNext(c)
  BY <1>1 DEF ReapNext
<1>2. CASE ReapFail(c)
  <2>1. ctl[c].job \in Jobs
    BY <1>2 DEF ReapFail, At, CtlTypeOK
  <2> QED BY <1>0, <1>2, <2>1, Updates DEF ReapFail, Calls
<1> QED BY <1>1, <1>2 DEF ReapStep

\* The table moves by one call at a time, or not at all.
LEMMA TableStep ==
  ASSUME PipeTypeOK, [Next]_vars
  PROVE  UNCHANGED tableVars \/ \E j \in Jobs : Calls(j)
<1> USE DEF PipeTypeOK
<1>0. Main \in Controllers /\ Visitor \in Controllers
  BY PipelineAssumption
<1>1. ASSUME NEW c \in Controllers, HandleStep(c)
      PROVE  UNCHANGED tableVars \/ \E j \in Jobs : Calls(j)
  <2>1. ctl[c].pc \in Busy => ctl[c].job \in Jobs
    BY Members DEF CtlTypeOK
  <2>2. ctl[c].job \in Jobs
    BY <1>1, <2>1 DEF HandleStep, SelectRow, ShrinkPayload, FailJob, Bury, DeadLetter, At
  <2> QED BY <1>1, <2>2, HandleCalls
<1>2. CASE MainStep
  <2>1. ASSUME NEW p \in Prompts, Enqueue(p) PROVE \E j \in Jobs : Calls(j)
    <3>1. Rollout[main.run, main.step, p] \in Jobs
      BY PipelineAssumption DEF MainTypeOK
    <3> QED BY <2>1, <3>1 DEF Enqueue, Calls
  <2>2. CASE JoinPool
    BY <2>2, OwnIsAJob DEF JoinPool, Calls
  <2>3. CASE CompleteOptimize
    <3>1. main.row \in Rows \cup {NONE}
      BY DEF MainTypeOK
    <3> QED BY <2>3, <3>1, OwnIsAJob, Updates DEF CompleteOptimize, Calls
  <2>4. CASE ClaimOptimize
    BY <2>4 DEF ClaimOptimize, Calls
  <2>5. CASE StartPool \/ InjectOom \/ OomHandled \/ Aggregate \/ SaveCheckpoint \/ SelectOptimize
    BY <2>5 DEF StartPool, InjectOom, Handle, OomHandled, Aggregate, SaveCheckpoint, SelectOptimize
  <2> QED BY <1>0, <1>1, <1>2, <2>1, <2>2, <2>3, <2>4, <2>5 DEF MainStep
<1>3. CASE MainKilled \/ Restart
  BY <1>3 DEF MainKilled, Restart
<1>4. ASSUME NEW w \in Workers, WorkerStep(w) \/ HandlerRaises(w) \/ WorkerKilled(w)
      PROVE  UNCHANGED tableVars \/ \E j \in Jobs : Calls(j)
  <2>1. CASE WorkerClaim(w)
    BY <2>1 DEF WorkerClaim, Calls
  <2>2. CASE WorkerCompletes(w) \/ WorkerFails(w)
    <3>1. worker[w].job \in Jobs /\ worker[w].row \in Rows \cup {NONE}
      BY <2>2 DEF WorkerTypeOK, WorkerRecords, WorkerCompletes, WorkerFails
    <3> QED BY <2>2, <3>1, Updates DEF WorkerCompletes, WorkerFails, Calls
  <2>3. CASE Put(w) \/ Record(w) \/ WorkerSelects(w) \/ HandlerRaises(w) \/ WorkerKilled(w)
    BY <2>3 DEF Put, Record, WorkerSelects, HandlerRaises, WorkerKilled
  <2> QED BY <1>4, <2>1, <2>2, <2>3 DEF WorkerStep
<1>5. CASE VisitorStep
  <2>0. /\ ctl[v].pc \in Busy => ctl[v].job \in Jobs
        /\ ctl[v].row \in Rows \cup {NONE} /\ v \in Processes
    BY Members DEF CtlTypeOK, CtlRecords, v
  <2>2. ASSUME NEW j \in SimJobs, SimCreate(j) PROVE \E i \in Jobs : Calls(i)
    BY <2>2, RecoveryAssumption DEF SimCreate, Calls
  <2>3. CASE SimRun
    <3>1. ctl[v].job \in Jobs
      BY <2>0, <2>3 DEF SimRun, At
    <3>2. ASSUME NEW l \in {"oom", "renew"}, Transition(v, RUNNING, l) PROVE Calls(ctl[v].job)
      BY <2>0, <3>2, Updates, GoingOn DEF Transition, Calls
    <3> QED BY <2>3, <3>1, <3>2 DEF SimRun, Raise
  <2>4. CASE SimRenew
    BY <2>0, <2>4 DEF SimRenew, At, Calls
  <2>5. CASE ConsumerClaim
    BY <2>5 DEF ConsumerClaim, Calls
  <2>6. CASE SimReap \/ SimOom \/ (\E fc \in FailureClass : ConsumerFails(fc)) \/ VisitorDone
    BY <2>6 DEF SimReap, ListExpired, SimOom, ConsumerFails, VisitorDone, Handle
  <2> QED BY <1>0, <1>1, <1>5, <2>0, <2>2, <2>3, <2>4, <2>5, <2>6, ReapCalls DEF VisitorStep, v
<1>6. CASE VisitorKilled
  BY <1>6 DEF VisitorKilled
<1>7. CASE ReaperStep
  BY <1>7, ReapCalls, Members DEF ReaperStep, LeasesExpire, ListExpired
<1>8. CASE UNCHANGED vars
  BY <1>8 DEF vars, recVars
<1> QED BY <1>2, <1>3, <1>4, <1>5, <1>6, <1>7, <1>8 DEF Next

\* Shrinking a plan gives a plan.
LEMMA ShrunkType ==
  ASSUME NEW m \in Nat, NEW g \in Nat
  PROVE  Shrunk(m, g).mb \in Nat /\ Shrunk(m, g).ga \in Nat
<1>1. m \div 2 \in Nat
  OBVIOUS
<1>2. ASSUME NEW n \in Nat, n > 0 PROVE m \div n \in Nat /\ g * (m \div n) \in Nat
  BY <1>2
<1> QED BY <1>1, <1>2 DEF Shrunk

\* A call of the job store keeps the table in its type.
LEMMA TableType ==
  ASSUME TableTypeOK, CtlTypeOK, UNCHANGED tableVars \/ \E j \in Jobs : Calls(j)
  PROVE  TableTypeOK'
<1> USE DEF TableTypeOK
<1>1. CASE UNCHANGED tableVars
  BY <1>1 DEF tableVars
<1>2. ASSUME NEW j \in Jobs, Calls(j) PROVE TableTypeOK'
  <2>0. {PENDING, RUNNING, SUCCEEDED, FAILED, DEAD_LETTER} \subseteq States
    BY DEF States, JobState
  <2>1. CASE create(j)
    BY <2>0, <2>1 DEF create
  <2>2. ASSUME NEW to \in {PENDING, RUNNING, SUCCEEDED, FAILED, DEAD_LETTER}, NEW k \in {0, 1},
               Moves(j, to, k)
        PROVE  TableTypeOK'
    BY <2>0, <2>2 DEF Moves
  <2>4. ASSUME NEW kinds, claim(j, kinds) PROVE TableTypeOK'
    BY <2>0, <2>4 DEF claim
  <2>5. ASSUME NEW c \in Controllers,
               update_payload(j, Shrunk(ctl[c].mb, ctl[c].ga).mb, Shrunk(ctl[c].mb, ctl[c].ga).ga)
        PROVE  TableTypeOK'
    <3>1. ctl[c].mb \in Nat /\ ctl[c].ga \in Nat
      BY Members DEF CtlTypeOK, CtlRecords
    <3> QED BY <2>5, <3>1, ShrunkType DEF update_payload
  <2>6. CASE lease' = [lease EXCEPT ![j] = "ancient"] /\ UNCHANGED <<state, attempts, fails, mb, ga>>
    BY <2>6
  <2> QED BY <1>2, <2>1, <2>2, <2>4, <2>5, <2>6 DEF Calls
<1> QED BY <1>1, <1>2

\* A row that is read is one.
LEMMA RowsRead == ASSUME TableTypeOK, NEW j \in Jobs PROVE Row(j) \in Rows
BY DEF TableTypeOK, Row, Rows

\* The controller calls stay in their type.
LEMMA CtlType ==
  ASSUME PipeTypeOK, [Next]_vars
  PROVE  CtlTypeOK'
<1> USE DEF PipeTypeOK
<1>1. ASSUME NEW c \in Processes, NEW r \in CtlRecords, Control(c, r), broken' \subseteq Jobs,
             visits' \in Nat, r.pc \in Busy => r.job \in Jobs
      PROVE  CtlTypeOK'
  BY <1>1 DEF CtlTypeOK, Control
<1>2. ASSUME UNCHANGED ctl, broken' \subseteq Jobs, visits' \in Nat PROVE CtlTypeOK'
  BY <1>2 DEF CtlTypeOK
<1>3. ASSUME NEW c \in Processes, NEW l \in Busy \cup {"idle", "handled", "raised", "reaping"},
             ctl[c].job \in Jobs \/ l \notin Busy,
             Goto(c, l), broken' \subseteq Jobs, visits' \in Nat
      PROVE  CtlTypeOK'
  <2> DEFINE r == [ctl[c] EXCEPT !.pc = l, !.row = NONE]
  <2>1. r \in CtlRecords /\ r.pc = l /\ r.job = ctl[c].job
    BY DEF CtlTypeOK, CtlRecords
  <2>2. Control(c, r)
    BY <1>3 DEF Goto
  <2> HIDE DEF r
  <2> QED BY <1>1, <1>3, <2>1, <2>2
<1>4. /\ Resting \in CtlRecords /\ Resting.pc = "idle"
      /\ \A l \in {"sim", "consume"}, j \in Jobs :
           /\ [Resting EXCEPT !.pc = l, !.job = j] \in CtlRecords
           /\ [Resting EXCEPT !.pc = l, !.job = j].job = j
  BY DEF Resting, CtlRecords
<1>5. ASSUME NEW c \in Processes, NEW j \in Jobs, NEW fc, Handle(c, j, fc),
             UNCHANGED <<broken, visits>>
      PROVE  CtlTypeOK'
  <2> DEFINE next == CASE ~Enabled -> "fail"
                       [] Enabled /\ fc = "permanent" -> "bury"
                       [] Enabled /\ fc = "oom" -> IF mb[j] > 1 THEN "shrink" ELSE "bury"
                       [] OTHER -> "fail"
  <2> DEFINE r == [Resting EXCEPT !.pc = next, !.job = j, !.mb = mb[j], !.ga = ga[j]]
  <2>1. next \in {"fail", "bury", "shrink"} /\ mb[j] \in Nat /\ ga[j] \in Nat
    BY DEF TableTypeOK
  <2>2. Control(c, r)
    BY <1>5 DEF Handle
  <2> HIDE DEF next
  <2>3. r \in CtlRecords /\ r.job = j
    BY <2>1 DEF CtlRecords, Resting
  <2>4. broken' \subseteq Jobs /\ visits' \in Nat
    BY <1>5 DEF CtlTypeOK
  <2> HIDE DEF r
  <2> QED BY <1>1, <2>2, <2>3, <2>4
<1>6. ASSUME NEW c \in Controllers, HandleStep(c) PROVE CtlTypeOK'
  <2>0. /\ c \in Processes
        /\ ctl[c].pc \in Busy => ctl[c].job \in Jobs
    BY Members DEF CtlTypeOK
  <2>1. ctl[c].job \in Jobs
    BY <1>6, <2>0 DEF HandleStep, SelectRow, ShrinkPayload, FailJob, Bury, DeadLetter, At
  <2>2. broken' \subseteq Jobs /\ visits' \in Nat
    BY <1>6 DEF HandleStep, CtlTypeOK
  <2>3. CASE SelectRow(c)
    <3> DEFINE r == [ctl[c] EXCEPT !.row = Row(ctl[c].job)]
    <3>1. r \in CtlRecords /\ r.job = ctl[c].job
      BY <2>0, <2>1, RowsRead DEF CtlTypeOK, CtlRecords
    <3>2. Control(c, r)
      BY <2>3 DEF SelectRow
    <3> HIDE DEF r
    <3> QED BY <1>1, <2>0, <2>1, <2>2, <3>1, <3>2
  <2>4. CASE \E l \in {"fail", "handled", "raised", "buried"} : Goto(c, l)
    BY <1>3, <2>0, <2>1, <2>2, <2>4
  <2> QED BY <1>6, <2>3, <2>4 DEF HandleStep, ShrinkPayload, FailJob, Bury, DeadLetter, Transition,
             Raise
<1>7. ASSUME NEW c \in Processes, NEW ids \in SUBSET Jobs, ListExpired(c, ids),
             broken' \subseteq Jobs, visits' \in Nat
      PROVE  CtlTypeOK'
  <2> DEFINE r == [ctl[c] EXCEPT !.pc = "reaping", !.list = ids]
  <2>1. r \in CtlRecords /\ r.pc = "reaping"
    BY DEF CtlTypeOK, CtlRecords
  <2>2. Control(c, r)
    BY <1>7 DEF ListExpired
  <2> HIDE DEF r
  <2> QED BY <1>1, <1>7, <2>1, <2>2
<1>8. ASSUME NEW c \in Processes, ReapStep(c) PROVE CtlTypeOK'
  <2>1. broken' \subseteq Jobs /\ visits' \in Nat
    BY <1>8 DEF ReapStep, CtlTypeOK
  <2>2. CASE Control(c, Resting)
    BY <1>1, <1>4, <2>1, <2>2
  <2>3. ASSUME NEW j \in ctl[c].list,
               Control(c, [ctl[c] EXCEPT !.pc = "expire", !.job = j, !.list = @ \ {j}, !.row = Row(j)])
        PROVE  CtlTypeOK'
    <3> DEFINE r == [ctl[c] EXCEPT !.pc = "expire", !.job = j, !.list = @ \ {j}, !.row = Row(j)]
    <3>1. j \in Jobs /\ ctl[c].list \ {j} \in SUBSET Jobs
      BY DEF CtlTypeOK, CtlRecords
    <3>2. r \in CtlRecords /\ r.job = j
      BY <3>1, RowsRead DEF CtlTypeOK, CtlRecords
    <3>3. Control(c, r)
      BY <2>3
    <3> HIDE DEF r
    <3> QED BY <1>1, <2>1, <3>1, <3>2, <3>3
  <2>4. CASE Goto(c, "reaping")
    BY <1>3, <2>1, <2>4
  <2> QED BY <1>8, <2>2, <2>3, <2>4 DEF ReapStep, ReapNext, ReapFail
<1>9. CASE MainStep
  <2>1. CASE InjectOom
    BY <1>5, <2>1, OwnIsAJob, Members DEF InjectOom, RecFrame
  <2>2. CASE HandleStep(Main)
    BY <1>6, <2>2, Members
  <2>3. CASE OomHandled
    BY <1>1, <1>4, <2>3, Members DEF OomHandled, RecFrame, CtlTypeOK
  <2>4. ASSUME UNCHANGED ctl, RecFrame PROVE CtlTypeOK'
    BY <1>2, <2>4 DEF RecFrame, CtlTypeOK
  <2> QED BY <1>9, <2>1, <2>2, <2>3, <2>4 DEF MainStep, Enqueue, StartPool, JoinPool,
             ClaimOptimize, Aggregate, SaveCheckpoint, SelectOptimize, CompleteOptimize
<1>10. CASE MainKilled
  <2>1. broken' \subseteq Jobs /\ visits' \in Nat
    BY <1>10 DEF MainKilled, CtlTypeOK
  <2> QED BY <1>1, <1>4, <1>10, <2>1, Members DEF MainKilled
<1>11. CASE Restart \/ \E w \in Workers : WorkerStep(w) \/ HandlerRaises(w) \/ WorkerKilled(w)
  <2>1. UNCHANGED <<ctl, broken, visits>>
    BY <1>11 DEF Restart, WorkerStep, HandlerRaises, WorkerKilled, WorkerClaim, Put, Record,
                 WorkerSelects, WorkerCompletes, WorkerFails, PoolFrame, RecFrame
  <2> QED BY <1>2, <2>1 DEF CtlTypeOK
<1>12. CASE VisitorStep
  <2> USE DEF v
  <2>0. /\ ctl[v].pc \in Busy => ctl[v].job \in Jobs
        /\ v \in Controllers /\ v \in Processes
    BY Members DEF CtlTypeOK
  <2>1. ASSUME NEW j \in SimJobs, SimCreate(j) PROVE CtlTypeOK'
    <3>1. j \in Jobs /\ broken' \subseteq Jobs /\ visits' \in Nat
      BY <2>1, RecoveryAssumption DEF SimCreate, CtlTypeOK
    <3>2. Control(v, [Resting EXCEPT !.pc = "sim", !.job = j])
      BY <2>1 DEF SimCreate
    <3> QED BY <1>1, <1>4, <2>0, <3>1, <3>2
  <2>2. CASE SimRun \/ SimRenew
    <3>1. ctl[v].job \in Jobs /\ broken' \subseteq Jobs /\ visits' \in Nat
      BY <2>0, <2>2 DEF SimRun, SimRenew, At, CtlTypeOK
    <3>2. CASE Control(v, Resting)
      BY <1>1, <1>4, <2>0, <3>1, <3>2
    <3>3. CASE \E l \in {"oom", "renew", "raised", "reap"} : Goto(v, l)
      BY <1>3, <2>0, <3>1, <3>3
    <3> QED BY <2>2, <3>2, <3>3 DEF SimRun, SimRenew, Transition, Raise
  <2>3. CASE SimOom \/ \E fc \in FailureClass : ConsumerFails(fc)
    BY <1>5, <2>0, <2>3 DEF SimOom, ConsumerFails, At
  <2>4. CASE SimReap
    BY <1>7, <2>0, <2>4 DEF SimReap, CtlTypeOK
  <2>5. CASE VisitorDone
    BY <1>1, <1>4, <2>0, <2>5 DEF VisitorDone, CtlTypeOK
  <2>6. CASE ConsumerClaim
    <3>1. broken' \subseteq Jobs /\ visits' \in Nat
      BY <2>6 DEF ConsumerClaim, CtlTypeOK
    <3>2. PICK j \in Jobs : Control(v, [Resting EXCEPT !.pc = "consume", !.job = j])
      BY <2>6 DEF ConsumerClaim
    <3> QED BY <1>1, <1>4, <2>0, <3>1, <3>2
  <2> QED BY <1>6, <1>8, <1>12, <2>0, <2>1, <2>2, <2>3, <2>4, <2>5, <2>6 DEF VisitorStep
<1>13. CASE VisitorKilled
  <2>1. broken' \subseteq Jobs /\ visits' \in Nat
    BY <1>13 DEF VisitorKilled, CtlTypeOK
  <2> QED BY <1>1, <1>4, <1>13, <2>1, Members DEF VisitorKilled, v
<1>14. CASE ReaperStep
  <2>1. ASSUME NEW ids \in SUBSET {j \in Jobs : lease[j] # NONE}, LeasesExpire(ids) PROVE CtlTypeOK'
    <3>1. ids \in SUBSET Jobs /\ broken' \subseteq Jobs /\ visits' \in Nat
      BY <2>1 DEF LeasesExpire, CtlTypeOK
    <3> QED BY <1>7, <2>1, <3>1, Members DEF LeasesExpire
  <2> QED BY <1>8, <1>14, <2>1, Members DEF ReaperStep
<1>15. CASE UNCHANGED vars
  BY <1>2, <1>15 DEF vars, recVars, CtlTypeOK
<1> QED BY <1>9, <1>10, <1>11, <1>12, <1>13, <1>14, <1>15 DEF Next

\* The pipeline process stays in its type.
LEMMA MainType ==
  ASSUME PipeTypeOK, [Next]_vars
  PROVE  MainTypeOK'
<1> USE DEF PipeTypeOK, MainTypeOK, MainTo
<1>1. CASE MainStep
  <2>1. CASE NextStep
    <3>1. main.step \in 1..Steps /\ main.step \in Nat /\ Steps \in Nat
      BY Sizes
    <3>2. CASE main.step = Steps
      BY <2>1, <3>2 DEF NextStep
    <3>3. CASE main.step # Steps
      <4>1. main' = [main EXCEPT !.pc = "enqueue", !.step = main.step + 1, !.row = NONE]
        BY <2>1, <3>3 DEF NextStep
      <4>2. main.step + 1 \in 1..Steps
        BY <3>1, <3>3
      <4> QED BY <4>1, <4>2
    <3> QED BY <3>2, <3>3
  <2>2. ASSUME NEW l \in Alone \cup {"pool", "raised"}, MainTo(l) PROVE MainTypeOK'
    BY <2>2
  <2>3. CASE main' = main
    BY <2>3
  <2>4. CASE SelectOptimize
    <3>1. Row(Own) \in Rows
      BY OwnIsAJob, RowsRead
    <3> QED BY <2>4, <3>1 DEF SelectOptimize
  <2> HIDE DEF MainTypeOK, MainTo
  <2> QED BY <1>1, <2>1, <2>2, <2>3, <2>4 DEF MainStep, Enqueue, StartPool, JoinPool, ClaimOptimize,
          InjectOom, OomHandled, Aggregate, SaveCheckpoint, CompleteOptimize, pipeVars
<1>2. CASE MainKilled
  BY <1>2 DEF MainKilled
<1>3. CASE Restart
  BY <1>3, Sizes DEF Restart
<1>4. CASE main' = main
  BY <1>4
<1> HIDE DEF MainTypeOK, MainTo
<1>5. CASE \E w \in Workers : WorkerStep(w) \/ HandlerRaises(w) \/ WorkerKilled(w)
  BY <1>4, <1>5 DEF WorkerStep, HandlerRaises, WorkerKilled, WorkerClaim, Put, Record,
     WorkerSelects, WorkerCompletes, WorkerFails, PoolFrame
<1> QED BY <1>1, <1>2, <1>3, <1>4, <1>5 DEF Next, vars, pipeVars

\* What a worker does next is in its type.
LEMMA NextTasks ==
  /\ Gone \in WorkerRecords /\ Gone.pc = "gone"
  /\ [Gone EXCEPT !.pc = "claim"] \in WorkerRecords /\ [Gone EXCEPT !.pc = "claim"].pc = "claim"
  /\ \A j \in Jobs : /\ Task(j) \in WorkerRecords /\ Task(j).job = j /\ Task(j).left = Samples
                     /\ Task(j).pc \in {"recorded", "put", "fail"}
                     /\ Task(j).pc = "recorded" => j \in results
<1>1. 0 \in 0..Samples /\ Samples \in 0..Samples
  BY Sizes
<1>2. Gone \in WorkerRecords /\ Gone.pc = "gone"
  BY <1>1 DEF Gone, WorkerRecords
<1>3. [Gone EXCEPT !.pc = "claim"] \in WorkerRecords /\ [Gone EXCEPT !.pc = "claim"].pc = "claim"
  BY <1>1 DEF Gone, WorkerRecords
<1>4. ASSUME NEW j \in Jobs
      PROVE  /\ Task(j) \in WorkerRecords /\ Task(j).job = j /\ Task(j).left = Samples
             /\ Task(j).pc \in {"recorded", "put", "fail"}
             /\ Task(j).pc = "recorded" => j \in results
  BY <1>1 DEF Task, Gone, WorkerRecords
<1> QED BY <1>2, <1>3, <1>4

\* What a step of worker w does to the workers, the trajectories and the results.
LEMMA WorkerMoves ==
  ASSUME TableTypeOK, WorkerTypeOK, NEW w \in Workers,
         WorkerStep(w) \/ HandlerRaises(w) \/ WorkerKilled(w)
  PROVE  \/ /\ worker' = [worker EXCEPT ![w] = Gone] /\ UNCHANGED <<trajs, results>>
            /\ worker[w].pc # "gone"
            /\ deaths' \/ (worker[w].pc = "claim" /\ NothingToClaim(Kinds) /\ state' = state)
         \/ /\ worker' = [worker EXCEPT ![w] = [Gone EXCEPT !.pc = "claim"]]
            /\ UNCHANGED <<trajs, results>>
         \/ /\ \E j \in Jobs : claim(j, Kinds) /\ worker' = [worker EXCEPT ![w] = Task(j)]
            /\ worker[w].pc = "claim" /\ UNCHANGED <<trajs, results>>
         \/ /\ worker[w].pc = "put" /\ worker[w].left > 0
            /\ worker' = [worker EXCEPT ![w] = [worker[w] EXCEPT !.left = @ - 1]]
            /\ trajs' = [trajs EXCEPT ![worker[w].job] = @ + 1] /\ UNCHANGED results
         \/ /\ worker[w].pc = "put" /\ worker[w].left = 0
            /\ worker' = [worker EXCEPT ![w] = [worker[w] EXCEPT !.pc = "complete"]]
            /\ results' = results \cup {worker[w].job} /\ UNCHANGED trajs
         \/ /\ \E r \in WorkerRecords : /\ worker' = [worker EXCEPT ![w] = r]
                                        /\ r.job = worker[w].job
                                        /\ r.pc = "fail" \/ (r.pc # "put" /\ r.pc = worker[w].pc)
            /\ worker[w].pc \in AtWork /\ UNCHANGED <<trajs, results>>
<1>0. worker[w] \in WorkerRecords /\ (worker[w].pc \in AtWork => worker[w].job \in Jobs)
  BY DEF WorkerTypeOK
<1>1. CASE WorkerClaim(w)
  BY <1>1 DEF WorkerClaim, WorkerTo, tableVars
<1>2. CASE Put(w)
  BY <1>2 DEF Put, WorkerTo
<1>3. CASE Record(w)
  BY <1>3 DEF Record, WorkerTo
<1>4. CASE WorkerFails(w)
  BY <1>4 DEF WorkerFails, WorkerNext, WorkerDies, WorkerTo
<1>5. CASE WorkerCompletes(w)
  <2> DEFINE r == [worker[w] EXCEPT !.pc = "fail", !.row = NONE]
  <2>1. r \in WorkerRecords /\ r.job = worker[w].job /\ r.pc = "fail"
    BY <1>0 DEF WorkerRecords
  <2>2. \/ WorkerTo(w, r) /\ worker[w].pc = "complete"
        \/ WorkerNext(w) \/ (WorkerDies(w) /\ worker[w].pc # "gone")
    BY <1>5 DEF WorkerCompletes
  <2>3. UNCHANGED <<trajs, results>>
    BY <1>5 DEF WorkerCompletes
  <2> HIDE DEF r
  <2> QED BY <2>1, <2>2, <2>3 DEF WorkerNext, WorkerDies, WorkerTo
<1>6. CASE WorkerSelects(w)
  <2> DEFINE r == [worker[w] EXCEPT !.row = Row(worker[w].job)]
  <2>1. worker[w].pc \in {"complete", "recorded", "fail"} /\ WorkerTo(w, r)
        /\ UNCHANGED <<trajs, results>>
    BY <1>6 DEF WorkerSelects
  <2>2. Row(worker[w].job) \in Rows
    BY <1>0, <2>1, RowsRead
  <2>3. r \in WorkerRecords /\ r.job = worker[w].job /\ r.pc = worker[w].pc
    BY <1>0, <2>2 DEF WorkerRecords
  <2> HIDE DEF r
  <2> QED BY <2>1, <2>3 DEF WorkerTo
<1>7. CASE HandlerRaises(w)
  <2> DEFINE r == [worker[w] EXCEPT !.pc = "fail"]
  <2>1. r \in WorkerRecords /\ r.job = worker[w].job /\ r.pc = "fail"
    BY <1>0 DEF WorkerRecords
  <2>2. WorkerTo(w, r) /\ UNCHANGED <<trajs, results>> /\ worker[w].pc = "put"
    BY <1>7 DEF HandlerRaises
  <2> HIDE DEF r
  <2> QED BY <2>1, <2>2 DEF WorkerTo
<1>8. CASE WorkerKilled(w)
  BY <1>8 DEF WorkerKilled, WorkerTo
<1> QED BY <1>1, <1>2, <1>3, <1>4, <1>5, <1>6, <1>7, <1>8 DEF WorkerStep

\* Every other step leaves the workers and what they wrote alone, but for the
\* start of a pool.
LEMMA WorkersRest ==
  ASSUME [Next]_vars
  PROVE  \/ \E w \in Workers : WorkerStep(w) \/ HandlerRaises(w) \/ WorkerKilled(w)
         \/ StartPool
         \/ UNCHANGED <<worker, trajs, results, deaths>>
<1>1. MainStep => StartPool \/ UNCHANGED <<worker, trajs, results, deaths>>
  BY DEF MainStep, Enqueue, JoinPool, ClaimOptimize, InjectOom, OomHandled, Aggregate,
         SaveCheckpoint, SelectOptimize, CompleteOptimize, pipeVars
<1>2. MainKilled \/ Restart => UNCHANGED <<worker, trajs, results, deaths>>
  BY DEF MainKilled, Restart
<1> QED BY <1>1, <1>2 DEF Next, vars, pipeVars

\* The workers stay in their type.
LEMMA WorkerType ==
  ASSUME TableTypeOK, WorkerTypeOK, [Next]_vars
  PROVE  WorkerTypeOK'
<1> USE DEF WorkerTypeOK
<1>1. ASSUME NEW w \in Workers, WorkerStep(w) \/ HandlerRaises(w) \/ WorkerKilled(w)
      PROVE  WorkerTypeOK'
  <2>1. deaths' \in BOOLEAN
    BY <1>1 DEF WorkerStep, HandlerRaises, WorkerKilled, WorkerClaim, Put, Record,
       WorkerSelects, WorkerCompletes, WorkerFails, WorkerNext, WorkerDies
  <2>2. ASSUME NEW r \in WorkerRecords, worker' = [worker EXCEPT ![w] = r],
               r.pc \in AtWork => r.job \in Jobs
        PROVE  /\ worker' \in [Workers -> WorkerRecords]
               /\ \A x \in Workers : worker'[x].pc \in AtWork => worker'[x].job \in Jobs
    BY <2>2
  <2>3. worker[w] \in WorkerRecords
    OBVIOUS
  <2>4. /\ [worker[w] EXCEPT !.pc = "complete"] \in WorkerRecords
        /\ [worker[w] EXCEPT !.pc = "complete"].job = worker[w].job
    BY <2>3 DEF WorkerRecords
  <2>5. worker[w].left > 0 => /\ [worker[w] EXCEPT !.left = @ - 1] \in WorkerRecords
                              /\ [worker[w] EXCEPT !.left = @ - 1].job = worker[w].job
    <3>1. worker[w].left \in 0..Samples /\ Samples \in Nat
      BY <2>3, Sizes DEF WorkerRecords
    <3>2. worker[w].left > 0 => worker[w].left - 1 \in 0..Samples
      BY <3>1
    <3> QED BY <2>3, <3>2 DEF WorkerRecords
  <2>6. /\ worker' \in [Workers -> WorkerRecords]
        /\ \A x \in Workers : worker'[x].pc \in AtWork => worker'[x].job \in Jobs
    <3>1. CASE worker' = [worker EXCEPT ![w] = Gone]
      BY <2>2, <3>1, NextTasks
    <3>2. CASE worker' = [worker EXCEPT ![w] = [Gone EXCEPT !.pc = "claim"]]
      BY <2>2, <3>2, NextTasks
    <3>3. ASSUME NEW j \in Jobs, worker' = [worker EXCEPT ![w] = Task(j)]
          PROVE  /\ worker' \in [Workers -> WorkerRecords]
                 /\ \A x \in Workers : worker'[x].pc \in AtWork => worker'[x].job \in Jobs
      BY <2>2, <3>3, NextTasks
    <3>4. CASE /\ worker[w].pc = "put" /\ worker[w].left > 0
               /\ worker' = [worker EXCEPT ![w] = [worker[w] EXCEPT !.left = @ - 1]]
      BY <2>2, <2>5, <3>4
    <3>5. CASE /\ worker[w].pc = "put"
               /\ worker' = [worker EXCEPT ![w] = [worker[w] EXCEPT !.pc = "complete"]]
      BY <2>2, <2>4, <3>5
    <3>6. ASSUME NEW r \in WorkerRecords, worker' = [worker EXCEPT ![w] = r],
                 r.job = worker[w].job, worker[w].pc \in AtWork
          PROVE  /\ worker' \in [Workers -> WorkerRecords]
                 /\ \A x \in Workers : worker'[x].pc \in AtWork => worker'[x].job \in Jobs
      <4>1. r.job \in Jobs
        BY <3>6
      <4> QED BY <2>2, <3>6, <4>1
    <3> QED BY <1>1, <3>1, <3>2, <3>3, <3>4, <3>5, <3>6, WorkerMoves
  <2>7. trajs' \in [Jobs -> Nat]
    BY <1>1, WorkerMoves
  <2> QED BY <2>1, <2>6, <2>7
<1>2. CASE StartPool
  <2>1. [Gone EXCEPT !.pc = "claim"] \in WorkerRecords /\ [Gone EXCEPT !.pc = "claim"].pc = "claim"
    BY NextTasks
  <2>2. worker' = [w \in Workers |-> [Gone EXCEPT !.pc = "claim"]] /\ UNCHANGED <<trajs, deaths>>
    BY <1>2 DEF StartPool
  <2> QED BY <2>1, <2>2
<1>3. CASE UNCHANGED <<worker, trajs, results, deaths>>
  BY <1>3
<1> QED BY <1>1, <1>2, <1>3, WorkersRest

\* So every step keeps the types.
LEMMA PipeTypeNext ==
  ASSUME PipeTypeOK, [Next]_vars
  PROVE  PipeTypeOK'
BY TableStep, TableType, CtlType, MainType, WorkerType DEF PipeTypeOK

-----------------------------------------------------------------------------
(* Who holds a job.                                                         *)

\* A process only moves its own call.
LEMMA OwnCall ==
  ASSUME CtlTypeOK, NEW c \in Processes, NEW r, Control(c, r)
  PROVE  ctl'[c] = r /\ \A d \in Processes : d # c => ctl'[d] = ctl[d]
BY DEF CtlTypeOK, Control

\* The SELECT of transition() and fail() moves nothing else.
LEMMA Selecting ==
  ASSUME CtlTypeOK, NEW c \in Processes, SelectRow(c)
  PROVE  /\ ctl'[c].pc = ctl[c].pc /\ ctl'[c].job = ctl[c].job /\ ctl'[c].row = Row(ctl[c].job)
         /\ \A d \in Processes : d # c => ctl'[d] = ctl[d]
         /\ ctl[c].pc \in {"fail", "bury", "buried", "sim"} /\ UNCHANGED tableVars
<1> DEFINE r == [ctl[c] EXCEPT !.row = Row(ctl[c].job)]
<1>1. r.pc = ctl[c].pc /\ r.job = ctl[c].job /\ r.row = Row(ctl[c].job)
  BY DEF CtlTypeOK, CtlRecords
<1>2. Control(c, r)
  BY DEF SelectRow
<1> HIDE DEF r
<1> QED BY <1>1, <1>2, OwnCall DEF SelectRow

\* A step of handle() reads a row, or goes on.
LEMMA HandleMoves ==
  ASSUME CtlTypeOK, NEW c \in Processes, HandleStep(c)
  PROVE  /\ ctl'[c].job = ctl[c].job
         /\ \A d \in Processes : d # c => ctl'[d] = ctl[d]
         /\ \/ SelectRow(c) /\ ctl'[c].pc = ctl[c].pc /\ ctl'[c].row = Row(ctl[c].job)
            \/ /\ ctl[c].pc \in {"shrink", "fail", "bury", "buried"} /\ ctl'[c].row = NONE
               /\ ctl'[c].pc \in {"fail", "handled", "raised", "buried"}
               /\ ctl'[c].pc = "fail" => ctl[c].pc = "shrink"
               /\ ctl'[c].pc = "buried" => /\ ctl[c].pc = "bury"
                                           /\ transition(ctl[c].job, ctl[c].row, FAILED)
<1>1. CASE SelectRow(c)
  BY <1>1, Selecting
<1>2. CASE ShrinkPayload(c)
  BY <1>2, GoingOn DEF ShrinkPayload, At
<1>3. CASE FailJob(c)
  BY <1>3, GoingOn DEF FailJob, Raise, At
<1>4. CASE Bury(c)
  BY <1>4, GoingOn DEF Bury, Transition, Raise, At
<1>5. CASE DeadLetter(c)
  BY <1>5, GoingOn DEF DeadLetter, Transition, Raise, At
<1> QED BY <1>1, <1>2, <1>3, <1>4, <1>5 DEF HandleStep

\* The visitor's steps leave the other calls alone.
LEMMA VisitorMovesItself ==
  ASSUME CtlTypeOK, VisitorStep \/ VisitorKilled
  PROVE  ctl'[Main] = ctl[Main] /\ ctl'[Reaper] = ctl[Reaper]
<1> USE DEF v
<1>1. ASSUME NEW r, Control(v, r) PROVE ctl'[Main] = ctl[Main] /\ ctl'[Reaper] = ctl[Reaper]
  BY <1>1, OwnCall, Members
<1>2. CASE HandleStep(v)
  BY <1>2, HandleMoves, Members
<1> QED BY <1>1, <1>2 DEF VisitorStep, VisitorKilled, SimCreate, SimRun, SimOom, SimRenew, SimReap,
           ConsumerClaim, ConsumerFails, VisitorDone, Handle, ReapStep, ReapNext, ReapFail,
           ListExpired, Transition, Raise, Goto

\* And the pipeline's steps.
LEMMA MainMovesItself ==
  ASSUME CtlTypeOK, MainStep \/ MainKilled
  PROVE  ctl'[Visitor] = ctl[Visitor] /\ ctl'[Reaper] = ctl[Reaper]
<1>1. ASSUME NEW r, Control(Main, r)
      PROVE  ctl'[Visitor] = ctl[Visitor] /\ ctl'[Reaper] = ctl[Reaper]
  BY <1>1, OwnCall, Members
<1>2. CASE HandleStep(Main)
  BY <1>2, HandleMoves, Members
<1> QED BY <1>1, <1>2 DEF MainStep, MainKilled, Enqueue, StartPool, JoinPool, ClaimOptimize,
           InjectOom, OomHandled, Aggregate, SaveCheckpoint, SelectOptimize, CompleteOptimize, Handle

\* And the reaper's.
LEMMA ReaperMovesItself ==
  ASSUME CtlTypeOK, ReaperStep
  PROVE  ctl'[Main] = ctl[Main] /\ ctl'[Visitor] = ctl[Visitor] /\ broken' = broken
<1>1. ASSUME NEW r, Control(Reaper, r)
      PROVE  ctl'[Main] = ctl[Main] /\ ctl'[Visitor] = ctl[Visitor]
  BY <1>1, OwnCall, Members
<1> QED BY <1>1 DEF ReaperStep, ReapStep, ReapNext, ReapFail, LeasesExpire, ListExpired, Goto

\* The workers leave them all alone.
LEMMA OthersLeaveCtl ==
  ASSUME \/ Restart \/ UNCHANGED vars
         \/ \E w \in Workers : WorkerStep(w) \/ HandlerRaises(w) \/ WorkerKilled(w)
  PROVE  UNCHANGED <<ctl, broken>>
BY DEF Restart, WorkerStep, HandlerRaises, WorkerKilled, WorkerClaim, Put, Record, WorkerSelects,
       WorkerCompletes, WorkerFails, PoolFrame, RecFrame, vars, recVars

\* So a controller's call is moved by the controller.
LEMMA WhoMoved ==
  ASSUME CtlTypeOK, [Next]_vars, NEW c \in Controllers, ctl'[c] # ctl[c]
  PROVE  \/ c = Main /\ (MainStep \/ MainKilled)
         \/ c = Visitor /\ (VisitorStep \/ VisitorKilled)
BY Members, VisitorMovesItself, MainMovesItself, ReaperMovesItself, OthersLeaveCtl DEF Next

\* The verdict of handle(): the job and its payload as read, and what is next.
LEMMA Verdict ==
  ASSUME CtlTypeOK, NEW c \in Processes, NEW j, NEW fc, Handle(c, j, fc)
  PROVE  /\ ctl'[c].pc \in {"shrink", "fail", "bury"} /\ ctl'[c].job = j /\ ctl'[c].row = NONE
         /\ ctl'[c].mb = mb[j] /\ ctl'[c].ga = ga[j]
         /\ ctl'[c].pc = "shrink" => mb[j] > 1
         /\ ctl'[c].pc = "bury" => Enabled /\ (fc = "permanent" \/ (fc = "oom" /\ ~(mb[j] > 1)))
         /\ UNCHANGED tableVars
<1> DEFINE next == CASE ~Enabled -> "fail"
                     [] Enabled /\ fc = "permanent" -> "bury"
                     [] Enabled /\ fc = "oom" -> IF mb[j] > 1 THEN "shrink" ELSE "bury"
                     [] OTHER -> "fail"
<1> DEFINE r == [Resting EXCEPT !.pc = next, !.job = j, !.mb = mb[j], !.ga = ga[j]]
<1>1. Control(c, r) /\ UNCHANGED tableVars
  BY DEF Handle
<1>2. /\ next \in {"shrink", "fail", "bury"}
      /\ next = "shrink" => mb[j] > 1
      /\ next = "bury" => Enabled /\ (fc = "permanent" \/ (fc = "oom" /\ ~(mb[j] > 1)))
  <2>1. CASE ~Enabled
    BY <2>1
  <2>2. CASE Enabled /\ fc = "permanent"
    BY <2>2
  <2>3. CASE Enabled /\ fc = "oom"
    BY <2>3
  <2>4. CASE Enabled /\ fc # "permanent" /\ fc # "oom"
    BY <2>4
  <2>5. Enabled \/ ~Enabled
    OBVIOUS
  <2> QED BY <2>1, <2>2, <2>3, <2>4, <2>5
<1> HIDE DEF next
<1>3. r.pc = next /\ r.job = j /\ r.row = NONE /\ r.mb = mb[j] /\ r.ga = ga[j]
  BY DEF Resting
<1> HIDE DEF r
<1> QED BY <1>1, <1>2, <1>3, OwnCall

\* The pipeline process calls handle() for its own job only.
LEMMA MainCallsNext ==
  ASSUME PipeTypeOK, MainCalls, [Next]_vars
  PROVE  MainCalls'
<1> USE DEF PipeTypeOK
<1>0. Main \in Processes /\ Resting.pc = "idle"
  BY Members DEF Resting
<1>1. CASE InjectOom
  <2>1. main'.pc = "handling" /\ main'.run = main.run /\ main'.step = main.step
    BY <1>1 DEF InjectOom, MainTo, MainTypeOK
  <2> QED BY <1>0, <1>1, <2>1, Verdict DEF InjectOom, MainCalls, Own
<1>2. CASE HandleStep(Main) /\ UNCHANGED pipeVars
  <2>1. /\ ctl[Main].pc \in {"shrink", "fail", "bury", "buried", "sim"}
        /\ ctl'[Main].pc \in {"fail", "handled", "raised", "buried", ctl[Main].pc}
        /\ ctl'[Main].job = ctl[Main].job
    BY <1>0, <1>2, HandleMoves DEF SelectRow
  <2>2. main' = main
    BY <1>2 DEF pipeVars
  <2> QED BY <2>1, <2>2 DEF MainCalls, Own
<1>3. CASE OomHandled \/ MainKilled
  <2>1. main'.pc # "handling"
    BY <1>3 DEF OomHandled, MainKilled, MainTo, MainTypeOK
  <2>2. ctl'[Main].pc = "idle"
    BY <1>0, <1>3, OwnCall DEF OomHandled, MainKilled
  <2> QED BY <2>1, <2>2 DEF MainCalls
<1>4. ASSUME main.pc # "handling", main'.pc # "handling", ctl' = ctl PROVE MainCalls'
  BY <1>4 DEF MainCalls
<1>5. CASE \/ (\E p \in Prompts : Enqueue(p)) \/ StartPool \/ JoinPool \/ ClaimOptimize
           \/ Aggregate \/ SaveCheckpoint \/ SelectOptimize \/ CompleteOptimize \/ Restart
  <2>1. main.pc # "handling" /\ ctl' = ctl
    BY <1>5 DEF Enqueue, StartPool, JoinPool, ClaimOptimize, Aggregate, SaveCheckpoint,
                SelectOptimize, CompleteOptimize, Restart, MainAt
  <2>2. main'.pc # "handling"
    <3>1. ASSUME NEW l, MainTo(l), l # "handling" PROVE main'.pc # "handling"
      BY <3>1 DEF MainTo, MainTypeOK
    <3>2. CASE NextStep
      <4>1. CASE main.step = Steps
        BY <3>1, <3>2, <4>1 DEF NextStep
      <4>2. CASE main.step # Steps
        BY <3>2, <4>2 DEF NextStep, MainTypeOK
      <4> QED BY <4>1, <4>2
    <3>3. CASE Restart
      BY <3>3 DEF Restart
    <3>4. CASE main' = main
      BY <2>1, <3>4
    <3>5. CASE SelectOptimize
      BY <2>1, <3>5 DEF SelectOptimize, MainTypeOK
    <3> QED BY <1>5, <3>1, <3>2, <3>3, <3>4, <3>5 DEF Enqueue, StartPool, JoinPool, ClaimOptimize,
               Aggregate, SaveCheckpoint, CompleteOptimize, pipeVars
  <2> QED BY <1>4, <2>1, <2>2
<1>6. ASSUME main' = main, ctl'[Main] = ctl[Main] PROVE MainCalls'
  BY <1>6 DEF MainCalls, Own
<1>7. CASE (VisitorStep \/ VisitorKilled \/ ReaperStep) /\ UNCHANGED pipeVars
  BY <1>6, <1>7, VisitorMovesItself, ReaperMovesItself DEF pipeVars
<1>8. CASE \/ UNCHANGED vars
           \/ \E w \in Workers : WorkerStep(w) \/ HandlerRaises(w) \/ WorkerKilled(w)
  <2>1. main' = main
    BY <1>8 DEF WorkerStep, HandlerRaises, WorkerKilled, WorkerClaim, Put, Record,
       WorkerSelects, WorkerCompletes, WorkerFails, PoolFrame, vars, pipeVars
  <2> QED BY <1>6, <1>8, <2>1, OthersLeaveCtl
<1> QED BY <1>1, <1>2, <1>3, <1>5, <1>7, <1>8 DEF Next, MainStep

\* How a controller lets go of a job it holds: its process is killed, it goes
\* on to the next statement, or the job is no longer stranded. What it read is
\* what it relies on where a call raises.
LEMMA LettingGo ==
  ASSUME PipeTypeOK, MainCalls, Readings, [Next]_vars, NEW c \in Controllers,
         ctl[c].pc = "buried" \/ c = Visitor,
         ctl[c].pc \in {"oom", "renew", "shrink", "fail", "bury", "buried"},
         ctl'[c] # ctl[c]
  PROVE  \/ ctl[c].job \in broken'
         \/ /\ ctl[c].pc \in {"oom", "shrink"} /\ ctl'[c].pc \in {"shrink", "fail", "bury"}
            /\ ctl'[c].job = ctl[c].job
         \/ ctl'[c].pc = ctl[c].pc /\ ctl'[c].job = ctl[c].job
         \/ /\ ctl[c].pc \in {"renew", "fail", "bury"}
            /\ state'[ctl[c].job] # RUNNING \/ lease'[ctl[c].job] # NONE
         \/ ctl[c].pc = "buried" /\ state'[ctl[c].job] = DEAD_LETTER
<1> USE DEF PipeTypeOK
<1>0. /\ c \in Processes /\ ctl[c].job \in Jobs /\ ctl[c].row \in Rows \cup {NONE}
      /\ \A j \in Jobs : HeldBy(c, j) <=> j = ctl[c].job
  BY Members DEF CtlTypeOK, CtlRecords, HeldBy
<1>1. ASSUME HandleStep(c)
      PROVE  \/ ctl[c].pc = "shrink" /\ ctl'[c].pc = "fail" /\ ctl'[c].job = ctl[c].job
             \/ ctl'[c].pc = ctl[c].pc /\ ctl'[c].job = ctl[c].job
             \/ /\ ctl[c].pc \in {"fail", "bury"}
                /\ state'[ctl[c].job] # RUNNING \/ lease'[ctl[c].job] # NONE
             \/ ctl[c].pc = "buried" /\ state'[ctl[c].job] = DEAD_LETTER
  <2>0. ASSUME NEW to, NEW k, Moves(ctl[c].job, to, k) PROVE state'[ctl[c].job] = to
    BY <1>0, <2>0 DEF Moves, TableTypeOK
  <2>1. CASE SelectRow(c)
    BY <1>0, <2>1, Selecting
  <2>2. CASE ShrinkPayload(c)
    BY <1>0, <2>2, GoingOn DEF ShrinkPayload, At
  <2>3. ASSUME NEW l, Raise(c, FAILED, l), ctl[c].pc \in {"fail", "bury"}
        PROVE  state'[ctl[c].job] # RUNNING \/ lease'[ctl[c].job] # NONE
    <3>1. /\ ctl[c].row # NONE /\ UNCHANGED <<state, lease>>
          /\ ctl[c].row.st # RUNNING \/ state[ctl[c].job] # ctl[c].row.st
      BY <2>3, Edges DEF Raise, Refused, tableVars
    <3> QED BY <2>3, <3>1 DEF Readings
  <2>4. CASE FailJob(c)
    <3>1. ctl[c].pc = "fail"
      BY <2>4 DEF FailJob, At
    <3>2. CASE fail(ctl[c].job, ctl[c].row)
      BY <1>0, <2>0, <3>1, <3>2, Updates, StateNames
    <3> QED BY <2>3, <2>4, <3>1, <3>2 DEF FailJob
  <2>5. CASE Bury(c)
    <3>1. ctl[c].pc = "bury"
      BY <2>5 DEF Bury, At
    <3>2. CASE transition(ctl[c].job, ctl[c].row, FAILED)
      BY <1>0, <2>0, <3>1, <3>2, Updates, StateNames
    <3> QED BY <2>3, <2>5, <3>1, <3>2 DEF Bury, Transition
  <2>6. CASE DeadLetter(c)
    <3>1. ctl[c].pc = "buried"
      BY <2>6 DEF DeadLetter, At
    <3>2. CASE transition(ctl[c].job, ctl[c].row, DEAD_LETTER)
      BY <1>0, <2>0, <3>1, <3>2, Updates
    <3>3. CASE Raise(c, DEAD_LETTER, "raised")
      <4>1. /\ ctl[c].row # NONE /\ state' = state
            /\ ctl[c].row.st # FAILED \/ state[ctl[c].job] # ctl[c].row.st
        BY <3>3, Edges DEF Raise, Refused, tableVars
      <4>2. state[ctl[c].job] = DEAD_LETTER
        BY <3>1, <4>1 DEF Readings
      <4> QED BY <3>1, <4>1, <4>2
    <3> QED BY <2>6, <3>2, <3>3 DEF DeadLetter, Transition
  <2> QED BY <1>1, <2>1, <2>2, <2>4, <2>5, <2>6 DEF HandleStep
<1>2. CASE c = Visitor
  <2> USE DEF v
  <2>1. CASE VisitorKilled
    BY <1>0, <1>2, <2>1 DEF VisitorKilled
  <2>2. CASE SimOom
    BY <1>0, <1>2, <2>2, Verdict DEF SimOom, At
  <2>3. CASE SimRenew
    <3>1. ctl[c].pc = "renew"
      BY <1>2, <2>3 DEF SimRenew, At
    <3>2. state'[ctl[c].job] # RUNNING \/ lease'[ctl[c].job] # NONE
      BY <1>0, <1>2, <2>3, RecoveryAssumption DEF SimRenew, TableTypeOK, tableVars
    <3> QED BY <3>1, <3>2
  <2>4. CASE HandleStep(v)
    BY <1>1, <1>2, <2>4
  <2>5. ~(\/ \E j \in SimJobs : SimCreate(j)
          \/ SimRun \/ SimReap \/ ReapStep(v)
          \/ ConsumerClaim \/ (\E fc \in FailureClass : ConsumerFails(fc))
          \/ VisitorDone)
    BY <1>2 DEF SimCreate, SimRun, SimReap, ReapStep, ReapNext, ReapFail, ConsumerClaim,
       ConsumerFails, VisitorDone, At
  <2>6. VisitorStep \/ VisitorKilled
    BY <1>2, WhoMoved, Members
  <2> QED BY <2>1, <2>2, <2>3, <2>4, <2>5, <2>6 DEF VisitorStep
<1>3. CASE c = Main
  <2>1. main.pc = "handling"
    BY <1>3 DEF MainCalls
  <2>2. CASE MainKilled
    BY <1>0, <1>3, <2>2 DEF MainKilled
  <2>3. CASE HandleStep(Main)
    BY <1>1, <1>3, <2>3
  <2>4. MainStep => HandleStep(Main)
    BY <1>3, <2>1 DEF MainStep, Enqueue, StartPool, JoinPool, ClaimOptimize, InjectOom,
       OomHandled, Aggregate, SaveCheckpoint, SelectOptimize, CompleteOptimize, MainAt
  <2>5. MainStep \/ MainKilled
    BY <1>3, WhoMoved, Members
  <2> QED BY <2>2, <2>3, <2>4, <2>5
<1> QED BY <1>2, <1>3, Members

\* A job that is not the one a call is about keeps its row.
LEMMA CallsAreAboutOne ==
  ASSUME PipeTypeOK, NEW i \in Jobs, Calls(i), NEW j \in Jobs, i # j
  PROVE  /\ state'[j] = state[j] /\ lease'[j] = lease[j] /\ fails'[j] = fails[j]
         /\ attempts'[j] = attempts[j] /\ mb'[j] = mb[j]
BY DEF Calls, create, Moves, claim, update_payload, PipeTypeOK, TableTypeOK

\* What a call makes of its job.
LEMMA CallMakes ==
  ASSUME PipeTypeOK, NEW j \in Jobs, Calls(j)
  PROVE  \/ /\ state[j] = PENDING /\ state'[j] = RUNNING
            /\ ctl'[Visitor].job = j /\ ctl'[Visitor].pc \in {"oom", "renew"}
         \/ /\ state[j] = RUNNING /\ state'[j] = FAILED
            /\ \E c \in Controllers : ctl'[c].job = j /\ ctl'[c].pc = "buried" /\ ctl'[c].row = NONE
         \/ state[j] = ABSENT /\ state'[j] = PENDING
         \/ state[j] = RUNNING /\ state'[j] \in {PENDING, DEAD_LETTER}
         \/ state[j] = RUNNING /\ state'[j] = SUCCEEDED
         \/ state[j] \in {FAILED, RETRYING} /\ state'[j] = DEAD_LETTER
         \/ state[j] = PENDING /\ state'[j] = RUNNING /\ lease'[j] # NONE
         \/ state[j] = RUNNING /\ state'[j] = RUNNING /\ lease'[j] # NONE
         \/ state'[j] = state[j] /\ lease'[j] = lease[j]
<1> USE DEF PipeTypeOK
<1>1. ASSUME NEW to, NEW k, Moves(j, to, k) PROVE state'[j] = to
  BY <1>1 DEF Moves, TableTypeOK
<1>2. ASSUME NEW kinds, claim(j, kinds) PROVE state[j] = PENDING /\ state'[j] = RUNNING /\ lease'[j] # NONE
  BY <1>2, RecoveryAssumption DEF claim, IsOldest, TableTypeOK
<1>3. create(j) => state[j] = ABSENT /\ state'[j] = PENDING
  BY DEF create, TableTypeOK
<1>4. ASSUME NEW m, NEW g, update_payload(j, m, g) PROVE state'[j] = state[j] /\ lease'[j] = lease[j]
  BY <1>4 DEF update_payload
<1>5. lease' = [lease EXCEPT ![j] = "ancient"] => lease'[j] # NONE
  BY RecoveryAssumption DEF TableTypeOK
<1> QED BY <1>1, <1>2, <1>3, <1>4, <1>5 DEF Calls, v

\* How a job comes to be stranded: buried by a controller, or moved to RUNNING
\* by a simulation, whose calls are not over; and it stays buried.
LEMMA Stranding ==
  ASSUME PipeTypeOK, [Next]_vars, NEW j \in Jobs
  PROVE  /\ state[j] # RETRYING => state'[j] # RETRYING
         /\ state'[j] = FAILED => \/ state[j] = FAILED
                                  \/ \E c \in Controllers : /\ ctl'[c].pc = "buried"
                                                            /\ ctl'[c].job = j
         /\ state'[j] = RUNNING /\ lease'[j] = NONE =>
              \/ state[j] = RUNNING /\ lease[j] = NONE
              \/ ctl'[Visitor].pc \in {"oom", "renew"} /\ ctl'[Visitor].job = j
         /\ state[j] = FAILED => state'[j] \in {FAILED, DEAD_LETTER}
         /\ state[j] = DEAD_LETTER => state'[j] = DEAD_LETTER
<1>1. CASE UNCHANGED tableVars
  BY <1>1, StateNames DEF tableVars
<1>2. ASSUME NEW i \in Jobs, Calls(i), i # j PROVE state'[j] = state[j] /\ lease'[j] = lease[j]
  BY <1>2, CallsAreAboutOne
<1>3. CASE Calls(j)
  BY <1>3, CallMakes, StateNames
<1> QED BY <1>1, <1>2, <1>3, TableStep, StateNames

\* Every stranded job keeps its culprit.
LEMMA CulpritsNext ==
  ASSUME PipeTypeOK, MainCalls, Culprits, Readings, [Next]_vars
  PROVE  Culprits'
<1>0. broken \subseteq broken'
  BY DEF Next, MainStep, MainKilled, Restart, VisitorStep, VisitorKilled, Enqueue, StartPool,
     JoinPool, ClaimOptimize, InjectOom, OomHandled, Aggregate, SaveCheckpoint, SelectOptimize,
     CompleteOptimize, RecFrame, HandleStep, SimCreate, SimRun, SimOom, SimRenew, SimReap,
     ReapStep, ConsumerClaim, ConsumerFails, VisitorDone, ReaperStep, LeasesExpire, WorkerStep,
     HandlerRaises, WorkerKilled, WorkerClaim, Put, Record, WorkerSelects, WorkerCompletes,
     WorkerFails, PoolFrame, vars, recVars
<1> SUFFICES ASSUME NEW j \in Jobs
      PROVE  /\ state'[j] # RETRYING
             /\ state'[j] = FAILED => \/ j \in broken'
                                      \/ \E c \in Controllers : /\ ctl'[c].pc = "buried"
                                                                /\ ctl'[c].job = j
             /\ state'[j] = RUNNING /\ lease'[j] = NONE =>
                  \/ j \in broken'
                  \/ /\ ctl'[Visitor].pc \in {"oom", "renew", "shrink", "fail", "bury"}
                     /\ ctl'[Visitor].job = j
  BY DEF Culprits
<1>1. state'[j] # RETRYING
  BY Stranding DEF Culprits
<1>2. ASSUME state'[j] = FAILED, state[j] = FAILED
      PROVE  j \in broken' \/ \E c \in Controllers : ctl'[c].pc = "buried" /\ ctl'[c].job = j
  <2>1. CASE j \in broken
    BY <1>0, <2>1
  <2>2. ASSUME NEW c \in Controllers, ctl[c].pc = "buried", ctl[c].job = j
        PROVE  j \in broken' \/ (ctl'[c].pc = "buried" /\ ctl'[c].job = j)
    BY <1>2, <2>2, LettingGo, StateNames
  <2> QED BY <1>2, <2>1, <2>2 DEF Culprits
<1>3. ASSUME state'[j] = RUNNING, lease'[j] = NONE, state[j] = RUNNING, lease[j] = NONE
      PROVE  \/ j \in broken'
             \/ /\ ctl'[Visitor].pc \in {"oom", "renew", "shrink", "fail", "bury"}
                /\ ctl'[Visitor].job = j
  <2>1. CASE j \in broken
    BY <1>0, <2>1
  <2>2. CASE /\ ctl[Visitor].job = j
             /\ ctl[Visitor].pc \in {"oom", "renew", "shrink", "fail", "bury"}
    BY <1>3, <2>2, LettingGo, Members
  <2> QED BY <1>3, <2>1, <2>2 DEF Culprits
<1> QED BY <1>1, <1>2, <1>3, Stranding

\* Where a row comes from that a controller has at hand.
LEMMA RowsAtHand ==
  ASSUME PipeTypeOK, MainCalls, [Next]_vars, NEW c \in Controllers, ctl'[c] # ctl[c],
         ctl'[c].pc \in {"fail", "bury", "buried"}
  PROVE  /\ \/ /\ UNCHANGED tableVars /\ ctl'[c].pc = ctl[c].pc
               /\ ctl'[c].job = ctl[c].job /\ ctl'[c].row = Row(ctl[c].job)
            \/ ctl'[c].row = NONE
         /\ ctl'[c].pc = "buried" => \/ ctl[c].pc = "buried" /\ ctl'[c].job = ctl[c].job
                                     \/ ctl'[c].row = NONE /\ state'[ctl'[c].job] = FAILED
<1> USE DEF PipeTypeOK
<1>0. /\ c \in Processes /\ ctl[c].row \in Rows \cup {NONE}
      /\ ctl[c].pc \in Busy => ctl[c].job \in Jobs
      /\ Resting.pc = "idle" /\ Resting.row = NONE
  BY Members DEF CtlTypeOK, CtlRecords, Resting
<1>1. CASE HandleStep(c)
  <2>1. CASE SelectRow(c)
    BY <1>0, <2>1, Selecting
  <2>2. ASSUME ctl[c].pc = "bury", transition(ctl[c].job, ctl[c].row, FAILED)
        PROVE  state'[ctl[c].job] = FAILED
    <3>1. ctl[c].job \in Jobs /\ Moves(ctl[c].job, FAILED, 1)
      BY <1>0, <2>2, Updates
    <3> QED BY <3>1 DEF Moves, TableTypeOK
  <2>3. ctl'[c].job = ctl[c].job
    BY <1>0, <1>1, HandleMoves
  <2>4. CASE ~SelectRow(c)
    <3>1. /\ ctl'[c].row = NONE
          /\ ctl'[c].pc = "buried" => ctl[c].pc = "bury" /\ transition(ctl[c].job, ctl[c].row, FAILED)
      BY <1>0, <1>1, <2>4, HandleMoves
    <3>2. ctl'[c].pc = "buried" => state'[ctl[c].job] = FAILED
      BY <2>2, <3>1
    <3> QED BY <2>3, <3>1, <3>2
  <2> QED BY <2>1, <2>4
<1>2. ASSUME NEW j, NEW fc, Handle(c, j, fc) PROVE ctl'[c].row = NONE /\ ctl'[c].pc # "buried"
  BY <1>0, <1>2, Verdict
<1>3. ASSUME NEW r, Control(c, r) PROVE r = ctl'[c]
  BY <1>0, <1>3, OwnCall
<1>4. ASSUME NEW l, Goto(c, l) PROVE l = ctl'[c].pc
  BY <1>0, <1>4, GoingOn
<1>5. CASE c = Main
  <2>1. ~OomHandled /\ ~MainKilled
    BY <1>0, <1>3, <1>5 DEF OomHandled, MainKilled
  <2>2. MainStep => InjectOom \/ HandleStep(Main) \/ ctl' = ctl
    BY <2>1 DEF MainStep, Enqueue, StartPool, JoinPool, ClaimOptimize, Aggregate,
       SaveCheckpoint, SelectOptimize, CompleteOptimize
  <2> QED BY <1>1, <1>2, <1>5, <2>1, <2>2, WhoMoved, Members DEF InjectOom
<1>6. CASE c = Visitor
  <2> USE DEF v
  <2>1. ~VisitorKilled /\ ~VisitorDone
    BY <1>0, <1>3, <1>6 DEF VisitorKilled, VisitorDone
  <2>2. ~(\E j \in SimJobs : SimCreate(j)) /\ ~ConsumerClaim
    <3>1. \A j : /\ [Resting EXCEPT !.pc = "sim", !.job = j].pc = "sim"
                 /\ [Resting EXCEPT !.pc = "consume", !.job = j].pc = "consume"
      BY DEF Resting
    <3> QED BY <1>3, <1>6, <3>1 DEF SimCreate, ConsumerClaim
  <2>3. ~SimRun /\ ~SimRenew
    BY <1>0, <1>3, <1>4, <1>6 DEF SimRun, SimRenew, Transition, Raise
  <2>4. ~SimReap /\ ~ReapStep(v)
    <3>1. \A ids : [ctl[c] EXCEPT !.pc = "reaping", !.list = ids].pc = "reaping"
      BY <1>0 DEF CtlTypeOK, CtlRecords
    <3>2. \A j : [ctl[c] EXCEPT !.pc = "expire", !.job = j, !.list = @ \ {j}, !.row = Row(j)].pc = "expire"
      BY <1>0 DEF CtlTypeOK, CtlRecords
    <3>3. ~SimReap
      BY <1>3, <1>6, <3>1 DEF SimReap, ListExpired
    <3>4. ~ReapNext(v)
      BY <1>0, <1>3, <1>6, <3>2 DEF ReapNext
    <3>5. ~ReapFail(v)
      BY <1>0, <1>3, <1>4, <1>6 DEF ReapFail
    <3> QED BY <3>3, <3>4, <3>5 DEF ReapStep
  <2>5. CASE SimOom \/ \E fc \in FailureClass : ConsumerFails(fc)
    BY <1>2, <1>6, <2>5 DEF SimOom, ConsumerFails
  <2> QED BY <1>1, <1>6, <2>1, <2>2, <2>3, <2>4, <2>5, WhoMoved, Members DEF VisitorStep
<1> QED BY <1>5, <1>6, Members

\* The rows the controllers have at hand say what they need to know.
LEMMA ReadingsNext ==
  ASSUME PipeTypeOK, MainCalls, Readings, [Next]_vars
  PROVE  Readings'
<1> USE DEF PipeTypeOK
<1>1. ASSUME NEW c \in Controllers, ctl'[c].pc = "buried"
      PROVE  /\ state'[ctl'[c].job] \in {FAILED, DEAD_LETTER}
             /\ ctl'[c].row # NONE =>
                  \/ ctl'[c].row.st = FAILED
                  \/ ctl'[c].row.st = DEAD_LETTER /\ state'[ctl'[c].job] = DEAD_LETTER
  <2>0. c \in Processes /\ (ctl[c].pc \in Busy => ctl[c].job \in Jobs)
    BY Members DEF CtlTypeOK
  <2>1. CASE ctl'[c] = ctl[c]
    <3>1. ctl[c].pc = "buried" /\ ctl[c].job \in Jobs
      BY <1>1, <2>0, <2>1
    <3> QED BY <1>1, <2>1, <3>1, Stranding DEF Readings
  <2>2. CASE ctl'[c] # ctl[c] /\ ctl[c].pc = "buried" /\ ctl'[c].job = ctl[c].job
    <3>1. ctl[c].job \in Jobs
      BY <2>0, <2>2
    <3>2. state[ctl[c].job] \in {FAILED, DEAD_LETTER}
      BY <2>2 DEF Readings
    <3>3. ctl'[c].row = NONE \/ (ctl'[c].row.st = state[ctl[c].job] /\ state' = state)
      <4>1. \/ UNCHANGED tableVars /\ ctl'[c].row = Row(ctl[c].job)
            \/ ctl'[c].row = NONE
        BY <1>1, <2>2, RowsAtHand
      <4> QED BY <4>1 DEF Row, tableVars
    <3> QED BY <2>2, <3>1, <3>2, <3>3, Stranding
  <2> QED BY <1>1, <2>1, <2>2, RowsAtHand
<1>2. ASSUME ctl'[Visitor].pc \in {"fail", "bury"}, ctl'[Visitor].row # NONE
      PROVE  \/ ctl'[Visitor].row.st = RUNNING
             \/ state'[ctl'[Visitor].job] # RUNNING \/ lease'[ctl'[Visitor].job] # NONE
  <2>0. Visitor \in Controllers /\ (ctl[Visitor].pc \in Busy => ctl[Visitor].job \in Jobs)
    BY Members DEF CtlTypeOK
  <2>1. CASE ctl'[Visitor] = ctl[Visitor]
    <3>1. ctl[Visitor].job \in Jobs
      BY <1>2, <2>0, <2>1
    <3> QED BY <1>2, <2>1, <3>1, Stranding DEF Readings
  <2>2. CASE ctl'[Visitor] # ctl[Visitor]
    <3>1. /\ UNCHANGED tableVars /\ ctl'[Visitor].job = ctl[Visitor].job
          /\ ctl'[Visitor].row = Row(ctl[Visitor].job)
      BY <1>2, <2>0, <2>2, RowsAtHand
    <3>2. state' = state /\ ctl'[Visitor].row.st = state[ctl[Visitor].job]
      BY <3>1 DEF Row, tableVars
    <3> QED BY <3>1, <3>2
  <2> QED BY <2>1, <2>2
<1> QED BY <1>1, <1>2 DEF Readings

-----------------------------------------------------------------------------
(* What the workers write.                                                  *)

\* Trajectories and results are only ever added.
LEMMA Growing ==
  ASSUME TableTypeOK, WorkerTypeOK, [Next]_vars
  PROVE  /\ results \subseteq results'
         /\ \A j \in Jobs : trajs[j] \in Nat /\ trajs'[j] >= trajs[j]
<1> USE DEF WorkerTypeOK
<1>1. ASSUME NEW w \in Workers, WorkerStep(w) \/ HandlerRaises(w) \/ WorkerKilled(w)
      PROVE  /\ results \subseteq results'
             /\ \A j \in Jobs : trajs'[j] >= trajs[j]
  BY <1>1, WorkerMoves
<1>2. StartPool => UNCHANGED <<trajs, results>>
  BY DEF StartPool
<1> QED BY <1>1, <1>2, WorkersRest

\* A job becomes SUCCEEDED only once its result is recorded, or by the pipeline.
LEMMA Succeeding ==
  ASSUME PipeTypeOK, Accounted, [Next]_vars, NEW j \in Jobs, state'[j] = SUCCEEDED
  PROVE  state[j] = SUCCEEDED \/ Kind[j] = "optimize" \/ j \in results
<1>1. CASE UNCHANGED tableVars
  BY <1>1 DEF tableVars
<1>2. ASSUME NEW i \in Jobs, Calls(i), i # j PROVE state'[j] = state[j]
  BY <1>2, CallsAreAboutOne
<1>3. ASSUME Calls(j)
      PROVE  \/ state'[j] \in {PENDING, DEAD_LETTER, RUNNING, FAILED} \/ state'[j] = state[j]
             \/ Kind[j] = "optimize"
             \/ \E w \in Workers : worker[w].pc \in {"complete", "recorded"} /\ worker[w].job = j
  BY <1>3 DEF Calls, create, Moves, claim, update_payload, PipeTypeOK, TableTypeOK
<1> QED BY <1>1, <1>2, <1>3, TableStep, StateNames DEF Accounted

\* A worker that is not past its group has written its part of it.
LEMMA AccountedNext ==
  ASSUME PipeTypeOK, Accounted, [Next]_vars
  PROVE  Accounted'
<1> USE DEF PipeTypeOK
<1>0. WorkerTypeOK' /\ Samples \in Nat
  BY PipeTypeNext, Sizes
<1>1. ASSUME NEW x \in Workers, worker'[x] = worker[x]
      PROVE  /\ worker'[x].pc = "put" => trajs'[worker'[x].job] + worker'[x].left >= Samples
             /\ worker'[x].pc \in {"complete", "recorded"} => worker'[x].job \in results'
  <2>1. worker[x].pc = "put" => worker[x].job \in Jobs
    BY DEF WorkerTypeOK
  <2>2. worker[x].left \in Nat
    BY <1>0 DEF WorkerTypeOK, WorkerRecords
  <2>3. worker[x].pc = "put" => trajs'[worker[x].job] \in Nat
    BY <1>0, <2>1 DEF WorkerTypeOK
  <2> QED BY <1>0, <1>1, <2>1, <2>2, <2>3, Growing DEF Accounted
<1>2. ASSUME NEW x \in Workers
      PROVE  /\ worker'[x].pc = "put" => trajs'[worker'[x].job] + worker'[x].left >= Samples
             /\ worker'[x].pc \in {"complete", "recorded"} => worker'[x].job \in results'
  <2>1. ASSUME NEW w \in Workers, WorkerStep(w) \/ HandlerRaises(w) \/ WorkerKilled(w), w # x
        PROVE  worker'[x] = worker[x]
    BY <2>1, WorkerMoves DEF WorkerTypeOK
  <2>2. CASE WorkerStep(x) \/ HandlerRaises(x) \/ WorkerKilled(x)
    <3>0. /\ worker[x].job \in Jobs \cup {NONE} /\ worker[x].left \in Nat
          /\ worker[x].pc = "put" => worker[x].job \in Jobs /\ trajs[worker[x].job] \in Nat
      BY <1>0 DEF WorkerTypeOK, WorkerRecords
    <3>1. ASSUME NEW r, worker' = [worker EXCEPT ![x] = r] PROVE worker'[x] = r
      BY <3>1 DEF WorkerTypeOK
    <3>2. ASSUME NEW j \in Jobs, worker'[x] = Task(j), results' = results
          PROVE  /\ worker'[x].pc = "put" => trajs'[worker'[x].job] + worker'[x].left >= Samples
                 /\ worker'[x].pc \in {"complete", "recorded"} => worker'[x].job \in results'
      <4>1. trajs'[j] \in Nat
        BY <1>0 DEF WorkerTypeOK
      <4> QED BY <1>0, <3>2, <4>1, NextTasks
    <3>3. CASE /\ worker[x].pc = "put" /\ worker[x].left > 0
               /\ worker' = [worker EXCEPT ![x] = [worker[x] EXCEPT !.left = @ - 1]]
               /\ trajs' = [trajs EXCEPT ![worker[x].job] = @ + 1]
      <4>1. worker'[x].pc = "put" /\ worker'[x].job = worker[x].job
            /\ worker'[x].left = worker[x].left - 1
        BY <3>3 DEF WorkerTypeOK, WorkerRecords
      <4>2. trajs'[worker[x].job] = trajs[worker[x].job] + 1
        BY <3>0, <3>3 DEF WorkerTypeOK
      <4>3. trajs[worker[x].job] + worker[x].left >= Samples
        BY <3>3 DEF Accounted
      <4> QED BY <1>0, <3>0, <3>3, <4>1, <4>2, <4>3
    <3>5. CASE /\ worker' = [worker EXCEPT ![x] = [worker[x] EXCEPT !.pc = "complete"]]
               /\ results' = results \cup {worker[x].job}
      <4>1. worker'[x].pc = "complete" /\ worker'[x].job = worker[x].job
        BY <3>5 DEF WorkerTypeOK, WorkerRecords
      <4> QED BY <3>5, <4>1
    <3>6. ASSUME NEW r, worker' = [worker EXCEPT ![x] = r], r.job = worker[x].job,
                 r.pc = "fail" \/ (r.pc # "put" /\ r.pc = worker[x].pc), results' = results
          PROVE  /\ worker'[x].pc = "put" => trajs'[worker'[x].job] + worker'[x].left >= Samples
                 /\ worker'[x].pc \in {"complete", "recorded"} => worker'[x].job \in results'
      BY <3>1, <3>6 DEF Accounted
    <3>7. CASE worker' = [worker EXCEPT ![x] = Gone]
      <4>1. worker'[x].pc = "gone"
        BY <3>1, <3>7, NextTasks
      <4> QED BY <4>1
    <3>8. CASE worker' = [worker EXCEPT ![x] = [Gone EXCEPT !.pc = "claim"]]
      <4>1. worker'[x].pc = "claim"
        BY <3>1, <3>8, NextTasks
      <4> QED BY <4>1
    <3>9. CASE \E j \in Jobs : worker' = [worker EXCEPT ![x] = Task(j)] /\ results' = results
      BY <3>1, <3>2, <3>9
    <3> QED BY <2>2, <3>3, <3>5, <3>6, <3>7, <3>8, <3>9, WorkerMoves
  <2>3. CASE StartPool
    BY <2>3, NextTasks DEF StartPool
  <2>4. CASE worker' = worker
    BY <1>1, <2>4
  <2> QED BY <1>1, <2>1, <2>2, <2>3, <2>4, WorkersRest
<1>3. ASSUME NEW j \in Jobs, j \in results' \/ (Kind[j] = "rollout" /\ state'[j] = SUCCEEDED)
      PROVE  trajs'[j] >= Samples
  <2>1. trajs[j] \in Nat /\ trajs'[j] \in Nat /\ trajs'[j] >= trajs[j]
    BY <1>0, Growing DEF WorkerTypeOK
  <2>2. CASE j \in results \/ (Kind[j] = "rollout" /\ state[j] = SUCCEEDED)
    BY <1>0, <2>1, <2>2 DEF Accounted, RecordedIsComplete
  <2>3. CASE j \notin results /\ j \in results'
    <3>1. PICK w \in Workers : /\ worker[w].pc = "put" /\ worker[w].left = 0
                               /\ results' = results \cup {worker[w].job}
      <4>1. StartPool => results' = results
        BY DEF StartPool
      <4> QED BY <2>3, <4>1, WorkersRest, WorkerMoves
    <3>2. worker[w].job = j
      BY <2>3, <3>1
    <3> QED BY <1>0, <2>1, <3>1, <3>2 DEF Accounted
  <2>4. CASE Kind[j] = "rollout" /\ state'[j] = SUCCEEDED /\ state[j] # SUCCEEDED
    BY <2>2, <2>4, Succeeding
  <2> QED BY <1>3, <2>2, <2>3, <2>4
<1> QED BY <1>2, <1>3 DEF Accounted, RecordedIsComplete

\* A delivery is never taken back, and a claim is one more.
LEMMA Delivering ==
  ASSUME PipeTypeOK, [Next]_vars, NEW j \in Jobs
  PROVE  /\ Deliveries(j) \in Nat /\ Deliveries(j)' \in Nat
         /\ Deliveries(j)' >= Deliveries(j)
         /\ claim(j, Kinds) => Deliveries(j)' = Deliveries(j) + 1
<1> USE DEF PipeTypeOK
<1>0. TableTypeOK' /\ fails[j] \in Nat /\ fails'[j] \in Nat
  BY PipeTypeNext DEF TableTypeOK
<1>1. Deliveries(j) \in Nat /\ Deliveries(j)' \in Nat
  BY <1>0 DEF Deliveries
<1>2. state'[j] = state[j] /\ fails'[j] = fails[j] => Deliveries(j)' >= Deliveries(j)
  BY <1>1 DEF Deliveries
<1>3. ASSUME NEW kinds, claim(j, kinds) PROVE Deliveries(j)' = Deliveries(j) + 1
  <2>1. state[j] = PENDING /\ state'[j] = RUNNING /\ fails'[j] = fails[j]
    BY <1>3 DEF claim, IsOldest, TableTypeOK
  <2> QED BY <1>0, <2>1, StateNames DEF Deliveries
<1>4. ASSUME create(j) PROVE Deliveries(j)' >= Deliveries(j)
  <2>1. state[j] = ABSENT /\ state'[j] = PENDING /\ fails'[j] = fails[j]
    BY <1>4 DEF create, TableTypeOK
  <2> QED BY <1>0, <2>1, StateNames DEF Deliveries
<1>5. ASSUME NEW to, NEW k \in {0, 1}, Moves(j, to, k),
             k = 1 \/ to \in {RUNNING, SUCCEEDED, DEAD_LETTER}
      PROVE  Deliveries(j)' >= Deliveries(j)
  <2>1. state'[j] = to /\ fails'[j] = fails[j] + k
    BY <1>5 DEF Moves, TableTypeOK
  <2> QED BY <1>0, <1>5, <2>1, StateNames DEF Deliveries
<1>6. ASSUME Calls(j) PROVE Deliveries(j)' >= Deliveries(j)
  <2>1. CASE UNCHANGED <<state, fails>>
    BY <1>2, <2>1
  <2>2. ASSUME NEW kinds, claim(j, kinds) PROVE Deliveries(j)' >= Deliveries(j)
    BY <1>1, <1>3, <2>2
  <2> QED BY <1>4, <1>5, <1>6, <2>1, <2>2 DEF Calls, update_payload
<1>7. (\E i \in Jobs : Calls(i) /\ i # j) => Deliveries(j)' >= Deliveries(j)
  BY <1>2, CallsAreAboutOne
<1>8. UNCHANGED tableVars => Deliveries(j)' >= Deliveries(j)
  BY <1>2 DEF tableVars
<1> QED BY <1>1, <1>3, <1>6, <1>7, <1>8, TableStep

\* What is outstanding is finite.
LEMMA Finitely ==
  ASSUME NEW j
  PROVE  /\ IsFiniteSet(Outstanding(j)) /\ Cardinality(Outstanding(j)) \in Nat
         /\ IsFiniteSet(Outstanding(j)') /\ Cardinality(Outstanding(j)') \in Nat
<1>1. IsFiniteSet(Workers) /\ IsFiniteSet(1..Samples)
  <2>1. Samples \in Int
    BY Sizes
  <2>2. IsFiniteSet(1..Samples)
    BY <2>1, FS_Interval
  <2> QED BY <2>2, PipelineAssumption
<1>2. IsFiniteSet(Workers \X (1..Samples))
  BY <1>1, FS_Product
<1>3. Outstanding(j) \subseteq Workers \X (1..Samples)
  BY DEF Outstanding
<1>4. Outstanding(j)' \subseteq Workers \X (1..Samples)
  BY DEF Outstanding
<1> QED BY <1>2, <1>3, <1>4, FS_Subset, FS_CardinalityType

\* Where no worker takes up the job, no more of it is outstanding.
LEMMA NoMoreOutstanding ==
  ASSUME NEW j,
         \A x \in Workers : worker'[x] # worker[x] => worker'[x].pc # "put" \/ worker'[x].job # j
  PROVE  Cardinality(Outstanding(j)') <= Cardinality(Outstanding(j))
<1>1. Outstanding(j)' \subseteq Outstanding(j)
  BY DEF Outstanding
<1> QED BY <1>1, Finitely, FS_Subset

\* Every trajectory that is written, or is still to be, belongs to a delivery.
LEMMA PaidNext ==
  ASSUME PipeTypeOK, Paid, [Next]_vars
  PROVE  Paid'
<1> USE DEF PipeTypeOK
<1> SUFFICES ASSUME NEW j \in Jobs
             PROVE  trajs'[j] + Cardinality(Outstanding(j)') <= Samples * Deliveries(j)'
  BY DEF Paid
<1>0. /\ WorkerTypeOK' /\ Samples \in Nat
      /\ trajs[j] \in Nat /\ trajs'[j] \in Nat
      /\ Deliveries(j) \in Nat /\ Deliveries(j)' \in Nat /\ Deliveries(j)' >= Deliveries(j)
      /\ Cardinality(Outstanding(j)) \in Nat /\ Cardinality(Outstanding(j)') \in Nat
  <2>1. WorkerTypeOK'
    BY PipeTypeNext
  <2> QED BY <2>1, Sizes, Finitely, Delivering DEF WorkerTypeOK
<1>1. trajs[j] + Cardinality(Outstanding(j)) <= Samples * Deliveries(j)
  BY DEF Paid
<1>2. Samples * Deliveries(j)' >= Samples * Deliveries(j)
  BY <1>0
<1>3. ASSUME trajs'[j] = trajs[j], Cardinality(Outstanding(j)') <= Cardinality(Outstanding(j))
      PROVE  trajs'[j] + Cardinality(Outstanding(j)') <= Samples * Deliveries(j)'
  <2>1. Samples * Deliveries(j) \in Nat /\ Samples * Deliveries(j)' \in Nat
    BY <1>0
  <2> QED BY <1>0, <1>1, <1>2, <1>3, <2>1
<1>4. ASSUME NEW w \in Workers, WorkerStep(w) \/ HandlerRaises(w) \/ WorkerKilled(w)
      PROVE  trajs'[j] + Cardinality(Outstanding(j)') <= Samples * Deliveries(j)'
  <2>0. /\ worker[w].left \in 0..Samples
        /\ worker[w].pc = "put" => worker[w].job \in Jobs
    BY DEF WorkerTypeOK, WorkerRecords
  <2>1. ASSUME NEW r, worker' = [worker EXCEPT ![w] = r]
        PROVE  worker'[w] = r /\ \A x \in Workers : x # w => worker'[x] = worker[x]
    BY <2>1 DEF WorkerTypeOK
  <2>2. ASSUME NEW r, worker' = [worker EXCEPT ![w] = r], r.pc # "put", trajs' = trajs
        PROVE  trajs'[j] + Cardinality(Outstanding(j)') <= Samples * Deliveries(j)'
    <3>1. \A x \in Workers : worker'[x] # worker[x] => worker'[x].pc # "put"
      BY <2>1, <2>2
    <3> QED BY <1>3, <2>2, <3>1, NoMoreOutstanding
  <2>3. ASSUME NEW i \in Jobs, claim(i, Kinds), worker' = [worker EXCEPT ![w] = Task(i)],
               trajs' = trajs
        PROVE  trajs'[j] + Cardinality(Outstanding(j)') <= Samples * Deliveries(j)'
    <3>1. CASE i # j
      <4>1. \A x \in Workers : worker'[x] # worker[x] => worker'[x].job # j
        BY <2>1, <2>3, <3>1, NextTasks
      <4> QED BY <1>3, <2>3, <4>1, NoMoreOutstanding
    <3>2. CASE i = j
      <4> DEFINE group == {w} \X (1..Samples)
      <4>1. Outstanding(j)' \subseteq Outstanding(j) \cup group
        BY <2>1, <2>3 DEF Outstanding
      <4>2. IsFiniteSet(group) /\ Cardinality(group) = Samples
        <5>1. IsFiniteSet(1..Samples) /\ Cardinality(1..Samples) = Samples
          <6>1. Samples \in Int /\ (1 > Samples => Samples = 0)
            BY <1>0
          <6> QED BY <6>1, FS_Interval
        <5>2. IsFiniteSet({w}) /\ Cardinality({w}) = 1
          BY FS_Singleton
        <5>3. /\ IsFiniteSet({w} \X (1..Samples))
              /\ Cardinality({w} \X (1..Samples)) = Cardinality({w}) * Cardinality(1..Samples)
          BY <5>1, <5>2, FS_Product
        <5> QED BY <1>0, <5>1, <5>2, <5>3
      <4> HIDE DEF group
      <4>3. /\ IsFiniteSet(Outstanding(j) \cup group)
            /\ Cardinality(Outstanding(j) \cup group) <= Cardinality(Outstanding(j)) + Samples
        <5>1. IsFiniteSet(Outstanding(j) \cap group) /\ Cardinality(Outstanding(j) \cap group) \in Nat
          BY <4>2, FS_Intersection, FS_CardinalityType
        <5>2. IsFiniteSet(Outstanding(j)) /\ Cardinality(Outstanding(j)) \in Nat
          BY Finitely
        <5>3. /\ IsFiniteSet(Outstanding(j) \cup group)
              /\ Cardinality(Outstanding(j) \cup group)
                   = Cardinality(Outstanding(j)) + Cardinality(group)
                       - Cardinality(Outstanding(j) \cap group)
          BY <4>2, <5>2, FS_Union
        <5> QED BY <1>0, <4>2, <5>1, <5>2, <5>3
      <4>4. Cardinality(Outstanding(j)') <= Cardinality(Outstanding(j) \cup group)
        BY <4>1, <4>3, FS_Subset
      <4>5. Cardinality(Outstanding(j) \cup group) \in Nat
        BY <4>3, FS_CardinalityType
      <4>6. Deliveries(j)' = Deliveries(j) + 1
        BY <2>3, <3>2, Delivering
      <4>7. Samples * (Deliveries(j) + 1) = Samples * Deliveries(j) + Samples
        BY <1>0
      <4>8. Samples * Deliveries(j) \in Nat
        BY <1>0
      <4> QED BY <1>0, <1>1, <2>3, <4>3, <4>4, <4>5, <4>6, <4>7, <4>8
    <3> QED BY <3>1, <3>2
  <2>4. ASSUME worker[w].pc = "put", worker[w].left > 0,
               worker' = [worker EXCEPT ![w] = [worker[w] EXCEPT !.left = @ - 1]],
               trajs' = [trajs EXCEPT ![worker[w].job] = @ + 1]
        PROVE  trajs'[j] + Cardinality(Outstanding(j)') <= Samples * Deliveries(j)'
    <3>0. /\ worker'[w].pc = "put" /\ worker'[w].job = worker[w].job
          /\ worker'[w].left = worker[w].left - 1
      BY <2>4 DEF WorkerTypeOK, WorkerRecords
    <3>1. CASE worker[w].job # j
      <4>1. \A x \in Workers : worker'[x] # worker[x] => worker'[x].job # j
        BY <2>1, <2>4, <3>0, <3>1
      <4>2. trajs'[j] = trajs[j]
        BY <2>0, <2>4, <3>1 DEF WorkerTypeOK
      <4> QED BY <1>3, <4>1, <4>2, NoMoreOutstanding
    <3>2. CASE worker[w].job = j
      <4> DEFINE last == <<w, worker[w].left>>
      <4>1. last \in Outstanding(j)
        BY <1>0, <2>0, <2>4, <3>2 DEF Outstanding
      <4>2. Outstanding(j)' \subseteq Outstanding(j) \ {last}
        <5> SUFFICES ASSUME NEW x \in Outstanding(j)' PROVE x \in Outstanding(j) /\ x # last
          OBVIOUS
        <5>1. /\ x \in Workers \X (1..Samples) /\ worker'[x[1]].pc = "put"
              /\ worker'[x[1]].job = j /\ x[2] <= worker'[x[1]].left
          BY DEF Outstanding
        <5>2. CASE x[1] = w
          <6>1. x[2] <= worker[w].left - 1 /\ x[2] \in Nat /\ worker[w].left \in Nat
            BY <2>0, <3>0, <5>1, <5>2
          <6>2. x[2] # worker[w].left /\ x[2] <= worker[w].left
            BY <6>1
          <6> QED BY <2>4, <3>2, <5>1, <5>2, <6>2 DEF Outstanding
        <5>3. CASE x[1] # w
          <6>1. worker'[x[1]] = worker[x[1]]
            BY <2>1, <2>4, <5>1, <5>3
          <6> QED BY <5>1, <5>3, <6>1 DEF Outstanding
        <5> QED BY <5>2, <5>3
      <4> HIDE DEF last
      <4>3. /\ IsFiniteSet(Outstanding(j) \ {last})
            /\ Cardinality(Outstanding(j) \ {last}) = Cardinality(Outstanding(j)) - 1
        BY <4>1, Finitely, FS_RemoveElement
      <4>4. Cardinality(Outstanding(j)') <= Cardinality(Outstanding(j)) - 1
        BY <4>2, <4>3, FS_Subset
      <4>5. trajs'[j] = trajs[j] + 1
        BY <2>4, <3>2 DEF WorkerTypeOK
      <4>6. Samples * Deliveries(j) \in Nat /\ Samples * Deliveries(j)' \in Nat
        BY <1>0
      <4> QED BY <1>0, <1>1, <1>2, <4>4, <4>5, <4>6
    <3> QED BY <3>1, <3>2
  <2>5. [worker[w] EXCEPT !.pc = "complete"].pc # "put"
    BY DEF WorkerTypeOK, WorkerRecords
  <2>6. Gone.pc # "put" /\ [Gone EXCEPT !.pc = "claim"].pc # "put"
    BY NextTasks
  <2>7. CASE trajs' = trajs /\ worker' = [worker EXCEPT ![w] = Gone]
    BY <2>2, <2>6, <2>7
  <2>8. CASE trajs' = trajs /\ worker' = [worker EXCEPT ![w] = [Gone EXCEPT !.pc = "claim"]]
    BY <2>2, <2>6, <2>8
  <2>9. CASE trajs' = trajs /\ worker' = [worker EXCEPT ![w] = [worker[w] EXCEPT !.pc = "complete"]]
    BY <2>2, <2>5, <2>9
  <2>10. CASE /\ trajs' = trajs
              /\ \E r \in WorkerRecords : /\ worker' = [worker EXCEPT ![w] = r]
                                          /\ r.pc = "fail" \/ (r.pc # "put" /\ r.pc = worker[w].pc)
    BY <2>2, <2>10
  <2>11. CASE /\ trajs' = trajs
              /\ \E i \in Jobs : claim(i, Kinds) /\ worker' = [worker EXCEPT ![w] = Task(i)]
    BY <2>3, <2>11
  <2> QED BY <1>4, <2>4, <2>7, <2>8, <2>9, <2>10, <2>11, WorkerMoves
<1>5. CASE StartPool
  <2>1. trajs' = trajs /\ \A x \in Workers : worker'[x].pc # "put"
    BY <1>5, NextTasks DEF StartPool
  <2> QED BY <1>3, <2>1, NoMoreOutstanding
<1>6. CASE UNCHANGED <<worker, trajs>>
  BY <1>3, <1>6, NoMoreOutstanding
<1> QED BY <1>4, <1>5, <1>6, WorkersRest

-----------------------------------------------------------------------------
(* The course of an undisturbed run.                                        *)

\* The pool is over before anything else is done.
LEMMA RestedNext ==
  ASSUME PipeTypeOK, Rested, [Next]_vars
  PROVE  Rested'
<1> USE DEF PipeTypeOK
<1>1. ASSUME NEW w \in Workers, WorkerStep(w) \/ HandlerRaises(w) \/ WorkerKilled(w)
      PROVE  main' = main /\ worker[w].pc # "gone"
  BY <1>1 DEF WorkerStep, HandlerRaises, WorkerKilled, WorkerClaim, Put, Record,
              WorkerSelects, WorkerCompletes, WorkerFails, PoolFrame
<1>2. CASE StartPool
  <2>1. main'.pc = "pool"
    BY <1>2 DEF StartPool, MainTo, MainTypeOK
  <2> QED BY <2>1 DEF Rested
<1>3. CASE worker' = worker
  <2>1. CASE \A w \in Workers : worker[w].pc = "gone"
    BY <1>3, <2>1 DEF Rested
  <2>2. CASE \E w \in Workers : worker[w].pc # "gone"
    <3>1. main.pc \notin Alone
      BY <2>2 DEF Rested
    <3>2. main'.pc = main.pc \/ main'.pc \notin Alone
      <4>1. MainStep => UNCHANGED main
        BY <2>2, <3>1 DEF MainStep, Enqueue, StartPool, JoinPool, ClaimOptimize, InjectOom,
           OomHandled, Aggregate, SaveCheckpoint, SelectOptimize, CompleteOptimize, MainAt, pipeVars
      <4>2. MainKilled => main'.pc = "killed"
        BY DEF MainKilled, MainTo, MainTypeOK
      <4>3. ~Restart
        BY <2>2 DEF Restart
      <4> QED BY <1>1, <4>1, <4>2, <4>3 DEF Next, vars, pipeVars
    <3> QED BY <3>1, <3>2 DEF Rested
  <2> QED BY <2>1, <2>2
<1> QED BY <1>1, <1>2, <1>3, WorkersRest DEF Rested

\* A run that is undisturbed now always was.
LEMMA UndisturbedBefore ==
  ASSUME PipeTypeOK, [Next]_vars, Undisturbed'
  PROVE  Undisturbed
<1>1. visits' = visits \/ visits' = visits + 1
  BY DEF Next, MainStep, MainKilled, Restart, VisitorStep, VisitorKilled, Enqueue, StartPool,
     JoinPool, ClaimOptimize, InjectOom, OomHandled, Aggregate, SaveCheckpoint, SelectOptimize,
     CompleteOptimize, RecFrame, HandleStep, SimCreate, SimRun, SimOom, SimRenew, SimReap,
     ReapStep, ConsumerClaim, ConsumerFails, VisitorDone, ReaperStep, LeasesExpire, WorkerStep,
     HandlerRaises, WorkerKilled, WorkerClaim, Put, Record, WorkerSelects, WorkerCompletes,
     WorkerFails, PoolFrame, vars, recVars
<1>2. reaped \subseteq reaped'
  BY DEF Next, MainStep, MainKilled, Restart, VisitorStep, VisitorKilled, Enqueue, StartPool,
     JoinPool, ClaimOptimize, InjectOom, OomHandled, Aggregate, SaveCheckpoint, SelectOptimize,
     CompleteOptimize, RecFrame, HandleStep, SimCreate, SimRun, SimOom, SimRenew, SimReap,
     ReapStep, ConsumerClaim, ConsumerFails, VisitorDone, ReaperStep, LeasesExpire, WorkerStep,
     HandlerRaises, WorkerKilled, WorkerClaim, Put, Record, WorkerSelects, WorkerCompletes,
     WorkerFails, PoolFrame, vars, recVars
<1>3. deaths => deaths'
  <2>1. ASSUME NEW w \in Workers, WorkerStep(w) \/ HandlerRaises(w) \/ WorkerKilled(w)
        PROVE  deaths => deaths'
    BY <2>1 DEF WorkerStep, HandlerRaises, WorkerKilled, WorkerClaim, Put, Record,
       WorkerSelects, WorkerCompletes, WorkerFails, WorkerNext, WorkerDies
  <2>2. StartPool => deaths' = deaths
    BY DEF StartPool
  <2> QED BY <2>1, <2>2, WorkersRest
<1>4. visits \in Nat
  BY DEF PipeTypeOK, CtlTypeOK
<1> QED BY <1>1, <1>2, <1>3, <1>4 DEF Undisturbed

\* In an undisturbed run a job that is not there yet is left as it is.
LEMMA NotThereYet ==
  ASSUME PipeTypeOK, MainCalls, Course, [Next]_vars
  PROVE  \A j \in Jobs : state'[j] = ABSENT => attempts'[j] = 0 /\ mb'[j] = Microbatch
<1> USE DEF PipeTypeOK
<1> SUFFICES ASSUME NEW j \in Jobs, state'[j] = ABSENT
             PROVE  state[j] = ABSENT /\ attempts'[j] = attempts[j] /\ mb'[j] = mb[j]
  BY DEF Course
<1>1. CASE UNCHANGED tableVars
  BY <1>1 DEF tableVars
<1>2. ASSUME NEW i \in Jobs, Calls(i), i # j
      PROVE  state'[j] = state[j] /\ attempts'[j] = attempts[j] /\ mb'[j] = mb[j]
  BY <1>2, CallsAreAboutOne
<1>3. ASSUME NEW c \in Controllers, At(c, "shrink"), ctl[c].job = j PROVE state[j] = RUNNING
  <2>1. c = Main
    BY <1>3, PipelineAssumption DEF At, Course
  <2>2. main.pc = "handling" /\ ctl[c].job = Own
    BY <1>3, <2>1 DEF At, MainCalls
  <2> QED BY <1>3, <2>1, <2>2 DEF At, Course
<1>4. ASSUME Calls(j)
      PROVE  \/ state'[j] \in {PENDING, RUNNING, SUCCEEDED, FAILED, DEAD_LETTER}
             \/ /\ state'[j] = state[j]
                /\ \/ \E c \in Controllers : At(c, "shrink") /\ ctl[c].job = j
                   \/ attempts'[j] = attempts[j] /\ mb'[j] = mb[j]
  BY <1>4 DEF Calls, create, Moves, claim, update_payload, TableTypeOK
<1> QED BY <1>1, <1>2, <1>3, <1>4, TableStep, StateNames

\* A step that leaves the pipeline process, the optimize jobs and the payload
\* of its own alone leaves it on its course.
LEMMA LeftAlone ==
  ASSUME Course, UNCHANGED main, ctl'[Main] = ctl[Main], ctl'[Visitor].pc = "idle",
         Waiting' = Waiting, state'[Own] = state[Own], attempts'[Own] = attempts[Own],
         mb'[Own] = mb[Own],
         \A j \in Jobs : state'[j] = ABSENT => attempts'[j] = 0 /\ mb'[j] = Microbatch,
         \A j \in ctl'[Reaper].list : Kind[j] # "optimize",
         ctl'[Reaper].pc = "expire" => Kind[ctl'[Reaper].job] # "optimize",
         main.pc = "pool" /\ Waiting # {} => \E w \in Workers : worker'[w].pc # "gone"
  PROVE  Course'
<1>1. Own' = Own
  BY DEF Own
<1> QED BY <1>1 DEF Course

\* The steps of the pipeline process that its course is about.
LEMMA OwnSteps ==
  ASSUME MaxAttempts >= 2, Microbatch >= 2, PipeTypeOK, MainCalls, Rested, Course, [Next]_vars,
         MainStep
  PROVE  Course'
<1> USE DEF PipeTypeOK
<1>0. /\ ctl'[Visitor].pc = "idle" /\ Own \in Jobs /\ Kind[Own] = "optimize"
      /\ \A j \in Jobs : state'[j] = ABSENT => attempts'[j] = 0 /\ mb'[j] = Microbatch
      /\ \A j \in ctl'[Reaper].list : Kind[j] # "optimize"
      /\ ctl'[Reaper].pc = "expire" => Kind[ctl'[Reaper].job] # "optimize"
      /\ Main \in Processes
  BY MainMovesItself, OwnIsAJob, NotThereYet, Members DEF Course
<1>1. ASSUME NEW l, MainTo(l)
      PROVE  main'.pc = l /\ main'.row = NONE /\ Own' = Own
  BY <1>1 DEF MainTo, MainTypeOK, Own
<1>2. UNCHANGED state => Waiting' = Waiting
  BY DEF Waiting
<1>3. ASSUME NEW p \in Prompts, Enqueue(p) PROVE Course'
  <2>1. main' = main /\ main.pc = "enqueue"
    BY <1>3 DEF Enqueue, MainAt, pipeVars
  <2> QED BY <1>0, <2>1 DEF Course
<1>4. CASE StartPool
  <2>1. main'.pc = "pool"
    BY <1>1, <1>4 DEF StartPool
  <2>2. \E w \in Workers : worker'[w].pc # "gone"
    BY <1>4, NextTasks, PipelineAssumption DEF StartPool
  <2> QED BY <1>0, <2>1, <2>2 DEF Course
<1>5. CASE JoinPool
  <2>1. main'.pc = "claim" /\ Own' = Own
    BY <1>1, <1>5 DEF JoinPool
  <2>2. Waiting = {}
    BY <1>5 DEF JoinPool, MainAt, Course
  <2>3. state[Own] = ABSENT /\ state' = [state EXCEPT ![Own] = PENDING] /\ UNCHANGED <<attempts, mb>>
    BY <1>5 DEF JoinPool, create
  <2>4. Waiting' = {Own}
    BY <1>0, <2>2, <2>3 DEF Waiting, TableTypeOK
  <2>5. attempts'[Own] = 0 /\ mb'[Own] = Microbatch
    BY <1>0, <2>3 DEF Course
  <2> QED BY <1>0, <2>1, <2>4, <2>5 DEF Course
<1>6. CASE ClaimOptimize
  <2>1. Waiting = {Own} /\ main.pc \in {"claim", "reclaim"}
    BY <1>6 DEF ClaimOptimize, MainAt, Course
  <2>2. ~NothingToClaim({"optimize"})
    BY <1>0, <2>1 DEF NothingToClaim, Waiting
  <2>3. PICK j \in Jobs : claim(j, {"optimize"})
    BY <1>6, <2>2 DEF ClaimOptimize
  <2>4. j = Own
    BY <2>1, <2>3 DEF claim, IsOldest, Waiting
  <2>5. state' = [state EXCEPT ![Own] = RUNNING] /\ UNCHANGED <<attempts, mb>>
    BY <2>3, <2>4 DEF claim
  <2>6. state'[Own] = RUNNING /\ Waiting' \subseteq {Own}
    BY <1>0, <2>1, <2>5, StateNames DEF Waiting, TableTypeOK
  <2>7. CASE main.pc = "claim"
    <3>1. main'.pc \in {"oom", "aggregate"} /\ Own' = Own
      BY <1>1, <1>6, <2>7 DEF ClaimOptimize, MainAt
    <3>2. attempts'[Own] = 0 /\ mb'[Own] = Microbatch
      BY <2>5, <2>7 DEF Course
    <3> QED BY <1>0, <2>6, <3>1, <3>2 DEF Course
  <2>8. CASE main.pc = "reclaim"
    <3>1. main'.pc = "aggregate" /\ Own' = Own
      BY <1>1, <1>6, <2>8 DEF ClaimOptimize, MainAt
    <3> QED BY <1>0, <2>6, <3>1 DEF Course
  <2> QED BY <2>1, <2>7, <2>8
<1>7. CASE InjectOom
  <2>1. main.pc = "oom" /\ main'.pc = "handling" /\ Own' = Own
    BY <1>1, <1>7 DEF InjectOom, MainAt
  <2>2. state[Own] = RUNNING /\ attempts[Own] = 0 /\ mb[Own] = Microbatch /\ Waiting \subseteq {Own}
    BY <2>1 DEF Course
  <2>3. /\ ctl'[Main].pc \in {"shrink", "fail", "bury"}
        /\ ctl'[Main].pc = "bury" => ~(mb[Own] > 1)
        /\ ctl'[Main].row = NONE /\ UNCHANGED <<state, attempts, mb>>
    <3>1. Handle(Main, Own, "oom") /\ "oom" # "permanent"
      BY <1>7 DEF InjectOom
    <3> QED BY <1>0, <3>1, Verdict DEF tableVars
  <2>4. mb[Own] > 1
    BY <2>2, Sizes
  <2> QED BY <1>0, <1>2, <2>1, <2>2, <2>3, <2>4 DEF Course
<1>8. CASE HandleStep(Main) /\ UNCHANGED pipeVars
  <2>1. ctl[Main].pc \in {"shrink", "fail", "bury", "buried", "sim"}
    BY <1>0, <1>8, HandleMoves DEF SelectRow
  <2>2. main.pc = "handling" /\ main' = main /\ Own' = Own /\ ctl[Main].job = Own
    BY <1>8, <2>1 DEF MainCalls, pipeVars, Own
  <2>3. /\ ctl[Main].pc \in {"shrink", "fail"} /\ state[Own] = RUNNING /\ attempts[Own] = 0
        /\ ctl[Main].row # NONE => ctl[Main].row.st = RUNNING /\ ctl[Main].row.at = 0
        /\ Waiting \subseteq {Own}
    BY <2>1, <2>2 DEF Course
  <2>4. CASE ShrinkPayload(Main)
    <3>1. UNCHANGED <<state, attempts>> /\ ctl'[Main].pc = "fail" /\ ctl'[Main].row = NONE
      BY <1>0, <2>4, GoingOn DEF ShrinkPayload, update_payload
    <3> QED BY <1>0, <1>2, <2>2, <2>3, <3>1 DEF Course
  <2>5. CASE FailJob(Main)
    <3>1. ~Raise(Main, FAILED, "raised")
      BY <2>2, <2>3, Edges DEF Raise, Refused
    <3>2. /\ fail(Own, ctl[Main].row)
          /\ ctl'[Main].pc = "handled" /\ ctl'[Main].row = NONE
      BY <1>0, <2>2, <2>5, <3>1, GoingOn DEF FailJob
    <3>3. FailTarget(ctl[Main].row) = PENDING
      BY <2>3, <3>2, Sizes DEF FailTarget, fail
    <3>4. state' = [state EXCEPT ![Own] = PENDING]
      BY <3>2, <3>3 DEF fail, Write
    <3>5. state'[Own] = PENDING /\ Waiting' \subseteq {Own}
      BY <1>0, <2>3, <3>4 DEF Waiting, TableTypeOK
    <3> QED BY <1>0, <2>2, <3>2, <3>5 DEF Course
  <2>6. CASE SelectRow(Main)
    <3>1. /\ ctl'[Main].pc = ctl[Main].pc /\ ctl'[Main].row = Row(Own)
          /\ UNCHANGED <<state, attempts>>
      BY <1>0, <2>2, <2>6, Selecting DEF tableVars
    <3>2. ctl'[Main].row.st = RUNNING /\ ctl'[Main].row.at = 0
      BY <2>3, <3>1 DEF Row
    <3> QED BY <1>0, <1>2, <2>2, <2>3, <3>1, <3>2 DEF Course
  <2> QED BY <1>8, <2>3, <2>4, <2>5, <2>6 DEF HandleStep, Bury, DeadLetter, At
<1>9. CASE OomHandled
  <2>1. main.pc = "handling" /\ ctl[Main].pc = "handled"
    BY <1>9 DEF OomHandled, MainAt, Course
  <2>2. main'.pc = "reclaim" /\ Own' = Own /\ state' = state
    BY <1>1, <1>9, <2>1 DEF OomHandled, tableVars
  <2>3. Waiting = {Own}
    BY <1>0, <2>1 DEF Course, Waiting
  <2> QED BY <1>0, <1>2, <2>2, <2>3 DEF Course
<1>10. CASE Aggregate \/ SaveCheckpoint
  <2>1. main.pc \in {"aggregate", "save"} /\ main'.pc \in {"save", "complete"} /\ Own' = Own
        /\ main'.row = NONE /\ state' = state
    BY <1>1, <1>10 DEF Aggregate, SaveCheckpoint, MainAt, tableVars
  <2> QED BY <1>0, <1>2, <2>1 DEF Course
<1>11. CASE CompleteOptimize
  <2>1. ~Refused(Own, main.row, SUCCEEDED)
    BY <1>11, Edges DEF CompleteOptimize, MainAt, Course, Refused
  <2>2. NextStep
    BY <1>11, <2>1 DEF CompleteOptimize
  <2>3. main'.pc \in {"done", "enqueue"}
    <3>1. CASE main.step = Steps
      BY <1>1, <2>2, <3>1 DEF NextStep
    <3>2. CASE main.step # Steps
      BY <2>2, <3>2 DEF NextStep, MainTypeOK
    <3> QED BY <3>1, <3>2
  <2> QED BY <1>0, <2>3 DEF Course
<1>12. CASE SelectOptimize
  <2>1. main.pc = "complete" /\ main' = [main EXCEPT !.row = Row(Own)] /\ state' = state
    BY <1>12 DEF SelectOptimize, MainAt, tableVars
  <2>2. main'.pc = "complete" /\ Own' = Own /\ main'.row = Row(Own)
    BY <2>1 DEF MainTypeOK, Own
  <2>3. state[Own] = RUNNING /\ Waiting \subseteq {Own} /\ Row(Own).st = state[Own]
    BY <2>1 DEF Course, Row
  <2> QED BY <1>0, <1>2, <2>1, <2>2, <2>3 DEF Course
<1> QED BY <1>3, <1>4, <1>5, <1>6, <1>7, <1>8, <1>9, <1>10, <1>11, <1>12 DEF MainStep

\* An undisturbed run stays on its course.
LEMMA CourseNext ==
  ASSUME MaxAttempts >= 2, Microbatch >= 2, PipeTypeOK, MainCalls, Rested, Course, [Next]_vars,
         Undisturbed'
  PROVE  Course'
<1> USE DEF PipeTypeOK
<1>0. /\ Own \in Jobs /\ Kind[Own] = "optimize"
      /\ \A j \in Jobs : state'[j] = ABSENT => attempts'[j] = 0 /\ mb'[j] = Microbatch
  BY OwnIsAJob, NotThereYet
<1>1. ASSUME main'.pc \in {"enqueue", "killed"}, ctl'[Visitor] = ctl[Visitor],
             ctl'[Reaper] = ctl[Reaper]
      PROVE  Course'
  BY <1>0, <1>1 DEF Course
<1>2. CASE MainKilled
  <2>1. main'.pc = "killed"
    BY <1>2 DEF MainKilled, MainTo, MainTypeOK
  <2> QED BY <1>1, <1>2, <2>1, MainMovesItself
<1>3. CASE Restart
  <2>1. main'.pc = "enqueue" /\ ctl' = ctl
    BY <1>3 DEF Restart
  <2> QED BY <1>1, <2>1
<1>4. ASSUME NEW w \in Workers, WorkerStep(w) \/ HandlerRaises(w) \/ WorkerKilled(w)
      PROVE  Course'
  <2>1. main' = main /\ ctl' = ctl /\ worker[w].pc # "gone"
    BY <1>4 DEF WorkerStep, HandlerRaises, WorkerKilled, WorkerClaim, Put, Record,
                WorkerSelects, WorkerCompletes, WorkerFails, PoolFrame
  <2>2. main.pc \notin Alone
    BY <2>1 DEF Rested
  <2>3. Waiting' # {} => \E x \in Workers : worker'[x].pc # "gone"
    <3>1. ASSUME NEW r, worker' = [worker EXCEPT ![w] = r] PROVE worker'[w] = r
      BY <3>1 DEF WorkerTypeOK
    <3>2. CASE NothingToClaim(Kinds) /\ state' = state
      BY <3>2 DEF NothingToClaim, Kinds, Waiting
    <3>3. /\ [worker[w] EXCEPT !.left = @ - 1].pc = worker[w].pc
          /\ [worker[w] EXCEPT !.pc = "complete"].pc = "complete"
      BY DEF WorkerTypeOK, WorkerRecords
    <3>4. ~deaths'
      BY DEF Undisturbed
    <3>5. (NothingToClaim(Kinds) /\ state' = state) \/ worker'[w].pc # "gone"
      <4>1. ASSUME NEW j \in Jobs, worker' = [worker EXCEPT ![w] = Task(j)]
            PROVE  worker'[w].pc # "gone"
        BY <3>1, <4>1, NextTasks
      <4>2. CASE worker' = [worker EXCEPT ![w] = [Gone EXCEPT !.pc = "claim"]]
        BY <3>1, <4>2, NextTasks
      <4>3. CASE worker' = [worker EXCEPT ![w] = [worker[w] EXCEPT !.pc = "complete"]]
        BY <3>1, <3>3, <4>3
      <4>4. CASE worker' = [worker EXCEPT ![w] = [worker[w] EXCEPT !.left = @ - 1]]
        BY <2>1, <3>1, <3>3, <4>4
      <4>5. ASSUME NEW r, worker' = [worker EXCEPT ![w] = r], r.pc = "fail" \/ r.pc = worker[w].pc
            PROVE  worker'[w].pc # "gone"
        BY <2>1, <3>1, <4>5
      <4> QED BY <1>4, <3>4, <4>1, <4>2, <4>3, <4>4, <4>5, WorkerMoves
    <3> QED BY <3>1, <3>2, <3>5
  <2> QED BY <1>0, <2>1, <2>2, <2>3 DEF Course
<1>5. ~(VisitorStep \/ VisitorKilled)
  <2>1. ctl[v].pc = "idle" /\ visits \in Nat /\ visits' = 0
    <3>1. ctl[v].pc = "idle"
      BY DEF Course, v
    <3>2. visits \in Nat /\ visits' = 0
      BY DEF CtlTypeOK, Undisturbed
    <3> QED BY <3>1, <3>2
  <2>2. ~VisitorKilled
    BY <2>1 DEF VisitorKilled
  <2>3. ~HandleStep(v) /\ ~VisitorDone /\ ~ReapStep(v)
    BY <2>1 DEF HandleStep, SelectRow, ShrinkPayload, FailJob, Bury, DeadLetter, VisitorDone,
       ReapStep, ReapNext, ReapFail, At
  <2>4. ~SimRun /\ ~SimOom /\ ~SimRenew /\ ~SimReap /\ ~\E fc \in FailureClass : ConsumerFails(fc)
    BY <2>1 DEF SimRun, SimOom, SimRenew, SimReap, ConsumerFails, At
  <2>5. ~ConsumerClaim /\ ~\E j \in SimJobs : SimCreate(j)
    <3>1. ConsumerClaim \/ (\E j \in SimJobs : SimCreate(j)) => visits' = visits + 1
      BY DEF ConsumerClaim, SimCreate
    <3> QED BY <2>1, <3>1
  <2>6. ~VisitorStep
    BY <2>3, <2>4, <2>5 DEF VisitorStep
  <2> QED BY <2>2, <2>6
<1>6. CASE ReaperStep /\ UNCHANGED pipeVars
  <2>0. /\ main' = main /\ worker' = worker /\ Reaper \in Processes
        /\ ctl'[Main] = ctl[Main] /\ ctl'[Visitor] = ctl[Visitor]
    BY <1>6, ReaperMovesItself, Members DEF pipeVars
  <2>1. ASSUME UNCHANGED tableVars, \A j \in ctl'[Reaper].list : Kind[j] # "optimize",
               ctl'[Reaper].pc = "expire" => Kind[ctl'[Reaper].job] # "optimize"
        PROVE  Course'
    <3>1. state' = state /\ attempts' = attempts /\ mb' = mb
      BY <2>1 DEF tableVars
    <3>2. Waiting' = Waiting
      BY <3>1 DEF Waiting
    <3> QED BY <1>0, <2>0, <2>1, <3>1, <3>2, LeftAlone DEF Course
  <2>2. Control(Reaper, Resting) => ctl'[Reaper].list = {} /\ ctl'[Reaper].pc # "expire"
    BY <2>0, OwnCall DEF Resting
  <2>3. ASSUME NEW ids \in SUBSET {j \in Jobs : lease[j] # NONE}, LeasesExpire(ids) PROVE Course'
    <3>1. Control(Reaper, [ctl[Reaper] EXCEPT !.pc = "reaping", !.list = ids])
          /\ UNCHANGED tableVars /\ ids \subseteq reaped'
      BY <2>3 DEF LeasesExpire, ListExpired
    <3>2. ctl'[Reaper].pc = "reaping" /\ ctl'[Reaper].list = ids
      <4>1. ctl'[Reaper] = [ctl[Reaper] EXCEPT !.pc = "reaping", !.list = ids]
        BY <2>0, <3>1, OwnCall
      <4> QED BY <2>0, <4>1 DEF CtlTypeOK, CtlRecords
    <3> QED BY <2>1, <3>1, <3>2 DEF Undisturbed
  <2>4. CASE ReapNext(Reaper)
    <3>1. ASSUME NEW j \in ctl[Reaper].list,
                 Control(Reaper, [ctl[Reaper] EXCEPT !.pc = "expire", !.job = j,
                                                     !.list = @ \ {j}, !.row = Row(j)])
          PROVE  ctl'[Reaper].job = j /\ ctl'[Reaper].list \subseteq ctl[Reaper].list
      <4>1. ctl'[Reaper] = [ctl[Reaper] EXCEPT !.pc = "expire", !.job = j,
                                               !.list = @ \ {j}, !.row = Row(j)]
        BY <2>0, <3>1, OwnCall
      <4> QED BY <2>0, <4>1 DEF CtlTypeOK, CtlRecords
    <3>2. \/ Control(Reaper, Resting)
          \/ \E j \in ctl[Reaper].list :
               ctl'[Reaper].job = j /\ ctl'[Reaper].list \subseteq ctl[Reaper].list
      BY <2>4, <3>1 DEF ReapNext
    <3>3. UNCHANGED tableVars
      BY <2>4 DEF ReapNext
    <3> QED BY <2>1, <2>2, <3>2, <3>3 DEF Course
  <2>5. CASE ReapFail(Reaper)
    <3> DEFINE j == ctl[Reaper].job
    <3>0. Kind[j] # "optimize" /\ j \in Jobs /\ ctl[Reaper].row \in Rows \cup {NONE}
      BY <2>0, <2>5 DEF ReapFail, At, Course, CtlTypeOK, CtlRecords
    <3>1. CASE fail(j, ctl[Reaper].row) /\ Goto(Reaper, "reaping")
      <4>1. /\ ctl'[Reaper].list = ctl[Reaper].list /\ ctl'[Reaper].pc = "reaping"
        BY <2>0, <3>1, GoingOn
      <4>2. Moves(j, FailTarget(ctl[Reaper].row), 1)
        BY <3>0, <3>1, Updates
      <4>3. state'[Own] = state[Own] /\ attempts'[Own] = attempts[Own] /\ mb'[Own] = mb[Own]
        BY <1>0, <3>0, <4>2 DEF Moves, TableTypeOK
      <4>4. Waiting' = Waiting
        BY <3>0, <4>2 DEF Moves, TableTypeOK, Waiting
      <4> QED BY <1>0, <2>0, <4>1, <4>3, <4>4, LeftAlone DEF Course
    <3> QED BY <2>1, <2>2, <2>5, <3>1 DEF ReapFail
  <2> QED BY <1>6, <2>3, <2>4, <2>5 DEF ReaperStep, ReapStep
<1>7. CASE UNCHANGED vars
  <2>1. /\ main' = main /\ ctl' = ctl /\ worker' = worker /\ state' = state
        /\ attempts' = attempts /\ mb' = mb
    BY <1>7 DEF vars, recVars, tableVars, pipeVars
  <2>2. Waiting' = Waiting
    BY <2>1 DEF Waiting
  <2> QED BY <1>0, <2>1, <2>2, LeftAlone DEF Course
<1> QED BY <1>2, <1>3, <1>4, <1>5, <1>6, <1>7, OwnSteps DEF Next

-----------------------------------------------------------------------------
(* The effective batch.                                                     *)

\* A set of sizes that halving does not leave and that it divides exactly.
Halves(S) == /\ S \subseteq Nat
             /\ \A m \in S : m > 1 => m \div 2 \in S /\ m = 2 * (m \div 2)

\* Every payload, and every payload a controller is about to shrink, is a plan
\* of the same effective batch.
Batches(S) ==
  /\ \A j \in Jobs : mb[j] \in S /\ mb[j] * ga[j] = Microbatch
  /\ \A c \in Controllers :
       ctl[c].pc = "shrink" => /\ ctl[c].mb \in S /\ ctl[c].mb > 1
                               /\ ctl[c].mb * ctl[c].ga = Microbatch

\* shrink() halves the microbatch and doubles the accumulation.
LEMMA ShrunkHalves ==
  ASSUME NEW S, Halves(S), NEW m \in S, m > 1, NEW g \in Nat
  PROVE  Shrunk(m, g).mb \in S /\ Shrunk(m, g).mb * Shrunk(m, g).ga = m * g
<1> DEFINE n == m \div 2
<1>1. m \in Nat /\ n \in S /\ n \in Nat /\ m = 2 * n
  BY DEF Halves
<1> HIDE DEF n
<1>2. n >= 1
  BY <1>1
<1>3. (IF n > 1 THEN n ELSE 1) = n
  BY <1>1, <1>2
<1>4. m \div n = 2
  BY <1>1, <1>2
<1>5. Shrunk(m, g) = [mb |-> n, ga |-> g * 2]
  BY <1>3, <1>4 DEF Shrunk, n
<1>6. n * (g * 2) = (2 * n) * g
  BY <1>1
<1> QED BY <1>1, <1>5, <1>6

\* A controller that is about to shrink a payload read it, as it was, and its
\* microbatch was more than one.
LEMMA ShrinksWhatItRead ==
  ASSUME PipeTypeOK, [Next]_vars, NEW c \in Controllers, ctl'[c].pc = "shrink"
  PROVE  \/ ctl'[c] = ctl[c]
         \/ \E j \in Jobs : ctl'[c].mb = mb[j] /\ ctl'[c].ga = ga[j] /\ mb[j] > 1
<1> USE DEF PipeTypeOK
<1>0. c \in Processes /\ Resting.pc = "idle"
  BY Members DEF Resting
<1>1. ASSUME NEW j \in Jobs, NEW fc, Handle(c, j, fc)
      PROVE  \E i \in Jobs : ctl'[c].mb = mb[i] /\ ctl'[c].ga = ga[i] /\ mb[i] > 1
  BY <1>0, <1>1, Verdict
<1>2. ASSUME HandleStep(c) PROVE FALSE
  BY <1>0, <1>2, HandleMoves DEF SelectRow
<1>3. ASSUME NEW r, Control(c, r) PROVE r.pc = "shrink"
  BY <1>0, <1>3, OwnCall
<1>4. ASSUME NEW l, Goto(c, l) PROVE l = "shrink"
  BY <1>0, <1>4, GoingOn
<1>5. CASE c = Main
  <2>1. CASE InjectOom
    BY <1>1, <1>5, <2>1, OwnIsAJob DEF InjectOom
  <2>2. ~OomHandled /\ ~MainKilled
    BY <1>0, <1>3, <1>5 DEF OomHandled, MainKilled
  <2>3. MainStep => InjectOom \/ ctl' = ctl
    BY <1>2, <1>5, <2>2 DEF MainStep, Enqueue, StartPool, JoinPool, ClaimOptimize, Aggregate,
       SaveCheckpoint, SelectOptimize, CompleteOptimize
  <2> QED BY <1>5, <2>1, <2>2, <2>3, WhoMoved, Members
<1>6. CASE c = Visitor
  <2> USE DEF v
  <2>1. CASE SimOom \/ \E fc \in FailureClass : ConsumerFails(fc)
    <3>1. ctl[c].job \in Jobs
      BY <1>0, <1>6, <2>1 DEF SimOom, ConsumerFails, At, CtlTypeOK
    <3> QED BY <1>1, <1>6, <2>1, <3>1 DEF SimOom, ConsumerFails
  <2>2. ~VisitorKilled /\ ~VisitorDone
    BY <1>0, <1>3, <1>6 DEF VisitorKilled, VisitorDone
  <2>3. ~(\E j \in SimJobs : SimCreate(j)) /\ ~ConsumerClaim
    <3>1. \A j : /\ [Resting EXCEPT !.pc = "sim", !.job = j].pc = "sim"
                 /\ [Resting EXCEPT !.pc = "consume", !.job = j].pc = "consume"
      BY DEF Resting
    <3> QED BY <1>3, <1>6, <3>1 DEF SimCreate, ConsumerClaim
  <2>4. ~SimRun /\ ~SimRenew
    BY <1>0, <1>3, <1>4, <1>6 DEF SimRun, SimRenew, Transition, Raise
  <2>5. ~SimReap /\ ~ReapStep(v)
    <3>1. \A ids : [ctl[c] EXCEPT !.pc = "reaping", !.list = ids].pc = "reaping"
      BY <1>0 DEF CtlTypeOK, CtlRecords
    <3>2. \A j : [ctl[c] EXCEPT !.pc = "expire", !.job = j, !.list = @ \ {j}, !.row = Row(j)].pc = "expire"
      BY <1>0 DEF CtlTypeOK, CtlRecords
    <3>3. ~SimReap
      BY <1>3, <1>6, <3>1 DEF SimReap, ListExpired
    <3>4. ~ReapNext(v)
      BY <1>0, <1>3, <1>6, <3>2 DEF ReapNext
    <3>5. ~ReapFail(v)
      BY <1>0, <1>3, <1>4, <1>6 DEF ReapFail
    <3> QED BY <3>3, <3>4, <3>5 DEF ReapStep
  <2> QED BY <1>2, <1>6, <2>1, <2>2, <2>3, <2>4, <2>5, WhoMoved, Members DEF VisitorStep
<1> QED BY <1>5, <1>6, Members

\* Every step keeps the effective batch.
LEMMA BatchesNext ==
  ASSUME NEW S, Halves(S), PipeTypeOK, Batches(S), [Next]_vars
  PROVE  Batches(S)'
<1> USE DEF PipeTypeOK
<1>1. ASSUME NEW j \in Jobs PROVE mb'[j] \in S /\ mb'[j] * ga'[j] = Microbatch
  <2>1. CASE UNCHANGED <<mb, ga>>
    BY <2>1 DEF Batches
  <2>2. ASSUME NEW i \in Jobs, NEW c \in Controllers, At(c, "shrink"),
               update_payload(i, Shrunk(ctl[c].mb, ctl[c].ga).mb, Shrunk(ctl[c].mb, ctl[c].ga).ga)
        PROVE  mb'[j] \in S /\ mb'[j] * ga'[j] = Microbatch
    <3>1. ctl[c].mb \in S /\ ctl[c].mb > 1 /\ ctl[c].mb * ctl[c].ga = Microbatch /\ ctl[c].ga \in Nat
      BY <2>2, Members DEF Batches, At, CtlTypeOK, CtlRecords
    <3>2. /\ Shrunk(ctl[c].mb, ctl[c].ga).mb \in S
          /\ Shrunk(ctl[c].mb, ctl[c].ga).mb * Shrunk(ctl[c].mb, ctl[c].ga).ga = Microbatch
      BY <3>1, ShrunkHalves
    <3>3. CASE i = j
      BY <2>2, <3>2, <3>3 DEF update_payload, TableTypeOK
    <3>4. CASE i # j
      BY <2>2, <3>4 DEF update_payload, TableTypeOK, Batches
    <3> QED BY <3>3, <3>4
  <2>3. ASSUME NEW i \in Jobs, Calls(i)
        PROVE  \/ UNCHANGED <<mb, ga>>
               \/ \E c \in Controllers :
                    /\ At(c, "shrink")
                    /\ update_payload(i, Shrunk(ctl[c].mb, ctl[c].ga).mb,
                                      Shrunk(ctl[c].mb, ctl[c].ga).ga)
    BY <2>3 DEF Calls, create, Moves, claim
  <2>4. UNCHANGED tableVars => UNCHANGED <<mb, ga>>
    BY DEF tableVars
  <2> QED BY <2>1, <2>2, <2>3, <2>4, TableStep
<1>2. ASSUME NEW c \in Controllers, ctl'[c].pc = "shrink"
      PROVE  ctl'[c].mb \in S /\ ctl'[c].mb > 1 /\ ctl'[c].mb * ctl'[c].ga = Microbatch
  BY <1>2, ShrinksWhatItRead DEF Batches
<1> QED BY <1>1, <1>2 DEF Batches

-----------------------------------------------------------------------------
(* The lifecycle, and the theorems.                                         *)

\* The lifecycle's names are the table's.
LEMMA LifecycleNames ==
  /\ Lifecycle!ABSENT = ABSENT /\ Lifecycle!PENDING = PENDING
  /\ JobState \subseteq Lifecycle!JobState
  /\ \A s, t : can_transition(s, t) => Lifecycle!can_transition(s, t)
  /\ \A s, t : can_transition(s, FAILED) /\ t \in {PENDING, DEAD_LETTER} => Lifecycle!FailPath(s, t)
<1>1. /\ Lifecycle!PENDING = "pending" /\ Lifecycle!RUNNING = "running"
      /\ Lifecycle!PAUSED = "paused" /\ Lifecycle!SUCCEEDED = "succeeded"
      /\ Lifecycle!FAILED = "failed" /\ Lifecycle!RETRYING = "retrying"
      /\ Lifecycle!DEAD_LETTER = "dead_letter" /\ Lifecycle!CANCELLED = "cancelled"
      /\ Lifecycle!ABSENT = "absent"
  BY DEF Lifecycle!PENDING, Lifecycle!RUNNING, Lifecycle!PAUSED, Lifecycle!SUCCEEDED,
         Lifecycle!FAILED, Lifecycle!RETRYING, Lifecycle!DEAD_LETTER, Lifecycle!CANCELLED,
         Lifecycle!ABSENT
<1>2. JobState \subseteq Lifecycle!JobState
  BY <1>1, StateNames DEF JobState, Lifecycle!JobState
<1>3. Transitions = Lifecycle!Transitions
  BY <1>1, StateNames DEF Transitions, Lifecycle!Transitions
<1>4. \A s, t : can_transition(s, t) = Lifecycle!can_transition(s, t)
  BY <1>3 DEF can_transition, Lifecycle!can_transition
<1>5. \A s, t : can_transition(s, FAILED) /\ t \in {PENDING, DEAD_LETTER} => Lifecycle!FailPath(s, t)
  <2>1. /\ Lifecycle!can_transition(FAILED, RETRYING) /\ Lifecycle!can_transition(RETRYING, PENDING)
        /\ Lifecycle!can_transition(FAILED, DEAD_LETTER)
    BY <1>1, StateNames DEF Lifecycle!can_transition, Lifecycle!Transitions
  <2>2. Lifecycle!FAILED = FAILED /\ Lifecycle!RETRYING = RETRYING
    BY <1>1, StateNames
  <2> QED BY <1>4, <2>1, <2>2 DEF Lifecycle!FailPath
<1> QED BY <1>1, <1>2, <1>4, <1>5, StateNames

\* Every call of the job store is a step of the lifecycle.
LEMMA LifecycleStep ==
  ASSUME PipeTypeOK, [Next]_vars
  PROVE  [Lifecycle!Next]_state
<1>1. CASE UNCHANGED state
  BY <1>1
<1>2. ASSUME NEW j \in Jobs, create(j) PROVE Lifecycle!Next
  BY <1>2, LifecycleNames DEF create, Lifecycle!Next, Lifecycle!Create
<1>3. ASSUME NEW j \in Jobs, NEW s \in JobState, can_transition(state[j], s),
             state' = [state EXCEPT ![j] = s]
      PROVE  Lifecycle!Next
  BY <1>3, LifecycleNames DEF Lifecycle!Next, Lifecycle!Move
<1>4. ASSUME NEW j \in Jobs, NEW to \in {PENDING, DEAD_LETTER}, state[j] = RUNNING, Moves(j, to, 1)
      PROVE  Lifecycle!Next
  <2>1. to \in JobState /\ can_transition(state[j], FAILED)
    BY <1>4, Edges DEF JobState
  <2>2. Lifecycle!FailPath(state[j], to) /\ to \in Lifecycle!JobState
    BY <2>1, LifecycleNames
  <2> QED BY <1>4, <2>2 DEF Moves, Lifecycle!Next, Lifecycle!Fail
<1>5. ASSUME NEW j \in Jobs, NEW to \in {SUCCEEDED, DEAD_LETTER, RUNNING, FAILED}, NEW k,
             can_transition(state[j], to), Moves(j, to, k)
      PROVE  Lifecycle!Next
  BY <1>3, <1>5 DEF Moves, JobState
<1>6. ASSUME NEW j \in Jobs, NEW kinds, claim(j, kinds) PROVE Lifecycle!Next
  <2>1. can_transition(state[j], RUNNING)
    BY <1>6, Edges DEF claim, IsOldest
  <2> QED BY <1>3, <1>6, <2>1 DEF claim, JobState
<1>7. ASSUME NEW j \in Jobs, Calls(j) PROVE [Lifecycle!Next]_state
  BY <1>1, <1>2, <1>4, <1>5, <1>6, <1>7, Edges DEF Calls, update_payload
<1> QED BY <1>1, <1>7, TableStep DEF tableVars

\* The pipeline starts in its invariant, and on its course.
LEMMA PipeInit ==
  ASSUME Init
  PROVE  PipeInv /\ Rested /\ Course
<1> USE DEF Init, TableInit
<1>0. /\ Main \in Processes /\ Visitor \in Processes /\ Reaper \in Processes
      /\ \A c \in Controllers : c \in Processes
      /\ Runs \in Nat \ {0} /\ Steps \in Nat \ {0} /\ Microbatch \in Nat /\ Samples \in Nat
      /\ Resting.pc = "idle" /\ Resting.list = {} /\ Gone.pc = "gone"
  BY Members, Sizes DEF Resting, Gone
<1>1. TableTypeOK
  BY <1>0 DEF TableTypeOK, States
<1>2. CtlTypeOK
  BY DEF CtlTypeOK, CtlRecords, Resting
<1>3. MainTypeOK
  BY <1>0 DEF MainTypeOK
<1>4. WorkerTypeOK
  <2>1. Gone \in WorkerRecords
    BY NextTasks
  <2>2. worker \in [Workers -> WorkerRecords] /\ \A w \in Workers : worker[w].pc = "gone"
    BY <1>0, <2>1
  <2> QED BY <2>2 DEF WorkerTypeOK
<1>5. \A w \in Workers : worker[w].pc = "gone"
  BY <1>0
<1>6. MainCalls
  BY <1>0 DEF MainCalls
<1>7. Culprits
  BY StateNames DEF Culprits
<1>8. Accounted
  BY <1>5, StateNames DEF Accounted, RecordedIsComplete
<1>9. Paid
  <2> SUFFICES ASSUME NEW j \in Jobs
               PROVE  trajs[j] + Cardinality(Outstanding(j)) <= Samples * Deliveries(j)
    BY DEF Paid
  <2>1. Outstanding(j) = {}
    BY <1>5 DEF Outstanding
  <2>2. Cardinality(Outstanding(j)) = 0
    BY <2>1, FS_EmptySet
  <2>3. Deliveries(j) = 0 /\ trajs[j] = 0
    BY DEF Deliveries
  <2> QED BY <1>0, <2>2, <2>3
<1>10. Rested
  BY <1>5 DEF Rested
<1>11. Course
  BY <1>0 DEF Course
<1>12. Readings
  BY <1>0 DEF Readings
<1> QED BY <1>1, <1>2, <1>3, <1>4, <1>6, <1>7, <1>8, <1>9, <1>10, <1>11, <1>12 DEF PipeInv, PipeTypeOK

\* What the pipeline process, its pool, the recovery controller and the
\* simulations keep true between them, whatever is killed, raised, reaped or
\* started again: the inductive invariant of run_pipeline().
THEOREM PipelineInvariant == Spec => []PipeInv
<1>1. Init => PipeInv
  BY PipeInit
<1>2. PipeInv /\ [Next]_vars => PipeInv'
  BY PipeTypeNext, MainCallsNext, CulpritsNext, ReadingsNext, AccountedNext, PaidNext DEF PipeInv
<1> QED BY <1>1, <1>2, PTL DEF Spec

\* rollout_handler() writes a group of trajectories one commit at a time and
\* records the result last: a rollout that is recorded or SUCCEEDED has the
\* whole group, for any number of kills and redeliveries.
THEOREM GroupsAreWhole == Spec => []RecordedIsComplete
<1>1. PipeInv => RecordedIsComplete
  BY DEF PipeInv, Accounted
<1> QED BY <1>1, PipelineInvariant, PTL

\* Redelivered rollouts write their trajectories again, but never more groups
\* than failures of the job were committed, and one: whatever rows transition()
\* and fail() read before others wrote them, and however many attempts a stale
\* UPDATE takes back.
THEOREM RedeliveriesArePaid == Spec => []DuplicatesArePaid
<1>1. PipeInv => DuplicatesArePaid
  <2> SUFFICES ASSUME PipeInv, NEW j \in Jobs PROVE trajs[j] <= Samples * (fails[j] + 1)
    BY DEF DuplicatesArePaid
  <2>1. fails[j] \in Nat /\ trajs[j] \in Nat /\ Samples \in Nat
    BY Sizes DEF PipeInv, PipeTypeOK, TableTypeOK, WorkerTypeOK
  <2>2. Cardinality(Outstanding(j)) \in Nat
    BY Finitely
  <2>3. trajs[j] + Cardinality(Outstanding(j)) <= Samples * Deliveries(j)
    BY DEF PipeInv, Paid
  <2>4. Deliveries(j) = fails[j] \/ Deliveries(j) = fails[j] + 1
    BY <2>1 DEF Deliveries
  <2>5. Samples * (fails[j] + 1) = Samples * fails[j] + Samples /\ Samples * fails[j] \in Nat
    BY <2>1
  <2> QED BY <2>1, <2>2, <2>3, <2>4, <2>5
<1> QED BY <1>1, PipelineInvariant, PTL

\* A job that no worker and no reaper will find is one that a controller or a
\* simulation still holds, or was killed with: the two commits of
\* _dead_letter_now() and the unleased RUNNING of the simulations leave no
\* other trace.
THEOREM StrandedJobsHaveCulprits == Spec => []StrandedHasCulprit
<1>1. PipeInv => StrandedHasCulprit
  BY StateNames, Members DEF PipeInv, Culprits, StrandedHasCulprit, HeldBy
<1> QED BY <1>1, PipelineInvariant, PTL

\* Whatever the pipeline, its workers, the controller and the simulations do to
\* the table, each job's states are a walk of the transition graph.
THEOREM PipelineImplementsLifecycle == Spec => ImplementsLifecycle
<1>1. Init => Lifecycle!Init
  BY LifecycleNames DEF Init, TableInit, Lifecycle!Init
<1>2. PipeInv /\ [Next]_vars => [Lifecycle!Next]_state
  BY LifecycleStep DEF PipeInv
<1> QED BY <1>1, <1>2, PipelineInvariant, PTL DEF Spec, ImplementsLifecycle, Lifecycle!Spec

\* Where a failed job is retried at all and the batch can be shrunk at all (the
\* defaults are 3 attempts and a microbatch of 8), run_pipeline() completes the
\* optimize job it created, claims it although it asks for the oldest one, and
\* raises only where a simulation, a consumer, a lost lease of an optimize job
\* or a dead worker interfered.
THEOREM PipelineStaysOnCourse ==
  ASSUME MaxAttempts >= 2, Microbatch >= 2
  PROVE  Spec => []RaisesOnlyIfDisturbed
<1>1. Init => PipeInv /\ OnCourse
  BY PipeInit DEF OnCourse
<1>2. PipeInv /\ OnCourse /\ [Next]_vars => OnCourse'
  <2> SUFFICES ASSUME PipeInv, OnCourse, [Next]_vars PROVE OnCourse'
    OBVIOUS
  <2>1. PipeTypeOK /\ MainCalls /\ Rested
    BY DEF PipeInv, OnCourse
  <2>2. Rested'
    BY <2>1, RestedNext
  <2>3. ASSUME Undisturbed' PROVE Course'
    <3>1. Course
      BY <2>1, <2>3, UndisturbedBefore DEF OnCourse
    <3> QED BY <2>1, <2>3, <3>1, CourseNext
  <2> QED BY <2>2, <2>3 DEF OnCourse
<1>3. PipeInv /\ OnCourse => RaisesOnlyIfDisturbed
  <2> SUFFICES ASSUME PipeInv, OnCourse, main.pc = "raised", ~(visits > 0), ~deaths,
                      \A j \in reaped : Kind[j] # "optimize"
               PROVE  FALSE
    BY DEF RaisesOnlyIfDisturbed, MainAt
  <2>1. visits = 0
    BY DEF PipeInv, PipeTypeOK, CtlTypeOK
  <2> QED BY <2>1 DEF OnCourse, Undisturbed, Course
<1> QED BY <1>1, <1>2, <1>3, PipelineInvariant, PTL DEF Spec

\* Recoveries keep the optimization: where the batch sizes can be halved
\* exactly down to one, microbatch times accumulation is the batch that was
\* asked for, although controllers shrink payloads they read before another
\* one did.
THEOREM RecoveryKeepsTheBatch ==
  ASSUME NEW CONSTANT S, Halves(S), Microbatch \in S
  PROVE  Spec => []EffectiveBatchKept
<1>1. Init => Batches(S)
  BY Sizes, Members DEF Init, TableInit, Batches, Resting
<1>2. PipeInv /\ Batches(S) /\ [Next]_vars => Batches(S)'
  BY BatchesNext DEF PipeInv
<1>3. Batches(S) => EffectiveBatchKept
  BY DEF Batches, EffectiveBatchKept
<1> QED BY <1>1, <1>2, <1>3, PipelineInvariant, PTL DEF Spec

\* And so for the batch of every job the code creates: BatchPlan() and the
\* payloads of run_pipeline() and sim_oom() ask for a microbatch of 8.
COROLLARY DefaultBatchIsKept ==
  ASSUME Microbatch = 8
  PROVE  Spec => []EffectiveBatchKept
<1>1. Halves({1, 2, 4, 8})
  BY DEF Halves
<1>2. Microbatch \in {1, 2, 4, 8}
  OBVIOUS
<1> QED BY <1>1, <1>2, RecoveryKeepsTheBatch

=============================================================================
