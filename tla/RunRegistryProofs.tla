-------------------------- MODULE RunRegistryProofs --------------------------
(***************************************************************************)
(* The run records and the trajectory store, for any number of clients,    *)
(* runs, updates and trajectories: what an update recorded is kept unless  *)
(* updates overlapped, and a derivation chain is returned whole.           *)
(***************************************************************************)
EXTENDS RunRegistry, TLAPS

\* A run record.
Rec == [status : {"created", "running", "succeeded", "failed", "cancelled"},
        best_checkpoint : {NONE, "ckpt"}, policy_version : {NONE, 1},
        eval_result : {NONE, "metrics", "error"}]

\* What a client keeps between get() and save().
Held == [run : Nat, op : Ops, rec : Rec]

\* The types; a client holds, and an update names, a run that exists.
RunsTyped ==
  /\ runs \in Seq(Rec)
  /\ held \in [Clients -> {NONE} \cup Held]
  /\ \A c \in Clients : held[c] # NONE => held[c].run \in DOMAIN runs
  /\ done \subseteq (DOMAIN runs) \X Ops

\* What the updates in done left in the record rec of run r.
Kept(r, rec) ==
  /\ <<r, "succeed">> \in done => rec.best_checkpoint # NONE
  /\ <<r, "publish">> \in done => rec.policy_version # NONE
  /\ {<<r, "succeed">>, <<r, "fail">>} \cap done # {} => rec.eval_result # NONE

\* A new record is a record.
LEMMA NewRecord ==
  ASSUME NEW status \in {"created", "succeeded"}, NEW result \in {NONE, "metrics"}
  PROVE  [status |-> status, best_checkpoint |-> NONE,
          policy_version |-> NONE, eval_result |-> result] \in Rec
BY DEF Rec

\* An update returns a record and takes nothing away from the one it is made from.
LEMMA UpdateKeeps ==
  ASSUME NEW rec \in Rec, NEW op \in Ops
  PROVE  LET new == Updated(rec, op) IN
         /\ new \in Rec
         /\ rec.best_checkpoint # NONE \/ op = "succeed" => new.best_checkpoint # NONE
         /\ rec.policy_version # NONE \/ op = "publish" => new.policy_version # NONE
         /\ rec.eval_result # NONE \/ op \in {"succeed", "fail"} => new.eval_result # NONE
<1> USE RegistryAssumption DEF Rec
<1>1. CASE op = "start"
  BY <1>1 DEF Updated, Started
<1>2. CASE op = "publish"
  BY <1>2 DEF Updated, Published
<1>3. CASE op = "succeed"
  BY <1>3 DEF Updated, Finished
<1>4. CASE op = "fail"
  BY <1>4 DEF Updated, Finished
<1>5. CASE op = "cancel"
  BY <1>5 DEF Updated, Finished
<1> QED BY <1>1, <1>2, <1>3, <1>4, <1>5 DEF Ops

\* A new row is at the end, and no update was made to it yet.
LEMMA SaveStep ==
  ASSUME RunsTyped, UpdatesAccumulate, NEW status \in {"created", "succeeded"},
         NEW result \in {NONE, "metrics"}, save(status, result)
  PROVE  RunsTyped' /\ UpdatesAccumulate'
<1> DEFINE new == [status |-> status, best_checkpoint |-> NONE,
                   policy_version |-> NONE, eval_result |-> result]
<1>1. new \in Rec /\ runs' = Append(runs, new) /\ UNCHANGED <<held, done, torn>>
  BY NewRecord DEF save
<1> HIDE DEF new
<1>2. /\ runs' \in Seq(Rec) /\ DOMAIN runs' = (DOMAIN runs) \cup {Len(runs) + 1}
      /\ Len(runs) + 1 \notin DOMAIN runs
      /\ \A r \in DOMAIN runs : runs'[r] = runs[r]
  BY <1>1 DEF RunsTyped
<1>3. RunsTyped'
  BY <1>1, <1>2 DEF RunsTyped
<1>4. ASSUME NEW r \in DOMAIN runs' \ torn' PROVE Kept(r, runs[r])' 
  <2>1. CASE r \in DOMAIN runs
    BY <1>1, <1>2, <1>4, <2>1 DEF UpdatesAccumulate, Kept
  <2>2. CASE r = Len(runs) + 1
    <3>1. \A op : <<r, op>> \notin done
      BY <1>2, <2>2 DEF RunsTyped
    <3> QED BY <1>1, <3>1 DEF Kept
  <2> QED BY <1>2, <1>4, <2>1, <2>2
<1>5. UpdatesAccumulate'
  BY <1>4 DEF UpdatesAccumulate, Kept
<1> QED BY <1>3, <1>5

\* What a client read is a record of a run.
LEMMA ReadStep ==
  ASSUME RunsTyped, UpdatesAccumulate, NEW c \in Clients, NEW r \in DOMAIN runs, NEW op \in Ops,
         ReadRun(c, r, op)
  PROVE  RunsTyped' /\ UpdatesAccumulate'
<1>1. /\ held' = [held EXCEPT ![c] = [run |-> r, op |-> op, rec |-> runs[r]]]
      /\ UNCHANGED <<runs, done, torn>>
  BY DEF ReadRun
<1>2. [run |-> r, op |-> op, rec |-> runs[r]] \in Held /\ r \in Nat
  BY DEF Held, RunsTyped
<1>3. RunsTyped'
  BY <1>1, <1>2 DEF RunsTyped
<1> QED BY <1>1, <1>3 DEF UpdatesAccumulate

\* A row is replaced: by an update of what it is, or of what it was and then
\* the run is torn.
LEMMA WriteStep ==
  ASSUME RunsTyped, UpdatesAccumulate, NEW c \in Clients, WriteRun(c)
  PROVE  RunsTyped' /\ UpdatesAccumulate'
<1> DEFINE r   == held[c].run
           op  == held[c].op
           rec == held[c].rec
           new == Updated(rec, op)
<1>1. /\ runs' = [runs EXCEPT ![r] = new] /\ done' = done \cup {<<r, op>>}
      /\ torn' = IF runs[r] = rec THEN torn ELSE torn \cup {r}
      /\ held' = [held EXCEPT ![c] = NONE]
  BY DEF WriteRun
<1>2. r \in DOMAIN runs /\ op \in Ops /\ rec \in Rec
  BY DEF WriteRun, RunsTyped, Held
<1>3. /\ new \in Rec
      /\ rec.best_checkpoint # NONE \/ op = "succeed" => new.best_checkpoint # NONE
      /\ rec.policy_version # NONE \/ op = "publish" => new.policy_version # NONE
      /\ rec.eval_result # NONE \/ op \in {"succeed", "fail"} => new.eval_result # NONE
  BY <1>2, UpdateKeeps
<1> HIDE DEF new, rec, op, r
<1>4. /\ runs' \in Seq(Rec) /\ DOMAIN runs' = DOMAIN runs /\ runs'[r] = new
      /\ \A k \in DOMAIN runs \ {r} : runs'[k] = runs[k]
  BY <1>1, <1>2, <1>3 DEF RunsTyped
<1>5. RunsTyped'
  BY <1>1, <1>2, <1>4 DEF RunsTyped
<1>6. ASSUME NEW k \in DOMAIN runs' \ torn' PROVE Kept(k, runs[k])'
  <2>1. k \in DOMAIN runs \ torn
    BY <1>1, <1>4, <1>6
  <2>2. Kept(k, runs[k])
    BY <2>1 DEF UpdatesAccumulate, Kept
  <2>3. CASE k # r
    <3>1. \A o : <<k, o>> \in done' => <<k, o>> \in done
      BY <1>1, <2>3
    <3> QED BY <1>4, <2>1, <2>2, <2>3, <3>1 DEF Kept
  <2>4. CASE k = r
    <3>1. runs[k] = rec
      BY <1>1, <1>6, <2>4
    <3>2. \A o : <<k, o>> \in done' => <<k, o>> \in done \/ o = op
      BY <1>1, <2>4
    <3>3. Kept(k, rec)
      BY <2>2, <3>1
    <3>4. runs'[k] = new
      BY <1>4, <2>4
    <3> QED BY <1>3, <3>2, <3>3, <3>4 DEF Kept
  <2> QED BY <2>3, <2>4
<1>7. UpdatesAccumulate'
  BY <1>6 DEF UpdatesAccumulate, Kept
<1> QED BY <1>5, <1>7

\* The other steps of the stores.
LEMMA OtherSteps ==
  ASSUME [Next]_vars
  PROVE  \/ create_run \/ register_rl_result
         \/ \E c \in Clients : \/ \E r \in DOMAIN runs, op \in Ops : ReadRun(c, r, op)
                               \/ WriteRun(c) \/ ClientDies(c)
         \/ UNCHANGED <<runs, held, done, torn>>
BY DEF Next, create_artifact, register, from_completion, sim_duplicate_trajectory, put, prune,
       StartWalk, Walk, EndWalk, vars

\* What one client records of a run is not undone by the next, for as long as
\* no update of the row is made from a record read before another was written:
\* also when a run that succeeded is finished again, and whatever clients die
\* between get() and save().
THEOREM UpdatesAreKept == Spec => []UpdatesAccumulate
<1>1. Init => RunsTyped /\ UpdatesAccumulate
  BY DEF Init, RunsTyped, UpdatesAccumulate
<1>2. RunsTyped /\ UpdatesAccumulate /\ [Next]_vars => RunsTyped' /\ UpdatesAccumulate'
  <2> SUFFICES ASSUME RunsTyped, UpdatesAccumulate, [Next]_vars
               PROVE  RunsTyped' /\ UpdatesAccumulate'
    OBVIOUS
  <2>1. CASE create_run \/ register_rl_result
    BY <2>1, SaveStep DEF create_run, register_rl_result
  <2>2. ASSUME NEW c \in Clients, ClientDies(c) PROVE RunsTyped' /\ UpdatesAccumulate'
    BY <2>2 DEF ClientDies, RunsTyped, UpdatesAccumulate
  <2>3. CASE UNCHANGED <<runs, held, done, torn>>
    BY <2>3 DEF RunsTyped, UpdatesAccumulate
  <2> QED BY <2>1, <2>2, <2>3, ReadStep, WriteStep, OtherSteps
<1> QED BY <1>1, <1>2, PTL DEF Spec

-----------------------------------------------------------------------------
(* Trajectories.                                                            *)

\* Every stored id was drawn, and a parent was drawn before its child.
TrajsTyped ==
  /\ parent \in Seq({NONE} \cup Nat)
  /\ trajs \subseteq DOMAIN parent
  /\ \A t \in DOMAIN parent : parent[t] = NONE \/ parent[t] \in 1..(t - 1)

\* A chain from the root end of the walk down to the trajectory it started from.
Chain(chain, of) ==
  /\ chain[Len(chain)] = of
  /\ \A i \in 2..Len(chain) : parent[chain[i]] = chain[i - 1]

\* The walk has the chain from where it is, or has not begun.
WalkIsSound ==
  walk # NONE =>
    /\ walk \in [of : DOMAIN parent, cur : {NONE} \cup DOMAIN parent, chain : Seq(DOMAIN parent)]
    /\ walk.chain = <<>> => walk.cur = walk.of
    /\ walk.chain # <<>> => /\ Chain(walk.chain, walk.of)
                            /\ parent[walk.chain[1]] = walk.cur

\* One more ancestor in front of a chain.
LEMMA ChainGrows ==
  ASSUME NEW S, NEW chain \in Seq(S), NEW t \in S, NEW of,
         IF chain = <<>> THEN t = of ELSE Chain(chain, of) /\ parent[chain[1]] = t
  PROVE  LET new == <<t>> \o chain IN
         new \in Seq(S) /\ new # <<>> /\ Chain(new, of) /\ new[1] = t
<1> DEFINE new == <<t>> \o chain
<1>1. /\ new \in Seq(S) /\ Len(new) = Len(chain) + 1 /\ Len(chain) \in Nat
      /\ new[1] = t /\ \A i \in 2..Len(new) : new[i] = chain[i - 1]
  OBVIOUS
<1>2. new # <<>>
  BY <1>1
<1>3. CASE chain = <<>>
  BY <1>1, <1>2, <1>3 DEF Chain
<1>4. CASE chain # <<>>
  <2>1. Len(chain) >= 1
    BY <1>4
  <2>2. new[Len(new)] = of
    BY <1>1, <1>4, <2>1 DEF Chain
  <2>3. ASSUME NEW i \in 2..Len(new) PROVE parent[new[i]] = new[i - 1]
    <3>1. CASE i = 2
      BY <1>1, <1>4, <2>1, <3>1
    <3>2. CASE i > 2
      <4>1. i - 1 \in 2..Len(chain) /\ i - 1 \in 2..Len(new)
        BY <1>1, <3>2
      <4>2. parent[chain[i - 1]] = chain[(i - 1) - 1]
        BY <1>4, <4>1 DEF Chain
      <4>3. new[i] = chain[i - 1] /\ new[i - 1] = chain[(i - 1) - 1]
        BY <1>1, <4>1
      <4> QED BY <4>2, <4>3
    <3> QED BY <3>1, <3>2
  <2> QED BY <1>1, <1>2, <2>2, <2>3 DEF Chain
<1> QED BY <1>3, <1>4

\* A chain stays one when trajectories are added.
LEMMA ChainStays ==
  ASSUME NEW chain \in Seq(DOMAIN parent), NEW of, Chain(chain, of),
         \A t \in DOMAIN parent : parent'[t] = parent[t]
  PROVE  Chain(chain, of)'
<1>1. \A i \in 2..Len(chain) : chain[i] \in DOMAIN parent
  OBVIOUS
<1> QED BY <1>1 DEF Chain

\* put() draws a new id, whose parent is a stored one.
LEMMA PutStep ==
  ASSUME TrajsTyped, WalkIsSound, NEW p, put(p)
  PROVE  TrajsTyped' /\ WalkIsSound'
<1>1. /\ parent' = Append(parent, p) /\ p \in {NONE} \cup Nat
      /\ p = NONE \/ p \in DOMAIN parent
      /\ trajs' = trajs \cup {Len(parent) + 1} /\ walk' = walk
  BY DEF put, Drawn, TrajsTyped
<1>2. /\ parent' \in Seq({NONE} \cup Nat) /\ DOMAIN parent' = (DOMAIN parent) \cup {Len(parent) + 1}
      /\ \A t \in DOMAIN parent : parent'[t] = parent[t]
      /\ parent'[Len(parent) + 1] = p /\ Len(parent) \in Nat /\ DOMAIN parent = 1..Len(parent)
  BY <1>1 DEF TrajsTyped
<1>3. ASSUME NEW t \in DOMAIN parent' PROVE parent'[t] = NONE \/ parent'[t] \in 1..(t - 1)
  <2>1. CASE t \in DOMAIN parent
    BY <1>2, <2>1 DEF TrajsTyped
  <2>2. CASE t = Len(parent) + 1
    BY <1>1, <1>2, <2>2
  <2> QED BY <1>2, <1>3, <2>1, <2>2
<1>4. TrajsTyped'
  BY <1>1, <1>2, <1>3 DEF TrajsTyped
<1>5. ASSUME walk # NONE PROVE WalkIsSound'
  <2>1. /\ walk \in [of : DOMAIN parent, cur : {NONE} \cup DOMAIN parent, chain : Seq(DOMAIN parent)]
        /\ walk.chain = <<>> => walk.cur = walk.of
        /\ walk.chain # <<>> => /\ Chain(walk.chain, walk.of)
                                /\ parent[walk.chain[1]] = walk.cur
    BY <1>5 DEF WalkIsSound
  <2>2. walk.chain \in Seq(DOMAIN parent) /\ walk.chain \in Seq(DOMAIN parent')
    <3>1. walk.chain \in Seq(DOMAIN parent)
      BY <2>1
    <3>2. ASSUME NEW S, NEW T, S \subseteq T, NEW c \in Seq(S) PROVE c \in Seq(T)
      BY <3>2
    <3>3. DOMAIN parent \subseteq DOMAIN parent'
      BY <1>2
    <3> QED BY <3>1, <3>2, <3>3
  <2>3. walk \in [of : DOMAIN parent', cur : {NONE} \cup DOMAIN parent', chain : Seq(DOMAIN parent')]
    BY <1>2, <2>1, <2>2
  <2>4. walk.chain # <<>> => walk.chain[1] \in DOMAIN parent
    BY <2>2
  <2>5. walk.chain # <<>> => Chain(walk.chain, walk.of)'
    BY <1>1, <1>2, <2>1, <2>2, ChainStays DEF Chain
  <2> QED BY <1>1, <1>2, <2>1, <2>3, <2>4, <2>5 DEF WalkIsSound
<1> QED BY <1>1, <1>4, <1>5 DEF WalkIsSound

\* The walk reads its next ancestor, or raises.
LEMMA WalkStep ==
  ASSUME TrajsTyped, WalkIsSound, Walk
  PROVE  WalkIsSound'
<1>1. walk # NONE /\ walk.cur # NONE /\ UNCHANGED <<parent, trajs>>
  BY DEF Walk
<1>2. /\ walk \in [of : DOMAIN parent, cur : {NONE} \cup DOMAIN parent, chain : Seq(DOMAIN parent)]
      /\ walk.chain = <<>> => walk.cur = walk.of
      /\ walk.chain # <<>> => /\ Chain(walk.chain, walk.of)
                              /\ parent[walk.chain[1]] = walk.cur
  BY <1>1 DEF WalkIsSound
<1>3. CASE walk' = NONE
  BY <1>3 DEF WalkIsSound
<1>4. CASE /\ walk.cur \in trajs
           /\ walk' = [walk EXCEPT !.cur = parent[walk.cur], !.chain = <<walk.cur>> \o walk.chain]
  <2> DEFINE new == <<walk.cur>> \o walk.chain
  <2>1. walk.cur \in DOMAIN parent /\ walk.chain \in Seq(DOMAIN parent)
    BY <1>2, <1>4 DEF TrajsTyped
  <2>2. new \in Seq(DOMAIN parent) /\ new # <<>> /\ Chain(new, walk.of) /\ new[1] = walk.cur
    BY <1>2, <2>1, ChainGrows
  <2> HIDE DEF new
  <2>3. walk'.chain = new /\ walk'.cur = parent[walk.cur] /\ walk'.of = walk.of
    BY <1>2, <1>4 DEF new
  <2>4. parent[walk.cur] \in {NONE} \cup DOMAIN parent
    BY <2>1 DEF TrajsTyped
  <2>5. walk' \in [of : DOMAIN parent, cur : {NONE} \cup DOMAIN parent, chain : Seq(DOMAIN parent)]
    BY <1>2, <1>4, <2>2, <2>4 DEF new
  <2>6. /\ walk'.chain[Len(walk'.chain)] = walk'.of
        /\ \A i \in 2..Len(walk'.chain) : parent'[walk'.chain[i]] = walk'.chain[i - 1]
    BY <1>1, <2>2, <2>3 DEF Chain
  <2>7. parent'[walk'.chain[1]] = walk'.cur
    BY <1>1, <2>2, <2>3
  <2> QED BY <1>1, <2>2, <2>3, <2>5, <2>6, <2>7 DEF WalkIsSound, Chain
<1> QED BY <1>3, <1>4 DEF Walk

\* prune() between the reads takes ids away and changes no lineage.
LEMMA PruneStep ==
  ASSUME TrajsTyped, WalkIsSound, NEW n, prune(n)
  PROVE  TrajsTyped' /\ WalkIsSound'
<1>1. trajs' \subseteq trajs /\ UNCHANGED <<parent, walk>>
  BY DEF prune
<1>2. TrajsTyped'
  BY <1>1 DEF TrajsTyped
<1>3. WalkIsSound'
  BY <1>1 DEF WalkIsSound, Chain
<1> QED BY <1>2, <1>3

\* A derivation chain that ancestry() returns is the whole chain, root first,
\* however many trajectories are stored or pruned between its reads.
THEOREM AncestryIsNeverCut == Spec => []AncestryIsWhole
<1>1. Init => TrajsTyped /\ WalkIsSound
  BY DEF Init, TrajsTyped, WalkIsSound
<1>2. TrajsTyped /\ WalkIsSound /\ [Next]_vars => TrajsTyped' /\ WalkIsSound'
  <2> SUFFICES ASSUME TrajsTyped, WalkIsSound, [Next]_vars
               PROVE  TrajsTyped' /\ WalkIsSound'
    OBVIOUS
  <2>1. ASSUME UNCHANGED <<trajs, parent>> PROVE TrajsTyped'
    BY <2>1 DEF TrajsTyped
  <2>2. CASE UNCHANGED <<trajs, parent, walk>>
    BY <2>1, <2>2 DEF WalkIsSound, Chain
  <2>3. CASE from_completion \/ sim_duplicate_trajectory
    BY <2>3, PutStep DEF from_completion, sim_duplicate_trajectory
  <2>4. ASSUME NEW t \in trajs, StartWalk(t) PROVE TrajsTyped' /\ WalkIsSound'
    <3>1. walk' = [of |-> t, cur |-> t, chain |-> <<>>] /\ UNCHANGED <<trajs, parent>>
      BY <2>4 DEF StartWalk
    <3>2. t \in DOMAIN parent
      BY <2>4 DEF TrajsTyped
    <3>3. WalkIsSound'
      BY <3>1, <3>2 DEF WalkIsSound
    <3> QED BY <2>1, <3>1, <3>3
  <2>5. CASE Walk
    BY <2>1, <2>5, WalkStep DEF Walk
  <2>6. CASE EndWalk
    BY <2>1, <2>6 DEF EndWalk, WalkIsSound
  <2>7. \/ UNCHANGED <<trajs, parent, walk>>
        \/ from_completion \/ sim_duplicate_trajectory
        \/ \E n : prune(n)
        \/ \E t \in trajs : StartWalk(t)
        \/ Walk \/ EndWalk
    BY DEF Next, create_run, register_rl_result, save, ReadRun, WriteRun, ClientDies,
       create_artifact, register, vars
  <2> QED BY <2>2, <2>3, <2>4, <2>5, <2>6, <2>7, PruneStep
<1>3. TrajsTyped /\ WalkIsSound => AncestryIsWhole
  <2> SUFFICES ASSUME TrajsTyped, WalkIsSound, walk # NONE, walk.cur = NONE
               PROVE  /\ walk.chain # <<>> /\ Last(walk.chain) = walk.of
                      /\ parent[Head(walk.chain)] = NONE
                      /\ \A i \in 2..Len(walk.chain) : parent[walk.chain[i]] = walk.chain[i - 1]
    BY DEF AncestryIsWhole
  <2>1. walk.of \in DOMAIN parent /\ DOMAIN parent \subseteq Nat /\ walk.chain \in Seq(DOMAIN parent)
    BY DEF WalkIsSound, TrajsTyped
  <2>2. walk.chain # <<>>
    BY <2>1, RegistryAssumption DEF WalkIsSound
  <2>3. Head(walk.chain) = walk.chain[1] /\ Last(walk.chain) = walk.chain[Len(walk.chain)]
    BY <2>1, <2>2 DEF Last
  <2> QED BY <2>2, <2>3 DEF WalkIsSound, Chain
<1> QED BY <1>1, <1>2, <1>3, PTL DEF Spec

=============================================================================
