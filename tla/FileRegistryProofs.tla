-------------------------- MODULE FileRegistryProofs --------------------------
(***************************************************************************)
(* What the file registries promise, for any number of ingests, files,     *)
(* kills and corruptions: a visible artifact is whole, a returned call has *)
(* a visible artifact, retention keeps the newest, a load is genuine, and  *)
(* the policies are a log.                                                 *)
(*                                                                         *)
(* The invariants say what is on disk at each statement of an ingest: what *)
(* is so whatever the janitor does (Holding), what is so as long as it     *)
(* kept away from that ingest (Undisturbed), and what a directory that is  *)
(* condemned by prune() leaves behind (Retained).                          *)
(***************************************************************************)
EXTENDS FileRegistry, FiniteSetTheorems, SequenceTheorems, TLAPS

Statements == {"begin", "stage", "copy", "hash", "commit", "done", "raised", "killed"}
Contents   == {"none", "torn", "good", "bad"}

\* The types of what ingests keep, of the directories, and of the others.
CallTypeOK ==
  /\ pc \in [Ingests -> Statements]
  /\ name \in [Ingests -> Nat]
  /\ source \in [Ingests -> SUBSET Files]
  /\ todo \in [Ingests -> SUBSET Files]
  /\ entries \in [Ingests -> SUBSET Files]
  /\ \A i \in Ingests : pc[i] = "hash" => todo[i] # {}   \* a file to be hashed

DirTypeOK ==
  /\ at \in [Ingests -> {"none", "staging", "final"}]
  /\ data \in [Ingests -> [Files -> Contents]]
  /\ manifest \in [Ingests -> (SUBSET Files) \cup {NONE}]

ActorTypeOK ==
  /\ janitor \in [op : {"idle", "sweep", "prune"}, victims : SUBSET Ingests,
                  target : Ingests \cup {NONE}, doomed : SUBSET (Files \cup {MANIFEST})]
  /\ reader \in [of : Ingests \cup {NONE}, left : SUBSET Files, late : BOOLEAN,
                 value : Contents]
  /\ client \in [version : Nat, pinned : Nat]

FilesTypeOK ==
  /\ CallTypeOK /\ DirTypeOK /\ ActorTypeOK
  /\ root \in {"checkpoints", "policies", "prompts"}
  /\ born \in Seq(Ingests)
  /\ swept \subseteq Ingests /\ pruned \subseteq Ingests /\ rotted \subseteq Ingests
  /\ kills \in Nat /\ rots \in Nat

\* File k of ingest i is absent, or one that was copied and hashed.
Copied(i, k) == \/ data[i][k] = "none"
                \/ k \in entries[i] /\ data[i][k] = "good"

\* What holds of an ingest's directory whatever the janitor does.
Holding(i) ==
  /\ at[i] = "final" => pc[i] = "done"
  /\ pc[i] \in {"begin", "stage", "copy", "hash"} => manifest[i] = NONE
  /\ pc[i] \in {"begin", "stage", "copy", "commit"} => \A k \in Files : Copied(i, k)
  /\ pc[i] \in {"begin", "stage"} => entries[i] = {}
  /\ pc[i] = "hash" => \A k \in Files \ {Min(todo[i])} : Copied(i, k)
  /\ pc[i] = "commit" => manifest[i] \in {NONE, entries[i]}
  /\ pc[i] = "done" =>
       \A k \in Files :
         /\ data[i][k] # "torn"
         /\ data[i][k] # "none" => manifest[i] = NONE \/ k \in manifest[i]
  /\ i \in rotted => pc[i] = "done"

\* The janitor works in the checkpoint registry only, on one directory at a time.
JanitorKeepsTo ==
  /\ janitor.op = "idle" => janitor.target = NONE /\ janitor.victims = {}
  /\ root # "checkpoints" => janitor.op = "idle" /\ swept = {} /\ pruned = {}

\* What holds of an ingest's directory when no janitor has touched it.
Undisturbed(i) ==
  i \notin swept \cup pruned =>
    /\ pc[i] = "begin" => at[i] = "none"
    /\ pc[i] = "stage" => at[i] = "none" /\ source[i] = Source(i)
    /\ pc[i] \in {"copy", "hash"} =>
         /\ at[i] = "staging" /\ source[i] = Source(i)
         /\ todo[i] \subseteq Source(i) /\ entries[i] = Source(i) \ todo[i]
         /\ \A k \in entries[i] : data[i][k] = "good"
    /\ pc[i] = "commit" => at[i] = "staging" /\ Whole(i)
    /\ pc[i] = "done" =>
         \/ at[i] = "final" /\ manifest[i] = Source(i) /\ (i \notin rotted => Whole(i))
         \/ at[i] = "none" /\ Materialized

\* A load in progress: as long as no corruption came after it began, the state
\* file still has to be checked, or is as it was saved, or is gone.
LoadIsOnTrack ==
  /\ reader.of # NONE => /\ pc[reader.of] = "done"
                         /\ \/ reader.late \/ 1 \in reader.left
                            \/ data[reader.of][1] \in {"good", "none"}
  /\ LoadIsGenuine

\* An ingest takes created_at once, when it writes its manifest.
Before == {"begin", "stage", "copy", "hash"}
IsBorn(i) == \E p \in DOMAIN born : born[p] = i
BornOnce ==
  /\ \A p, q \in DOMAIN born : born[p] = born[q] => p = q
  /\ \A i \in Ingests : pc[i] \in Before => ~IsBorn(i)
  /\ \A i \in Ingests : pc[i] = "commit" => IsBorn(i)
  /\ \A i \in Ingests : pc[i] = "done" /\ root # "prompts" => IsBorn(i)

\* The checkpoints newer than i that no prune touched.
Keepers(i) == {l \in Ingests \ pruned : pc[l] = "done" /\ Newer(l, i)}

\* Pruned already, or about to be.
Condemned == pruned \cup (IF janitor.op = "prune"
                          THEN janitor.victims \cup ({janitor.target} \ {NONE})
                          ELSE {})

Retained == \A i \in Condemned :
              /\ pc[i] = "done" /\ i \notin Protected
              /\ Cardinality(Keepers(i)) >= KeepLast

\* The visible versions are 1..n, each of one publisher, and a publisher under
\* way has taken at most the next number.
Numbered ==
  root = "policies" =>
    LET n == Cardinality(Listed) IN
      /\ \A i \in Listed : name[i] \in 1..n
      /\ \A v \in 1..n : \E i \in Listed : name[i] = v
      /\ \A i, j \in Listed : name[i] = name[j] => i = j
      /\ \A i \in Ingests : pc[i] \in {"stage", "copy", "hash", "commit"} =>
                              name[i] \in 1..(n + 1)

\* The inductive invariant.
FilesInv ==
  /\ FilesTypeOK
  /\ \A i \in Ingests : Holding(i)
  /\ JanitorKeepsTo
  /\ \A i \in Ingests : Undisturbed(i)
  /\ LoadIsOnTrack
  /\ BornOnce
  /\ Retained
  /\ Numbered

-----------------------------------------------------------------------------
USE DEF Statements, Contents, Before, Goto, End,
        callVars, dirVars, janitorVars, rotVars

\* min() of a non-empty set of files is one of them.
LEMMA MinOfFiles ==
  ASSUME NEW S \in SUBSET Files, S # {}
  PROVE  Min(S) \in S /\ \A k \in S : Min(S) <= k
<1> DEFINE R == {ss \in Nat \X Nat : ss[1] < ss[2]}
<1>1. IsWellFoundedOn(R, Nat)
  BY NatLessThanWellFounded DEF OpToRel
<1>2. S \subseteq Nat
  BY FileAssumption DEF Files
<1>3. PICK k \in S : \A l \in S : ~(<<l, k>> \in R)
  <2> HIDE DEF R
  <2> QED BY <1>1, <1>2, WFMin
<1>4. \A l \in S : k <= l
  <2> SUFFICES ASSUME NEW l \in S PROVE k <= l
    OBVIOUS
  <2>1. <<l, k>> \in Nat \X Nat /\ k \in Nat /\ l \in Nat
    BY <1>2
  <2>2. ~(l < k)
    BY <1>3, <2>1
  <2> QED BY <2>1, <2>2
<1> QED BY <1>4 DEF Min

\* A finite set has an element of the highest number: a least set without one
\* would have an element, and without that element still have none.
LEMMA HighestExists ==
  ASSUME NEW S, IsFiniteSet(S), S # {}, NEW f, \A i \in S : f[i] \in Nat
  PROVE  \E i \in S : \A j \in S : f[j] <= f[i]
<1> DEFINE Topped(U) == \E i \in U : \A j \in U : f[j] <= f[i]
           Bad == {U \in FiniteSubsetsOf(S) : U # {} /\ ~Topped(U)}
           R == StrictSubsetOrdering(S)
<1> SUFFICES ASSUME Bad # {} PROVE FALSE
  BY DEF FiniteSubsetsOf
<1>1. PICK U \in Bad : \A V \in Bad : ~(<<V, U>> \in R)
  <2>1. IsWellFoundedOn(R, FiniteSubsetsOf(S))
    BY FS_StrictSubsetOrderingWellFounded
  <2>2. Bad \subseteq FiniteSubsetsOf(S)
    OBVIOUS
  <2> HIDE DEF R, Bad
  <2> QED BY <2>1, <2>2, WFMin
<1>2. PICK x : x \in U
  OBVIOUS
<1> DEFINE V == U \ {x}
<1>3. V \in FiniteSubsetsOf(S) /\ <<V, U>> \in R
  BY <1>2, FS_RemoveElement DEF FiniteSubsetsOf, StrictSubsetOrdering
<1>4. V = {} \/ Topped(V)
  BY <1>1, <1>3
<1>5. \A i \in U : f[i] \in Nat
  BY DEF FiniteSubsetsOf
<1>6. CASE V = {}
  <2>1. U = {x}
    BY <1>2, <1>6
  <2> QED BY <2>1, <1>5
<1>7. CASE Topped(V)
  <2>1. PICK i \in V : \A j \in V : f[j] <= f[i]
    BY <1>7
  <2>2. CASE f[x] <= f[i]
    BY <2>1, <2>2
  <2>3. CASE ~(f[x] <= f[i])
    <3>1. \A j \in U : f[j] <= f[x]
      BY <1>2, <1>5, <2>1, <2>3
    <3> QED BY <1>2, <3>1
  <2> QED BY <2>2, <2>3
<1> QED BY <1>4, <1>6, <1>7

\* What a source holds is a set of files.
LEMMA SourceType == \A i : Source(i) \in SUBSET Files /\ 1 \in Source(i)
BY FileAssumption DEF Source, Files

\* latest() is the number of a visible directory, and no other has a higher one.
LEMMA LatestIsHighest ==
  ASSUME name \in [Ingests -> Nat]
  PROVE  /\ Latest \in Nat
         /\ Listed # {} => \E i \in Listed : /\ Latest = name[i]
                                             /\ \A j \in Listed : name[j] <= name[i]
<1>1. IsFiniteSet(Listed)
  BY FS_Subset, FileAssumption DEF Listed
<1>2. CASE Listed # {}
  <2>1. \A i \in Listed : i \in Ingests /\ name[i] \in Nat
    BY DEF Listed
  <2>2. \E i \in Listed : \A j \in Listed : name[j] <= name[i]
    BY <1>1, <1>2, <2>1, HighestExists
  <2> QED BY <1>2, <2>1, <2>2 DEF Latest
<1> QED BY <1>2 DEF Latest

\* Writing one file of one directory.
LEMMA WriteFile ==
  ASSUME NEW d \in [Ingests -> [Files -> Contents]],
         NEW i \in Ingests, NEW k \in Files, NEW c \in Contents
  PROVE  LET e == [d EXCEPT ![i][k] = c] IN
           /\ e \in [Ingests -> [Files -> Contents]]
           /\ e[i][k] = c
           /\ \A j \in Ingests, l \in Files : j # i \/ l # k => e[j][l] = d[j][l]
<1> DEFINE e == [d EXCEPT ![i][k] = c]
<1>1. d[i] \in [Files -> Contents] /\ [d[i] EXCEPT ![k] = c] \in [Files -> Contents]
  OBVIOUS
<1>2. e = [d EXCEPT ![i] = [d[i] EXCEPT ![k] = c]]
  OBVIOUS
<1>3. e \in [Ingests -> [Files -> Contents]]
  BY <1>1, <1>2
<1>4. e[i] = [d[i] EXCEPT ![k] = c]
  BY <1>2
<1>5. ASSUME NEW j \in Ingests, NEW l \in Files, j # i \/ l # k
      PROVE  e[j][l] = d[j][l]
  <2>1. CASE j = i
    BY <1>1, <1>4, <1>5, <2>1
  <2>2. CASE j # i
    BY <1>2, <2>2
  <2> QED BY <2>1, <2>2
<1>6. e[i][k] = c
  BY <1>1, <1>4
<1> QED BY <1>3, <1>5, <1>6

\* Every variable starts in its type.
LEMMA TypeInit == Init => FilesTypeOK
<1> SUFFICES ASSUME Init PROVE FilesTypeOK
  OBVIOUS
<1> USE DEF Init
<1>1. CallTypeOK /\ DirTypeOK
  <2>1. CallTypeOK
    BY DEF CallTypeOK
  <2>2. DirTypeOK
    BY DEF DirTypeOK
  <2> QED BY <2>1, <2>2
<1>2. ActorTypeOK
  BY DEF ActorTypeOK, Idle, NoRead
<1> QED BY <1>1, <1>2, FileAssumption DEF FilesTypeOK

\* Every step of an ingest keeps the types.
LEMMA TypeIngest ==
  ASSUME FilesTypeOK, NEW i \in Ingests, IngestStep(i) \/ Kill(i)
  PROVE  FilesTypeOK'
<1> USE DEF FilesTypeOK
<1>1. UNCHANGED <<root, janitor, reader, client, swept, pruned, rots, rotted>>
  BY DEF IngestStep, Begin, Stage, CopyFile, HashFile, WriteManifest, Commit, Kill,
         IngestFrame
<1>2. kills' \in Nat
  BY DEF IngestStep, Begin, Stage, CopyFile, HashFile, WriteManifest, Commit, Kill,
         IngestFrame
<1>3. ActorTypeOK'
  BY <1>1 DEF ActorTypeOK
<1>4. born' \in Seq(Ingests)
  <2>1. born' \in {born, Append(born, i)}
    BY DEF IngestStep, Begin, Stage, CopyFile, HashFile, WriteManifest, Commit, Kill
  <2> QED BY <2>1
<1>5. CASE Begin(i)
  <2>1. NextName \in Nat
    BY LatestIsHighest DEF NextName, CallTypeOK
  <2>2. Source(i) \in SUBSET Files
    BY SourceType
  <2>3. CallTypeOK'
    <3>1. CASE End(i, "done")
      BY <3>1 DEF CallTypeOK, End, Goto
    <3>2. CASE /\ Goto(i, "stage") /\ UNCHANGED <<todo, entries>>
               /\ name' = [name EXCEPT ![i] = NextName]
               /\ source' = [source EXCEPT ![i] = Source(i)]
      <4>1. pc' \in [Ingests -> Statements]
        BY <3>2 DEF CallTypeOK, Goto
      <4>2. name' \in [Ingests -> Nat] /\ source' \in [Ingests -> SUBSET Files]
        BY <2>1, <2>2, <3>2 DEF CallTypeOK
      <4>3. \A k \in Ingests : pc'[k] = "hash" => pc[k] = "hash"
        BY <3>2 DEF CallTypeOK, Goto
      <4> QED BY <3>2, <4>1, <4>2, <4>3 DEF CallTypeOK
    <3> QED BY <1>5, <3>1, <3>2 DEF Begin
  <2>4. DirTypeOK'
    BY <1>5 DEF Begin, DirTypeOK
  <2> QED BY <1>1, <1>2, <1>3, <1>4, <2>3, <2>4
<1>6. CASE Stage(i)
  <2>1. CallTypeOK'
    BY <1>6 DEF Stage, CallTypeOK
  <2>2. DirTypeOK'
    BY <1>6 DEF Stage, DirTypeOK
  <2> QED BY <1>1, <1>2, <1>3, <1>4, <2>1, <2>2
<1>7. CASE CopyFile(i)
  <2>1. Min(todo[i]) \in Files
    BY <1>7, MinOfFiles DEF CopyFile, CallTypeOK
  <2>2. CallTypeOK'
    BY <1>7 DEF CopyFile, CallTypeOK
  <2>3. DirTypeOK'
    <3>1. [data EXCEPT ![i][Min(todo[i])] = "torn"] \in [Ingests -> [Files -> Contents]]
      BY <2>1, WriteFile DEF DirTypeOK
    <3> QED BY <1>7, <3>1 DEF CopyFile, DirTypeOK
  <2> QED BY <1>1, <1>2, <1>3, <1>4, <2>2, <2>3
<1>8. CASE HashFile(i)
  <2>1. Min(todo[i]) \in Files
    BY <1>8, MinOfFiles DEF HashFile, CallTypeOK
  <2>2. CallTypeOK'
    <3>1. pc' \in [Ingests -> Statements] /\ name' = name
      BY <1>8 DEF HashFile, CallTypeOK
    <3>2. source' \in [Ingests -> SUBSET Files]
      BY <1>8 DEF HashFile, CallTypeOK
    <3>5. todo' \in [Ingests -> SUBSET Files]
      BY <1>8 DEF HashFile, CallTypeOK
    <3>3. entries' \in [Ingests -> SUBSET Files]
      BY <1>8, <2>1 DEF HashFile, CallTypeOK
    <3>4. \A j \in Ingests : pc'[j] = "hash" => todo'[j] # {}
      BY <1>8 DEF HashFile, CallTypeOK
    <3> QED BY <3>1, <3>2, <3>3, <3>4, <3>5 DEF CallTypeOK
  <2>3. DirTypeOK'
    <3>1. [data EXCEPT ![i][Min(todo[i])] = "good"] \in [Ingests -> [Files -> Contents]]
      BY <2>1, WriteFile DEF DirTypeOK
    <3> QED BY <1>8, <3>1 DEF HashFile, DirTypeOK
  <2> QED BY <1>1, <1>2, <1>3, <1>4, <2>2, <2>3
<1>9. CASE WriteManifest(i)
  <2>1. CallTypeOK'
    BY <1>9 DEF WriteManifest, CallTypeOK
  <2>2. DirTypeOK'
    BY <1>9 DEF WriteManifest, DirTypeOK, CallTypeOK
  <2> QED BY <1>1, <1>2, <1>3, <1>4, <2>1, <2>2
<1>10. CASE Commit(i)
  <2>1. CallTypeOK'
    BY <1>10 DEF Commit, CallTypeOK
  <2>2. DirTypeOK'
    BY <1>10 DEF Commit, DirTypeOK
  <2> QED BY <1>1, <1>2, <1>3, <1>4, <2>1, <2>2
<1>11. CASE Kill(i)
  <2>1. CallTypeOK' /\ DirTypeOK'
    BY <1>11 DEF Kill, CallTypeOK, DirTypeOK
  <2> QED BY <1>1, <1>2, <1>3, <1>4, <2>1
<1> QED BY <1>5, <1>6, <1>7, <1>8, <1>9, <1>10, <1>11 DEF IngestStep

\* Every step of the janitor keeps the types.
LEMMA TypeJanitor ==
  ASSUME FilesTypeOK, JanitorStep
  PROVE  FilesTypeOK'
<1> USE DEF FilesTypeOK, JanitorFrame
<1>1. CASE SweepList \/ PruneList \/ JanitorDone
  <2>1. ActorTypeOK'
    <3>1. CASE SweepList
      BY <3>1, FileAssumption DEF SweepList, Idle, ActorTypeOK
    <3>2. CASE PruneList
      BY <3>2 DEF PruneList, Expendable, Listed, Idle, ActorTypeOK
    <3>3. CASE JanitorDone
      BY <3>3 DEF JanitorDone, Idle, ActorTypeOK
    <3> QED BY <1>1, <3>1, <3>2, <3>3
  <2>2. CallTypeOK' /\ DirTypeOK'
    BY <1>1 DEF CallTypeOK, DirTypeOK, SweepList, PruneList, JanitorDone
  <2> QED BY <1>1, <2>1, <2>2 DEF SweepList, PruneList, JanitorDone
<1>2. ASSUME NEW i \in Ingests, OpenDir(i) PROVE FilesTypeOK'
  <2>1. Holds(i) \subseteq Files \cup {MANIFEST}
    BY DEF Holds
  <2>2. ActorTypeOK'
    BY <1>2, <2>1 DEF OpenDir, ActorTypeOK
  <2>3. CallTypeOK' /\ DirTypeOK'
    BY <1>2 DEF OpenDir, CallTypeOK, DirTypeOK
  <2> QED BY <1>2, <2>2, <2>3 DEF OpenDir
<1>3. ASSUME NEW i \in Ingests, RemoveDir(i) PROVE FilesTypeOK'
  <2>1. ActorTypeOK'
    BY <1>3 DEF RemoveDir, ActorTypeOK
  <2>2. CallTypeOK' /\ DirTypeOK'
    BY <1>3 DEF RemoveDir, CallTypeOK, DirTypeOK
  <2> QED BY <1>3, <2>1, <2>2 DEF RemoveDir, Touch
<1>4. ASSUME NEW i \in Ingests, NEW e \in Files \cup {MANIFEST}, Unlink(i, e)
      PROVE  FilesTypeOK'
  <2>1. ActorTypeOK'
    BY <1>4 DEF Unlink, ActorTypeOK
  <2>2. CallTypeOK'
    BY <1>4 DEF Unlink, CallTypeOK
  <2>3. DirTypeOK'
    <3>1. e # MANIFEST => [data EXCEPT ![i][e] = "none"] \in [Ingests -> [Files -> Contents]]
      BY WriteFile DEF DirTypeOK
    <3> QED BY <1>4, <3>1 DEF Unlink, DirTypeOK
  <2> QED BY <1>4, <2>1, <2>2, <2>3 DEF Unlink, Touch
<1> QED BY <1>1, <1>2, <1>3, <1>4 DEF JanitorStep

\* A corruption, a reader or a client takes a step.
OtherStep ==
  \/ \E i \in Ingests : ReadManifest(i) \/ Corrupt(i)
  \/ CheckFile \/ ReadState \/ Refresh
  \/ \E v \in 1..Cardinality(Ingests) : Pin(v)

\* Such a step keeps the types.
LEMMA TypeOthers ==
  ASSUME FilesTypeOK, OtherStep
  PROVE  FilesTypeOK'
<1> USE DEF FilesTypeOK, ReaderFrame
<1>1. CallTypeOK'
  BY DEF OtherStep, ReadManifest, Corrupt, CheckFile, ReadState, Refresh, Pin, CallTypeOK
<1>2. UNCHANGED <<root, born, swept, pruned, kills>>
  BY DEF OtherStep, ReadManifest, Corrupt, CheckFile, ReadState, Refresh, Pin
<1>3. ASSUME NEW i \in Ingests, ReadManifest(i) PROVE FilesTypeOK'
  <2>0. manifest[i] \in SUBSET Files
    BY <1>3 DEF ReadManifest, Visible, DirTypeOK
  <2>1. ActorTypeOK'
    BY <1>3, <2>0 DEF ReadManifest, NoRead, ActorTypeOK
  <2> QED BY <1>1, <1>2, <1>3, <2>1 DEF ReadManifest, DirTypeOK
<1>4. ASSUME NEW i \in Ingests, Corrupt(i) PROVE FilesTypeOK'
  <2>0. manifest[i] \in SUBSET Files /\ manifest[i] # {}
    BY <1>4 DEF Corrupt, Listed, Visible, DirTypeOK
  <2>1. Min(manifest[i]) \in Files
    BY <2>0, MinOfFiles
  <2>2. ActorTypeOK'
    BY <1>4 DEF Corrupt, ActorTypeOK
  <2>3. DirTypeOK'
    BY <1>4, <2>1 DEF Corrupt, DirTypeOK
  <2> QED BY <1>1, <1>2, <1>4, <2>2, <2>3 DEF Corrupt
<1>5. CASE CheckFile
  <2>1. ActorTypeOK'
    BY <1>5 DEF CheckFile, NoRead, ActorTypeOK
  <2> QED BY <1>1, <1>2, <1>5, <2>1 DEF CheckFile, DirTypeOK
<1>6. CASE ReadState
  <2>1. 1 \in Files /\ reader.of \in Ingests
    BY <1>6, FileAssumption DEF ReadState, ActorTypeOK, Files
  <2>2. data[reader.of][1] \in Contents
    BY <2>1 DEF DirTypeOK
  <2>3. ActorTypeOK'
    BY <1>6, <2>2 DEF ReadState, NoRead, ActorTypeOK
  <2> QED BY <1>1, <1>2, <1>6, <2>3 DEF ReadState, DirTypeOK
<1>7. CASE Refresh
  <2>1. ActorTypeOK'
    BY <1>7, LatestIsHighest DEF Refresh, ActorTypeOK, CallTypeOK
  <2> QED BY <1>1, <1>2, <1>7, <2>1 DEF Refresh, DirTypeOK
<1>8. ASSUME NEW v \in 1..Cardinality(Ingests), Pin(v) PROVE FilesTypeOK'
  <2>1. v \in Nat
    BY <1>8, LatestIsHighest DEF Pin, CallTypeOK
  <2>2. ActorTypeOK'
    BY <1>8, <2>1 DEF Pin, ActorTypeOK
  <2> QED BY <1>1, <1>2, <1>8, <2>2 DEF Pin, DirTypeOK
<1> QED BY <1>3, <1>4, <1>5, <1>6, <1>7, <1>8 DEF OtherStep

\* Every step is one of an ingest, of the janitor, or of another.
LEMMA Steps ==
  Next <=> \/ \E i \in Ingests : IngestStep(i) \/ Kill(i)
           \/ JanitorStep
           \/ OtherStep
BY DEF Next, OtherStep

\* So every step keeps the types.
LEMMA TypeNext == FilesTypeOK /\ [Next]_vars => FilesTypeOK'
<1> SUFFICES ASSUME FilesTypeOK, [Next]_vars PROVE FilesTypeOK'
  OBVIOUS
<1>1. CASE UNCHANGED vars
  BY <1>1 DEF FilesTypeOK, CallTypeOK, DirTypeOK, ActorTypeOK, vars
<1> QED BY <1>1, Steps, TypeIngest, TypeJanitor, TypeOthers

-----------------------------------------------------------------------------
(* What is on disk.                                                         *)

\* A step of i leaves the other ingests and the history alone.
LEMMA OthersUntouched ==
  ASSUME FilesTypeOK, NEW i \in Ingests, IngestStep(i) \/ Kill(i),
         NEW j \in Ingests, j # i
  PROVE  /\ pc'[j] = pc[j] /\ name'[j] = name[j] /\ source'[j] = source[j]
         /\ todo'[j] = todo[j] /\ entries'[j] = entries[j]
         /\ at'[j] = at[j] /\ data'[j] = data[j] /\ manifest'[j] = manifest[j]
<1>1. pc'[j] = pc[j] /\ name'[j] = name[j] /\ source'[j] = source[j]
  BY DEF FilesTypeOK, CallTypeOK, IngestStep, Begin, Stage, CopyFile, HashFile,
         WriteManifest, Commit, Kill
<1>2. todo'[j] = todo[j] /\ entries'[j] = entries[j]
  BY DEF FilesTypeOK, CallTypeOK, IngestStep, Begin, Stage, CopyFile, HashFile,
         WriteManifest, Commit, Kill
<1>3. at'[j] = at[j] /\ data'[j] = data[j] /\ manifest'[j] = manifest[j]
  BY DEF FilesTypeOK, DirTypeOK, IngestStep, Begin, Stage, CopyFile, HashFile,
         WriteManifest, Commit, Kill
<1> QED BY <1>1, <1>2, <1>3

\* A step of an ingest leaves the janitor, the readers and the history alone.
LEMMA ActorsUntouched ==
  ASSUME NEW i \in Ingests, IngestStep(i) \/ Kill(i)
  PROVE  UNCHANGED <<root, janitor, reader, client, swept, pruned, rots, rotted>>
BY DEF IngestStep, Begin, Stage, CopyFile, HashFile, WriteManifest, Commit, Kill,
       IngestFrame

\* A step of an ingest keeps the account of its directory.
LEMMA HoldingIngest ==
  ASSUME FilesTypeOK, NEW i \in Ingests, Holding(i), IngestStep(i) \/ Kill(i)
  PROVE  Holding(i)'
<1> USE DEF Holding, Copied, FilesTypeOK
<1>0. UNCHANGED rotted
  BY ActorsUntouched
<1>1. CASE Begin(i)
  BY <1>0, <1>1 DEF Begin, CallTypeOK
<1>2. CASE Stage(i)
  BY <1>0, <1>2 DEF Stage, CallTypeOK, DirTypeOK
<1>3. CASE CopyFile(i)
  <2>1. Min(todo[i]) \in Files
    BY <1>3, MinOfFiles DEF CopyFile, CallTypeOK
  <2>2. CASE Min(todo[i]) \notin source[i]
    BY <1>0, <1>3, <2>2 DEF CopyFile, CallTypeOK, DirTypeOK
  <2>3. CASE Min(todo[i]) \in source[i]
    <3>1. \A l \in Files \ {Min(todo[i])} : data'[i][l] = data[i][l]
      BY <1>3, <2>1, <2>3, WriteFile DEF CopyFile, DirTypeOK
    <3>2. pc'[i] = "hash" /\ at'[i] = "staging"
      BY <1>3, <2>3 DEF CopyFile, CallTypeOK, DirTypeOK
    <3> QED BY <1>0, <1>3, <2>3, <3>1, <3>2 DEF CopyFile
  <2> QED BY <2>2, <2>3
<1>4. CASE HashFile(i)
  <2>1. Min(todo[i]) \in Files
    BY <1>4, MinOfFiles DEF HashFile, CallTypeOK
  <2>2. CASE data[i][Min(todo[i])] = "none"
    BY <1>0, <1>4, <2>2 DEF HashFile, CallTypeOK, DirTypeOK
  <2>3. CASE data[i][Min(todo[i])] # "none"
    <3>1. /\ data'[i][Min(todo[i])] = "good"
          /\ \A l \in Files \ {Min(todo[i])} : data'[i][l] = data[i][l]
      BY <1>4, <2>1, <2>3, WriteFile DEF HashFile, DirTypeOK
    <3>2. pc'[i] = "copy" /\ entries'[i] = entries[i] \cup {Min(todo[i])}
      BY <1>4, <2>3 DEF HashFile, CallTypeOK
    <3> QED BY <1>0, <1>4, <2>3, <3>1, <3>2 DEF HashFile
  <2> QED BY <2>2, <2>3
<1>5. CASE WriteManifest(i)
  BY <1>0, <1>5 DEF WriteManifest, CallTypeOK, DirTypeOK
<1>6. CASE Commit(i)
  BY <1>0, <1>6 DEF Commit, CallTypeOK, DirTypeOK
<1>7. CASE Kill(i)
  BY <1>0, <1>7 DEF Kill, CallTypeOK, DirTypeOK
<1> QED BY <1>1, <1>2, <1>3, <1>4, <1>5, <1>6, <1>7 DEF IngestStep

\* The janitor only removes: a file or a manifest goes, nothing else changes.
LEMMA JanitorRemoves ==
  ASSUME FilesTypeOK, JanitorStep, NEW j \in Ingests
  PROVE  /\ UNCHANGED <<root, pc, name, todo, entries, born, reader, rotted>>
         /\ at'[j] \in {at[j], "none"}
         /\ manifest'[j] \in {manifest[j], NONE}
         /\ \A k \in Files : data'[j][k] \in {data[j][k], "none"}
         /\ source'[j] \in {source[j], {}}
<1> USE DEF FilesTypeOK, DirTypeOK, JanitorFrame
<1>1. CASE SweepList \/ PruneList \/ JanitorDone
  BY <1>1 DEF SweepList, PruneList, JanitorDone
<1>2. ASSUME NEW i \in Ingests, OpenDir(i)
      PROVE  /\ UNCHANGED <<root, pc, name, todo, entries, born, reader, rotted, dirVars>>
             /\ source'[j] \in {source[j], {}}
  BY <1>2 DEF OpenDir, CallTypeOK
<1>3. ASSUME NEW i \in Ingests, RemoveDir(i)
      PROVE  /\ UNCHANGED <<root, pc, name, source, todo, entries, born, reader, rotted,
                            data, manifest>>
             /\ at'[j] \in {at[j], "none"}
  BY <1>3 DEF RemoveDir
<1>4. ASSUME NEW i \in Ingests, NEW e \in Files \cup {MANIFEST}, Unlink(i, e)
      PROVE  /\ UNCHANGED <<root, pc, name, source, todo, entries, born, reader, rotted, at>>
             /\ manifest'[j] \in {manifest[j], NONE}
             /\ \A k \in Files : data'[j][k] \in {data[j][k], "none"}
  <2>1. e # MANIFEST => \A k \in Files :
          [data EXCEPT ![i][e] = "none"][j][k] \in {data[j][k], "none"}
    <3>1. e # MANIFEST => e \in Files
      OBVIOUS
    <3> QED BY <3>1, WriteFile
  <2> QED BY <1>4, <2>1 DEF Unlink
<1> QED BY <1>1, <1>2, <1>3, <1>4 DEF JanitorStep

\* Whatever is removed, the account of a directory stays true.
LEMMA HoldingJanitor ==
  ASSUME FilesTypeOK, NEW j \in Ingests, Holding(j), JanitorStep
  PROVE  Holding(j)'
BY JanitorRemoves DEF Holding, Copied

\* A corruption is of a directory that is there, in a file of its manifest.
LEMMA CorruptIsInside ==
  ASSUME FilesTypeOK, NEW i \in Ingests, Holding(i), Corrupt(i)
  PROVE  /\ pc[i] = "done" /\ at[i] = "final" /\ manifest[i] # NONE
         /\ Min(manifest[i]) \in Files /\ Min(manifest[i]) \in manifest[i]
         /\ data'[i][Min(manifest[i])] = "bad"
         /\ \A j \in Ingests, k \in Files :
              j # i \/ k # Min(manifest[i]) => data'[j][k] = data[j][k]
<1>1. pc[i] = "done" /\ at[i] = "final" /\ manifest[i] # NONE
  BY DEF Corrupt, Listed, Visible, Holding
<1>2. manifest[i] \in SUBSET Files /\ manifest[i] # {}
  BY <1>1 DEF Corrupt, FilesTypeOK, DirTypeOK
<1>3. Min(manifest[i]) \in Files /\ Min(manifest[i]) \in manifest[i]
  BY <1>2, MinOfFiles
<1>4. data \in [Ingests -> [Files -> Contents]]
      /\ data' = [data EXCEPT ![i][Min(manifest[i])] = "bad"]
  BY DEF FilesTypeOK, DirTypeOK, Corrupt
<1> QED BY <1>1, <1>3, <1>4, WriteFile

\* Nor do corruptions, readers and clients upset the account.
LEMMA HoldingOthers ==
  ASSUME FilesTypeOK, \A i \in Ingests : Holding(i), OtherStep, NEW j \in Ingests
  PROVE  Holding(j)'
<1>1. ASSUME NEW i \in Ingests, Corrupt(i) PROVE Holding(j)'
  <2>1. UNCHANGED <<at, pc, manifest, entries, todo>> /\ rotted' = rotted \cup {i}
    BY <1>1 DEF Corrupt
  <2>2. CASE j = i
    BY <1>1, <2>1, <2>2, CorruptIsInside DEF Holding
  <2>3. CASE j # i
    BY <1>1, <2>1, <2>3, CorruptIsInside DEF Holding, Copied
  <2> QED BY <2>2, <2>3
<1>2. CASE UNCHANGED <<at, pc, manifest, entries, todo, rotted, data>>
  BY <1>2 DEF Holding, Copied
<1> QED BY <1>1, <1>2 DEF OtherStep, ReadManifest, CheckFile, ReadState, Refresh, Pin,
                          ReaderFrame

\* So every step keeps the account of every directory.
LEMMA HoldingNext ==
  ASSUME FilesTypeOK, \A i \in Ingests : Holding(i), [Next]_vars
  PROVE  \A i \in Ingests : Holding(i)'
<1> SUFFICES ASSUME NEW j \in Ingests PROVE Holding(j)'
  OBVIOUS
<1>1. ASSUME NEW i \in Ingests, IngestStep(i) \/ Kill(i) PROVE Holding(j)'
  <2>1. CASE j # i
    BY <1>1, <2>1, OthersUntouched, ActorsUntouched DEF Holding, Copied
  <2> QED BY <1>1, <2>1, HoldingIngest
<1>2. CASE UNCHANGED vars
  BY <1>2 DEF Holding, Copied, vars
<1> QED BY <1>1, <1>2, Steps, HoldingJanitor, HoldingOthers

\* The janitor keeps to checkpoints, and to one directory at a time.
LEMMA JanitorNext ==
  ASSUME FilesTypeOK, JanitorKeepsTo, [Next]_vars
  PROVE  JanitorKeepsTo'
<1>1. CASE JanitorStep
  <2> USE DEF JanitorKeepsTo, FilesTypeOK, ActorTypeOK, Idle, JanitorFrame
  <2>1. CASE SweepList
    BY <2>1 DEF SweepList
  <2>2. CASE PruneList
    BY <2>2 DEF PruneList
  <2>3. CASE JanitorDone
    BY <2>3 DEF JanitorDone
  <2>4. ASSUME NEW i \in Ingests, OpenDir(i) PROVE JanitorKeepsTo'
    BY <2>4 DEF OpenDir
  <2>5. ASSUME NEW i \in Ingests, RemoveDir(i) PROVE JanitorKeepsTo'
    BY <2>5, FileAssumption DEF RemoveDir, Touch
  <2>6. ASSUME NEW i \in Ingests, NEW e, Unlink(i, e) PROVE JanitorKeepsTo'
    BY <2>6, FileAssumption DEF Unlink, Touch
  <2> QED BY <1>1, <2>1, <2>2, <2>3, <2>4, <2>5, <2>6 DEF JanitorStep
<1>2. CASE UNCHANGED <<root, janitor, swept, pruned>>
  BY <1>2 DEF JanitorKeepsTo
<1>3. OtherStep => UNCHANGED <<root, janitor, swept, pruned>>
  BY DEF OtherStep, ReadManifest, Corrupt, CheckFile, ReadState, Refresh, Pin, ReaderFrame
<1> QED BY <1>1, <1>2, <1>3, Steps, ActorsUntouched DEF vars

\* Without a janitor in it, a registry loses nothing that is visible.
LEMMA ListedGrows ==
  ASSUME FilesTypeOK, \A i \in Ingests : Holding(i), JanitorKeepsTo,
         root # "checkpoints", [Next]_vars
  PROVE  Listed \subseteq Listed'
<1> SUFFICES ASSUME NEW j \in Listed PROVE at'[j] = "final" /\ manifest'[j] # NONE
  BY DEF Listed, Visible
<1>0. j \in Ingests /\ at[j] = "final" /\ manifest[j] # NONE /\ pc[j] = "done"
  BY DEF Listed, Visible, Holding
<1>1. ASSUME NEW i \in Ingests, IngestStep(i) \/ Kill(i)
      PROVE  at'[j] = "final" /\ manifest'[j] # NONE
  <2>1. CASE i # j
    BY <1>0, <1>1, <2>1, OthersUntouched
  <2>2. CASE i = j
    BY <1>0, <1>1, <2>2 DEF IngestStep, Begin, Stage, CopyFile, HashFile, WriteManifest,
                            Commit, Kill
  <2> QED BY <2>1, <2>2
<1>2. CASE JanitorStep
  <2>1. janitor.op = "idle" /\ janitor.target = NONE /\ janitor.victims = {}
    BY DEF JanitorKeepsTo
  <2> QED BY <1>2, <2>1, FileAssumption DEF JanitorStep, SweepList, PruneList, JanitorDone,
             OpenDir, RemoveDir, Unlink
<1>3. CASE OtherStep
  <2>1. UNCHANGED <<at, manifest>>
    BY <1>3 DEF OtherStep, ReadManifest, Corrupt, CheckFile, ReadState, Refresh, Pin,
                ReaderFrame
  <2> QED BY <1>0, <2>1
<1> QED BY <1>0, <1>1, <1>2, <1>3, Steps DEF vars

\* No step changes which registry this is.
LEMMA RootStays == [Next]_vars => root' = root
<1>1. OtherStep => root' = root
  BY DEF OtherStep, ReadManifest, Corrupt, CheckFile, ReadState, Refresh, Pin, ReaderFrame
<1>2. JanitorStep => root' = root
  BY DEF JanitorStep, SweepList, PruneList, JanitorDone, OpenDir, RemoveDir, Unlink,
         JanitorFrame
<1> QED BY <1>1, <1>2, Steps, ActorsUntouched DEF vars

\* A data set that is there stays there.
LEMMA MaterializedStays ==
  ASSUME FilesTypeOK, \A i \in Ingests : Holding(i), JanitorKeepsTo, [Next]_vars,
         Materialized
  PROVE  Materialized'
<1>1. Listed \subseteq Listed' /\ root' = root
  BY ListedGrows, RootStays DEF Materialized
<1> QED BY <1>1 DEF Materialized

\* A step of an ingest that no janitor touched goes by the book.
LEMMA UndisturbedIngest ==
  ASSUME FilesTypeOK, \A j \in Ingests : Holding(j), JanitorKeepsTo,
         NEW i \in Ingests, Undisturbed(i), IngestStep(i) \/ Kill(i)
  PROVE  Undisturbed(i)'
<1>0. SUFFICES ASSUME i \notin swept \cup pruned PROVE Undisturbed(i)'
  BY ActorsUntouched DEF Undisturbed
<1>1. UNCHANGED <<root, rotted, swept, pruned>> /\ Source(i)' = Source(i)
  BY ActorsUntouched DEF Source
<1>2. Materialized => Materialized'
  BY MaterializedStays, Steps
<1>3. Source(i) \in SUBSET Files /\ Source(i) # {}
  BY SourceType
<1> USE DEF FilesTypeOK
<1>4. CASE Begin(i)
  <2>1. at[i] = "none" /\ at' = at
    BY <1>0, <1>4 DEF Undisturbed, Begin
  <2>2. CASE Materialized
    BY <1>2, <1>4, <2>1, <2>2 DEF Begin, Undisturbed, CallTypeOK
  <2>3. CASE ~Materialized
    <3>1. pc'[i] = "stage" /\ source'[i] = Source(i)
      BY <1>4, <2>3 DEF Begin, CallTypeOK
    <3> QED BY <1>1, <2>1, <3>1 DEF Undisturbed
  <2> QED BY <2>2, <2>3
<1>5. CASE Stage(i)
  <2>1. source[i] = Source(i) /\ entries[i] = {}
    BY <1>0, <1>5 DEF Undisturbed, Stage, Holding
  <2>2. CASE root = "policies" /\ Taken(i)
    BY <1>5, <2>2 DEF Stage, Undisturbed, CallTypeOK
  <2>3. CASE ~(root = "policies" /\ Taken(i))
    <3>1. /\ pc'[i] = "copy" /\ at'[i] = "staging" /\ todo'[i] = source[i]
          /\ source' = source /\ entries' = entries
      BY <1>5, <2>3 DEF Stage, CallTypeOK, DirTypeOK
    <3> QED BY <1>1, <2>1, <3>1 DEF Undisturbed
  <2> QED BY <2>2, <2>3
<1>6. CASE CopyFile(i)
  <2>1. Min(todo[i]) \in todo[i] /\ Min(todo[i]) \in Files
    BY <1>6, MinOfFiles DEF CopyFile, CallTypeOK
  <2>2. Min(todo[i]) \in source[i] /\ Min(todo[i]) \notin entries[i]
    BY <1>0, <1>6, <2>1 DEF CopyFile, Undisturbed
  <2>3. \A l \in Files \ {Min(todo[i])} : data'[i][l] = data[i][l]
    BY <1>6, <2>1, <2>2, WriteFile DEF CopyFile, DirTypeOK
  <2>4. /\ pc'[i] = "hash" /\ at'[i] = "staging"
        /\ source' = source /\ todo' = todo /\ entries' = entries
    BY <1>6, <2>2 DEF CopyFile, CallTypeOK, DirTypeOK
  <2>5. entries[i] \subseteq Files
    BY DEF CallTypeOK
  <2> QED BY <1>0, <1>1, <1>6, <2>2, <2>3, <2>4, <2>5 DEF Undisturbed, CopyFile
<1>7. CASE HashFile(i)
  <2>1. Min(todo[i]) \in todo[i] /\ Min(todo[i]) \in Files
    BY <1>7, MinOfFiles DEF HashFile, CallTypeOK
  <2>2. CASE data[i][Min(todo[i])] = "none"
    BY <1>7, <2>2 DEF HashFile, Undisturbed, CallTypeOK
  <2>3. CASE data[i][Min(todo[i])] # "none"
    <3>1. /\ data'[i][Min(todo[i])] = "good"
          /\ \A l \in Files \ {Min(todo[i])} : data'[i][l] = data[i][l]
      BY <1>7, <2>1, <2>3, WriteFile DEF HashFile, DirTypeOK
    <3>2. /\ pc'[i] = "copy" /\ source' = source /\ at' = at
          /\ entries'[i] = entries[i] \cup {Min(todo[i])}
          /\ todo'[i] = todo[i] \ {Min(todo[i])}
      BY <1>7, <2>3 DEF HashFile, CallTypeOK
    <3>3. entries[i] \subseteq Files
      BY DEF CallTypeOK
    <3>4. todo[i] \subseteq Source(i) /\ entries[i] = Source(i) \ todo[i]
          /\ at[i] = "staging" /\ source[i] = Source(i)
          /\ \A k \in entries[i] : data[i][k] = "good"
      BY <1>0, <1>7 DEF Undisturbed, HashFile
    <3>5. todo'[i] \subseteq Source(i) /\ entries'[i] = Source(i) \ todo'[i]
      BY <2>1, <3>2, <3>4
    <3>6. \A k \in entries'[i] : data'[i][k] = "good"
      BY <3>1, <3>2, <3>3, <3>4
    <3> QED BY <1>1, <3>2, <3>4, <3>5, <3>6 DEF Undisturbed
  <2> QED BY <2>2, <2>3
<1>8. CASE WriteManifest(i)
  <2>1. /\ at[i] = "staging" /\ entries[i] = Source(i)
        /\ \A k \in entries[i] : data[i][k] = "good"
    BY <1>0, <1>8 DEF Undisturbed, WriteManifest
  <2>2. /\ pc'[i] = "commit" /\ manifest'[i] = entries[i]
        /\ at' = at /\ data' = data
    BY <1>8, <2>1 DEF WriteManifest, CallTypeOK, DirTypeOK
  <2> QED BY <1>1, <2>1, <2>2 DEF Undisturbed, Whole
<1>9. CASE Commit(i)
  <2>1. Whole(i) /\ at[i] = "staging"
    BY <1>0, <1>9 DEF Undisturbed, Commit
  <2>2. CASE Taken(i)
    BY <1>9, <2>2 DEF Commit, Undisturbed, CallTypeOK
  <2>3. CASE ~Taken(i)
    <3>1. pc'[i] = "done" /\ at'[i] = "final" /\ data' = data /\ manifest' = manifest
      BY <1>9, <2>1, <2>3 DEF Commit, CallTypeOK, DirTypeOK
    <3> QED BY <1>1, <2>1, <3>1 DEF Undisturbed, Whole
  <2> QED BY <2>2, <2>3
<1>10. CASE Kill(i)
  BY <1>10 DEF Kill, Undisturbed, CallTypeOK
<1> QED BY <1>4, <1>5, <1>6, <1>7, <1>8, <1>9, <1>10 DEF IngestStep

\* The janitor leaves its mark on every ingest whose directory or source it changes.
LEMMA JanitorMarks ==
  ASSUME FilesTypeOK, JanitorKeepsTo, JanitorStep, NEW j \in Ingests,
         j \notin swept' \cup pruned'
  PROVE  /\ j \notin swept \cup pruned
         /\ at'[j] = at[j] /\ data'[j] = data[j] /\ manifest'[j] = manifest[j]
         /\ source'[j] = source[j]
<1> USE DEF FilesTypeOK, DirTypeOK, CallTypeOK
<1>0. janitor.op \in {"idle", "sweep", "prune"}
  BY DEF ActorTypeOK
<1>1. CASE SweepList \/ PruneList \/ JanitorDone
  BY <1>1 DEF SweepList, PruneList, JanitorDone
<1>2. ASSUME NEW i \in Ingests, OpenDir(i)
      PROVE  /\ j \notin swept \cup pruned /\ UNCHANGED dirVars
             /\ source'[j] = source[j]
  BY <1>2 DEF OpenDir
<1>3. ASSUME NEW i \in Ingests, RemoveDir(i)
      PROVE  /\ j \notin swept \cup pruned /\ at'[j] = at[j]
             /\ UNCHANGED <<data, manifest, source>>
  <2>1. janitor.op \in {"sweep", "prune"}
    BY <1>0, <1>3, FileAssumption DEF RemoveDir, JanitorKeepsTo
  <2>2. j # i /\ j \notin swept \cup pruned
    BY <1>3, <2>1 DEF RemoveDir, Touch
  <2> QED BY <1>3, <2>2 DEF RemoveDir
<1>4. ASSUME NEW i \in Ingests, NEW e \in Files \cup {MANIFEST}, Unlink(i, e)
      PROVE  /\ j \notin swept \cup pruned /\ data'[j] = data[j] /\ manifest'[j] = manifest[j]
             /\ UNCHANGED <<at, source>>
  <2>1. janitor.op \in {"sweep", "prune"}
    BY <1>0, <1>4, FileAssumption DEF Unlink, JanitorKeepsTo
  <2>2. j # i /\ j \notin swept \cup pruned
    BY <1>4, <2>1 DEF Unlink, Touch
  <2> QED BY <1>4, <2>2 DEF Unlink
<1> QED BY <1>1, <1>2, <1>3, <1>4 DEF JanitorStep

\* An ingest stays undisturbed as long as nobody marks it.
LEMMA UndisturbedNext ==
  ASSUME FilesTypeOK, \A i \in Ingests : Holding(i), JanitorKeepsTo,
         \A i \in Ingests : Undisturbed(i), [Next]_vars
  PROVE  \A i \in Ingests : Undisturbed(i)'
<1> SUFFICES ASSUME NEW j \in Ingests PROVE Undisturbed(j)'
  OBVIOUS
<1>0. Materialized => Materialized'
  BY MaterializedStays
<1>1. root' = root /\ Source(j)' = Source(j)
  BY RootStays DEF Source
<1>2. ASSUME NEW i \in Ingests, IngestStep(i) \/ Kill(i) PROVE Undisturbed(j)'
  <2>1. CASE j # i
    BY <1>0, <1>1, <1>2, <2>1, OthersUntouched, ActorsUntouched DEF Undisturbed, Whole
  <2> QED BY <1>2, <2>1, UndisturbedIngest
<1>3. CASE JanitorStep
  <2> SUFFICES ASSUME j \notin swept' \cup pruned' PROVE Undisturbed(j)'
    BY DEF Undisturbed
  <2>1. UNCHANGED <<pc, todo, entries, rotted>>
    BY <1>3, JanitorRemoves
  <2> QED BY <1>0, <1>1, <1>3, <2>1, JanitorMarks DEF Undisturbed, Whole
<1>4. CASE OtherStep
  <2>1. ASSUME NEW i \in Ingests, Corrupt(i) PROVE Undisturbed(j)'
    <3>1. /\ UNCHANGED <<pc, source, todo, entries, at, manifest, swept, pruned>>
          /\ rotted' = rotted \cup {i}
      BY <2>1 DEF Corrupt
    <3>2. CASE j = i
      <4>1. pc[j] = "done" /\ at[j] = "final"
        BY <2>1, <3>2, CorruptIsInside
      <4> QED BY <1>1, <3>1, <3>2, <4>1 DEF Undisturbed
    <3>3. CASE j # i
      <4>1. \A k \in Files : data'[j][k] = data[j][k]
        BY <2>1, <3>3, CorruptIsInside
      <4>2. entries[j] \subseteq Files /\ Source(j) \subseteq Files
        BY SourceType DEF FilesTypeOK, CallTypeOK
      <4> QED BY <1>0, <1>1, <3>1, <3>3, <4>1, <4>2 DEF Undisturbed, Whole
    <3> QED BY <3>2, <3>3
  <2>2. CASE UNCHANGED <<callVars, dirVars, swept, pruned, rotted>>
    BY <1>0, <1>1, <2>2 DEF Undisturbed, Whole
  <2> QED BY <1>4, <2>1, <2>2 DEF OtherStep, ReadManifest, CheckFile, ReadState, Refresh,
                                  Pin, ReaderFrame
<1>5. CASE UNCHANGED vars
  BY <1>0, <1>1, <1>5 DEF Undisturbed, Whole, vars
<1> QED BY <1>2, <1>3, <1>4, <1>5, Steps

-----------------------------------------------------------------------------
(* Loads.                                                                   *)

\* A load stays on track.
LEMMA LoadNext ==
  ASSUME FilesTypeOK, \A i \in Ingests : Holding(i), LoadIsOnTrack, [Next]_vars
  PROVE  LoadIsOnTrack'
<1>0. reader.of # NONE => reader.of \in Ingests
  BY DEF FilesTypeOK, ActorTypeOK
<1>1. 1 \in Files
  BY FileAssumption DEF Files
<1>2. ASSUME NEW i \in Ingests, IngestStep(i) \/ Kill(i) PROVE LoadIsOnTrack'
  <2>1. reader' = reader
    BY <1>2, ActorsUntouched
  <2>2. reader.of # NONE => pc[reader.of] = "done"
    BY DEF LoadIsOnTrack
  <2>3. pc[i] # "done"
    BY <1>2 DEF IngestStep, Begin, Stage, CopyFile, HashFile, WriteManifest, Commit, Kill
  <2>4. reader.of # NONE => pc'[reader.of] = "done" /\ data'[reader.of] = data[reader.of]
    BY <1>0, <1>2, <2>2, <2>3, OthersUntouched
  <2> QED BY <2>1, <2>4 DEF LoadIsOnTrack, LoadIsGenuine
<1>3. CASE JanitorStep
  <2>1. reader' = reader /\ pc' = pc
    BY <1>0, <1>3, JanitorRemoves DEF JanitorStep, SweepList, PruneList, JanitorDone,
       OpenDir, RemoveDir, Unlink, JanitorFrame
  <2>2. reader.of # NONE => data'[reader.of][1] \in {data[reader.of][1], "none"}
    BY <1>0, <1>1, <1>3, JanitorRemoves
  <2> QED BY <2>1, <2>2 DEF LoadIsOnTrack, LoadIsGenuine
<1>4. ASSUME NEW i \in Ingests, Corrupt(i) PROVE LoadIsOnTrack'
  <2>1. reader'.late = (reader.late \/ reader.of = i) /\ reader'.of = reader.of
        /\ reader'.left = reader.left /\ reader'.value = reader.value /\ pc' = pc
    BY <1>4 DEF Corrupt, FilesTypeOK, ActorTypeOK
  <2>2. reader.of \notin {NONE, i} => data'[reader.of][1] = data[reader.of][1]
    BY <1>0, <1>1, <1>4, CorruptIsInside
  <2> QED BY <2>1, <2>2 DEF LoadIsOnTrack, LoadIsGenuine
<1>5. ASSUME NEW i \in Ingests, ReadManifest(i) PROVE LoadIsOnTrack'
  <2>1. pc[i] = "done" /\ manifest[i] # NONE
    BY <1>5 DEF ReadManifest, Visible, Holding
  <2>2. data[i][1] = "none" \/ 1 \in manifest[i]
    BY <1>1, <2>1 DEF Holding
  <2>3. reader'.of = i /\ reader'.left = manifest[i] /\ reader'.value = "none"
    BY <1>5 DEF ReadManifest, NoRead
  <2> QED BY <1>5, <2>1, <2>2, <2>3 DEF LoadIsOnTrack, LoadIsGenuine, ReadManifest,
                                        ReaderFrame
<1>6. CASE CheckFile
  <2>1. CASE reader' = NoRead
    BY <2>1 DEF LoadIsOnTrack, LoadIsGenuine, NoRead
  <2>2. CASE Intact(reader.of, Min(reader.left))
    <3>1. reader' = [reader EXCEPT !.left = @ \ {Min(@)}]
      BY <1>6, <2>2 DEF CheckFile
    <3>2. /\ reader'.of = reader.of /\ reader'.late = reader.late
          /\ reader'.value = reader.value
          /\ reader'.left = reader.left \ {Min(reader.left)}
      BY <3>1 DEF FilesTypeOK, ActorTypeOK
    <3>3. pc' = pc /\ data' = data
      BY <1>6 DEF CheckFile, ReaderFrame
    <3>4. Min(reader.left) = 1 => data[reader.of][1] = "good"
      BY <2>2 DEF Intact
    <3> QED BY <3>2, <3>3, <3>4 DEF LoadIsOnTrack, LoadIsGenuine
  <2> QED BY <1>6, <2>1, <2>2 DEF CheckFile
<1>7. CASE ReadState
  <2>1. CASE reader' = NoRead
    BY <2>1 DEF LoadIsOnTrack, LoadIsGenuine, NoRead
  <2>2. CASE reader' = [reader EXCEPT !.value = data[reader.of][1]]
    <3>1. /\ reader'.of = reader.of /\ reader'.late = reader.late
          /\ reader'.value = data[reader.of][1] /\ reader'.left = reader.left
      BY <2>2 DEF FilesTypeOK, ActorTypeOK
    <3>2. pc' = pc /\ data' = data /\ reader.left = {} /\ reader.of # NONE
      BY <1>7 DEF ReadState, ReaderFrame
    <3> QED BY <3>1, <3>2 DEF LoadIsOnTrack, LoadIsGenuine
  <2> QED BY <1>7, <2>1, <2>2 DEF ReadState
<1>8. CASE UNCHANGED <<reader, pc, data>>
  BY <1>8 DEF LoadIsOnTrack, LoadIsGenuine
<1>9. OtherStep => \/ \E i \in Ingests : ReadManifest(i) \/ Corrupt(i)
                   \/ CheckFile \/ ReadState \/ UNCHANGED <<reader, pc, data>>
  BY DEF OtherStep, Refresh, Pin
<1> QED BY <1>2, <1>3, <1>4, <1>5, <1>6, <1>7, <1>8, <1>9, Steps DEF vars

-----------------------------------------------------------------------------
(* Retention.                                                               *)

\* A position in born is the created_at of the ingest found there.
LEMMA CreatedAtIs ==
  ASSUME BornOnce, NEW p \in DOMAIN born
  PROVE  CreatedAt(born[p]) = p
<1>1. \A q \in DOMAIN born : born[q] = born[p] => q = p
  BY DEF BornOnce
<1> QED BY <1>1 DEF CreatedAt

\* What WriteManifest does to the order of creation; no other step changes it.
LEMMA BornSteps ==
  ASSUME FilesTypeOK, BornOnce, [Next]_vars
  PROVE  \/ born' = born
         \/ \E i \in Ingests : /\ born' = Append(born, i) /\ pc[i] = "copy"
                               /\ pc' = [pc EXCEPT ![i] = "commit"] /\ ~IsBorn(i)
<1>1. ASSUME NEW i \in Ingests, IngestStep(i) \/ Kill(i), born' # born
      PROVE  /\ born' = Append(born, i) /\ pc[i] = "copy"
             /\ pc' = [pc EXCEPT ![i] = "commit"] /\ ~IsBorn(i)
  <2>1. WriteManifest(i)
    BY <1>1 DEF IngestStep, Begin, Stage, CopyFile, HashFile, Commit, Kill
  <2> QED BY <1>1, <2>1 DEF WriteManifest, BornOnce
<1>2. OtherStep \/ JanitorStep => born' = born
  BY DEF OtherStep, ReadManifest, Corrupt, CheckFile, ReadState, Refresh, Pin, ReaderFrame,
         JanitorStep, SweepList, PruneList, JanitorDone, OpenDir, RemoveDir, Unlink,
         JanitorFrame
<1> QED BY <1>1, <1>2, Steps DEF vars

\* What a step may do to the program counter of an ingest, as far as the order
\* of creation is concerned.
LEMMA PcSteps ==
  ASSUME FilesTypeOK, [Next]_vars, NEW j \in Ingests
  PROVE  /\ pc'[j] \in Before => pc[j] \in Before
         /\ pc[j] = "done" => pc'[j] = "done"
         /\ pc'[j] = "commit" /\ born' = born => pc[j] = "commit"
         /\ pc'[j] = "done" /\ root # "prompts" => pc[j] \in {"commit", "done"}
<1>1. ASSUME NEW i \in Ingests, IngestStep(i) \/ Kill(i), j = i
      PROVE  /\ pc'[j] \in Before => pc[j] \in Before
             /\ pc[j] # "done"
             /\ pc'[j] = "commit" /\ born' = born => pc[j] = "commit"
             /\ pc'[j] = "done" /\ root # "prompts" => pc[j] \in {"commit", "done"}
  <2> USE <1>1 DEF FilesTypeOK, CallTypeOK
  <2>1. CASE Begin(i)
    BY <2>1 DEF Begin, Materialized
  <2>2. CASE Stage(i)
    BY <2>2 DEF Stage
  <2>3. CASE CopyFile(i)
    BY <2>3 DEF CopyFile
  <2>4. CASE HashFile(i)
    BY <2>4 DEF HashFile
  <2>5. CASE WriteManifest(i)
    <3>1. born' = born => pc'[i] = "raised"
      <4>1. Append(born, i) # born
        BY AppendProperties
      <4> QED BY <2>5, <4>1 DEF WriteManifest
    <3> QED BY <2>5, <3>1 DEF WriteManifest
  <2>6. CASE Commit(i)
    BY <2>6 DEF Commit
  <2>7. CASE Kill(i)
    BY <2>7 DEF Kill
  <2> QED BY <2>1, <2>2, <2>3, <2>4, <2>5, <2>6, <2>7 DEF IngestStep
<1>2. ASSUME NEW i \in Ingests, IngestStep(i) \/ Kill(i), j # i PROVE pc'[j] = pc[j]
  BY <1>2, OthersUntouched
<1>3. OtherStep \/ JanitorStep => pc' = pc
  BY DEF OtherStep, ReadManifest, Corrupt, CheckFile, ReadState, Refresh, Pin, ReaderFrame,
         JanitorStep, SweepList, PruneList, JanitorDone, OpenDir, RemoveDir, Unlink,
         JanitorFrame
<1> QED BY <1>1, <1>2, <1>3, Steps DEF vars

\* The order of creation stays without repetitions, and keeps the positions.
LEMMA BornGrows ==
  ASSUME FilesTypeOK, BornOnce, [Next]_vars
  PROVE  /\ DOMAIN born \subseteq DOMAIN born'
         /\ \A p \in DOMAIN born : born'[p] = born[p]
         /\ \A p, q \in DOMAIN born' : born'[p] = born'[q] => p = q
<1>1. CASE born' = born
  BY <1>1 DEF BornOnce
<1>2. ASSUME NEW i \in Ingests, born' = Append(born, i), ~IsBorn(i)
      PROVE  /\ DOMAIN born \subseteq DOMAIN born'
             /\ \A p \in DOMAIN born : born'[p] = born[p]
             /\ \A p, q \in DOMAIN born' : born'[p] = born'[q] => p = q
  <2>1. born \in Seq(Ingests)
    BY DEF FilesTypeOK
  <2>2. /\ DOMAIN born = 1..Len(born) /\ DOMAIN born' = 1..(Len(born) + 1)
        /\ Len(born) \in Nat
        /\ \A p \in DOMAIN born : born'[p] = born[p]
        /\ born'[Len(born) + 1] = i
    BY <1>2, <2>1, AppendProperties
  <2>3. \A p \in DOMAIN born : born[p] # i
    BY <1>2 DEF IsBorn
  <2>4. \A p, q \in DOMAIN born : born[p] = born[q] => p = q
    BY DEF BornOnce
  <2> QED BY <2>2, <2>3, <2>4
<1> QED BY <1>1, <1>2, BornSteps

\* An ingest is born once.
LEMMA BornNext ==
  ASSUME FilesTypeOK, BornOnce, [Next]_vars
  PROVE  BornOnce'
<1>1. \A p, q \in DOMAIN born' : born'[p] = born'[q] => p = q
  BY BornGrows
<1>2. \A j \in Ingests : IsBorn(j) => IsBorn(j)'
  BY BornGrows DEF IsBorn
<1>3. ASSUME NEW j \in Ingests, pc'[j] \in Before PROVE ~IsBorn(j)'
  <2>1. ~IsBorn(j)
    BY <1>3, PcSteps DEF BornOnce
  <2>2. CASE born' = born
    BY <2>1, <2>2 DEF IsBorn
  <2>3. ASSUME NEW i \in Ingests, born' = Append(born, i), pc' = [pc EXCEPT ![i] = "commit"]
        PROVE  ~IsBorn(j)'
    <3>1. j # i
      BY <1>3, <2>3 DEF FilesTypeOK, CallTypeOK
    <3>2. born \in Seq(Ingests)
      BY DEF FilesTypeOK
    <3>3. /\ DOMAIN born = 1..Len(born) /\ DOMAIN born' = 1..(Len(born) + 1)
          /\ Len(born) \in Nat
          /\ \A p \in DOMAIN born : born'[p] = born[p]
          /\ born'[Len(born) + 1] = i
      BY <2>3, <3>2, AppendProperties
    <3> QED BY <2>1, <3>1, <3>3 DEF IsBorn
  <2> QED BY <2>2, <2>3, BornSteps
<1>4. ASSUME NEW j \in Ingests, pc'[j] = "commit" PROVE IsBorn(j)'
  <2>1. CASE born' = born
    BY <1>2, <1>4, <2>1, PcSteps DEF BornOnce
  <2>2. ASSUME NEW i \in Ingests, born' = Append(born, i), pc' = [pc EXCEPT ![i] = "commit"]
        PROVE  IsBorn(j)'
    <3>1. CASE j = i
      <4>1. born \in Seq(Ingests)
        BY DEF FilesTypeOK
      <4>2. Len(born) + 1 \in DOMAIN born' /\ born'[Len(born) + 1] = i
        BY <2>2, <4>1, AppendProperties
      <4> QED BY <3>1, <4>2 DEF IsBorn
    <3>2. CASE j # i
      BY <1>2, <1>4, <2>2, <3>2 DEF BornOnce, FilesTypeOK, CallTypeOK
    <3> QED BY <3>1, <3>2
  <2> QED BY <2>1, <2>2, BornSteps
<1>5. ASSUME NEW j \in Ingests, pc'[j] = "done", root' # "prompts" PROVE IsBorn(j)'
  BY <1>2, <1>5, PcSteps, RootStays DEF BornOnce
<1> QED BY <1>1, <1>3, <1>4, <1>5 DEF BornOnce

\* Newer is a strict order on the ingests that were born.
LEMMA NewerIsAnOrder ==
  ASSUME FilesTypeOK, BornOnce, NEW i, NEW j, NEW l, IsBorn(i), IsBorn(j), IsBorn(l)
  PROVE  /\ ~Newer(i, i)
         /\ Newer(i, j) /\ Newer(j, l) => Newer(i, l)
<1>1. DOMAIN born \subseteq Nat
  BY DEF FilesTypeOK
<1>2. CreatedAt(i) \in DOMAIN born /\ CreatedAt(j) \in DOMAIN born /\ CreatedAt(l) \in DOMAIN born
  BY CreatedAtIs DEF IsBorn
<1>3. CreatedAt(i) \in Nat /\ CreatedAt(j) \in Nat /\ CreatedAt(l) \in Nat
  BY <1>1, <1>2
<1> QED BY <1>3 DEF Newer

\* No step changes which of two ingests is newer.
LEMMA NewerStays ==
  ASSUME FilesTypeOK, BornOnce, [Next]_vars, NEW i, NEW j, IsBorn(i), IsBorn(j)
  PROVE  Newer(i, j)' = Newer(i, j)
<1>1. ASSUME NEW l, IsBorn(l) PROVE CreatedAt(l)' = CreatedAt(l)
  <2>1. PICK p \in DOMAIN born : born[p] = l
    BY <1>1 DEF IsBorn
  <2>2. CreatedAt(l) = p
    BY <2>1, CreatedAtIs
  <2>3. p \in DOMAIN born' /\ born'[p] = l
    BY <2>1, BornGrows
  <2>4. \A q \in DOMAIN born' : born'[q] = l => q = p
    BY <2>3, BornGrows
  <2>5. CreatedAt(l)' = p
    BY <2>3, <2>4 DEF CreatedAt
  <2> QED BY <2>2, <2>5
<1> QED BY <1>1 DEF Newer

\* A set of ingests is finite, and a larger one has no fewer elements.
LEMMA IngestsCount ==
  ASSUME NEW S \in SUBSET Ingests, NEW T \in SUBSET S
  PROVE  /\ Cardinality(S) \in Nat /\ Cardinality(T) \in Nat
         /\ Cardinality(T) <= Cardinality(S)
<1>1. IsFiniteSet(S)
  BY FS_Subset, FileAssumption
<1>2. IsFiniteSet(T)
  BY <1>1, FS_Subset
<1> QED BY <1>1, <1>2, FS_Subset, FS_CardinalityType

\* Who has more newer ones than a retained checkpoint may go as well.
LEMMA KeepersOfNewer ==
  ASSUME FilesTypeOK, BornOnce, root # "prompts",
         NEW i \in Ingests, NEW l \in Ingests, pc[i] = "done", pc[l] = "done", Newer(l, i)
  PROVE  Keepers(l) \subseteq Keepers(i) \ {l}
<1>1. IsBorn(i) /\ IsBorn(l) /\ \A k \in Keepers(l) : IsBorn(k)
  BY DEF BornOnce, Keepers
<1> QED BY <1>1, NewerIsAnOrder DEF Keepers

\* Retention never condemns one that has not enough newer ones, also while it
\* is at work and new checkpoints arrive.
LEMMA RetainedNext ==
  ASSUME FilesTypeOK, \A i \in Ingests : Holding(i), JanitorKeepsTo, BornOnce, Retained,
         [Next]_vars
  PROVE  Retained'
<1>1. CASE root # "checkpoints"
  <2>1. JanitorKeepsTo' /\ root' = root
    BY JanitorNext, RootStays
  <2> QED BY <1>1, <2>1 DEF JanitorKeepsTo, Retained, Condemned
<1>2. CASE root = "checkpoints"
  <2>1. \A i \in Ingests : pc[i] = "done" => IsBorn(i)
    BY <1>2 DEF BornOnce
  <2>2. Condemned \subseteq Ingests
    BY DEF Condemned, FilesTypeOK, ActorTypeOK
  <2>3. ASSUME pruned' = pruned, Condemned' \subseteq Condemned PROVE Retained'
    <3> SUFFICES ASSUME NEW i \in Condemned'
                 PROVE  /\ pc'[i] = "done" /\ i \notin Protected
                        /\ Cardinality(Keepers(i)') >= KeepLast
      BY DEF Retained
    <3>1. /\ i \in Ingests /\ pc[i] = "done" /\ i \notin Protected
          /\ Cardinality(Keepers(i)) >= KeepLast
      BY <2>2, <2>3 DEF Retained
    <3>2. Keepers(i) \subseteq Keepers(i)'
      BY <2>1, <2>3, <3>1, PcSteps, NewerStays DEF Keepers
    <3>3. Cardinality(Keepers(i)) <= Cardinality(Keepers(i)')
          /\ Cardinality(Keepers(i)) \in Nat /\ Cardinality(Keepers(i)') \in Nat
      <4>1. Keepers(i)' \in SUBSET Ingests
        BY DEF Keepers
      <4> QED BY <3>2, <4>1, IngestsCount
    <3> QED BY <3>1, <3>3, PcSteps, FileAssumption
  <2>4. ASSUME PruneList PROVE Retained'
    <3>1. /\ pc' = pc /\ born' = born /\ pruned' = pruned
          /\ Condemned' \subseteq pruned \cup Expendable
      BY <2>4, FileAssumption DEF PruneList, JanitorFrame, Idle, Condemned
    <3>2. \A i \in pruned : /\ pc[i] = "done" /\ i \notin Protected
                            /\ Cardinality(Keepers(i)) >= KeepLast
      BY DEF Retained, Condemned
    <3>3. \A i : Keepers(i)' = Keepers(i)
      BY <3>1 DEF Keepers, Newer, CreatedAt
    <3>4. ASSUME NEW i \in Expendable
          PROVE  /\ pc[i] = "done" /\ i \notin Protected
                 /\ Cardinality(Keepers(i)) >= KeepLast
      <4> DEFINE Above == {l \in Listed : Newer(l, i)}
      <4>1. /\ i \in Ingests /\ pc[i] = "done" /\ i \notin Protected
            /\ Cardinality(Above) >= KeepLast
        BY DEF Expendable, Listed, Visible, Holding
      <4>2. \A l \in Listed : l \in Ingests /\ pc[l] = "done"
        BY DEF Listed, Visible, Holding
      <4>3. Keepers(i) \in SUBSET Ingests
        BY DEF Keepers
      <4>4. CASE Above \cap pruned = {}
        <5>1. Above \subseteq Keepers(i)
          BY <4>2, <4>4 DEF Keepers
        <5>2. Cardinality(Above) <= Cardinality(Keepers(i))
              /\ Cardinality(Above) \in Nat /\ Cardinality(Keepers(i)) \in Nat
          BY <4>3, <5>1, IngestsCount
        <5> QED BY <4>1, <5>2, FileAssumption
      <4>5. CASE Above \cap pruned # {}
        <5>1. PICK l \in Above : l \in pruned
          BY <4>5
        <5>2. Keepers(l) \subseteq Keepers(i)
          BY <1>2, <4>1, <4>2, <5>1, KeepersOfNewer
        <5>3. Cardinality(Keepers(l)) <= Cardinality(Keepers(i))
              /\ Cardinality(Keepers(l)) \in Nat /\ Cardinality(Keepers(i)) \in Nat
          BY <4>3, <5>2, IngestsCount
        <5> QED BY <3>2, <4>1, <5>1, <5>3, FileAssumption
      <4> QED BY <4>1, <4>4, <4>5
    <3> QED BY <3>1, <3>2, <3>3, <3>4 DEF Retained
  <2>5. ASSUME NEW v \in Condemned, pruned' = pruned \cup {v}, Condemned' \subseteq Condemned,
               pc' = pc, born' = born
        PROVE  Retained'
    <3> SUFFICES ASSUME NEW i \in Condemned
                 PROVE  Cardinality(Keepers(i)') >= KeepLast
      BY <2>5 DEF Retained
    <3>1. /\ i \in Ingests /\ pc[i] = "done" /\ Cardinality(Keepers(i)) >= KeepLast
          /\ v \in Ingests /\ pc[v] = "done" /\ Cardinality(Keepers(v)) >= KeepLast
      BY <2>2, <2>5 DEF Retained
    <3>2. Keepers(i)' = Keepers(i) \ {v}
      BY <2>5 DEF Keepers, Newer, CreatedAt
    <3>3. CASE v \notin Keepers(i)
      <4>1. Keepers(i) \ {v} = Keepers(i)
        BY <3>3
      <4> QED BY <3>1, <3>2, <4>1
    <3>4. CASE v \in Keepers(i)
      <4>1. Keepers(v) \subseteq Keepers(i)'
        <5>1. Newer(v, i)
          BY <3>4 DEF Keepers
        <5> QED BY <1>2, <3>1, <3>2, <5>1, KeepersOfNewer
      <4>2. Keepers(i)' \in SUBSET Ingests
        BY DEF Keepers
      <4>3. Cardinality(Keepers(v)) <= Cardinality(Keepers(i)')
            /\ Cardinality(Keepers(v)) \in Nat /\ Cardinality(Keepers(i)') \in Nat
        BY <4>1, <4>2, IngestsCount
      <4> QED BY <3>1, <4>3, FileAssumption
    <3> QED BY <3>3, <3>4
  <2>6. ASSUME NEW i \in Ingests, i = janitor.target, Touch(i), UNCHANGED <<pc, born>>,
               janitor'.op = janitor.op, janitor'.victims = janitor.victims,
               janitor'.target \in {janitor.target, NONE}
        PROVE  Retained'
    <3>1. janitor.op \in {"sweep", "prune"}
      BY <2>6, FileAssumption DEF JanitorKeepsTo, FilesTypeOK, ActorTypeOK
    <3>2. CASE janitor.op = "sweep"
      BY <2>3, <2>6, <3>2 DEF Touch, Condemned
    <3>3. CASE janitor.op = "prune"
      <4>1. i \in Condemned /\ pruned' = pruned \cup {i}
        BY <2>6, <3>3, FileAssumption DEF Condemned, Touch
      <4>2. Condemned' \subseteq Condemned
        BY <2>6, <3>3, <4>1 DEF Condemned
      <4> QED BY <2>5, <2>6, <4>1, <4>2
    <3> QED BY <3>1, <3>2, <3>3
  <2>7. CASE SweepList \/ JanitorDone
    <3>1. janitor'.op # "prune" /\ pruned' = pruned
      <4>1. ASSUME SweepList PROVE janitor'.op = "sweep" /\ pruned' = pruned
        BY <4>1 DEF SweepList, Idle
      <4>2. ASSUME JanitorDone PROVE janitor'.op = "idle" /\ pruned' = pruned
        BY <4>2 DEF JanitorDone, Idle
      <4> QED BY <2>7, <4>1, <4>2
    <3> QED BY <2>3, <3>1 DEF Condemned
  <2>8. ASSUME NEW i \in Ingests, OpenDir(i) PROVE Retained'
    <3>1. /\ janitor'.op = janitor.op /\ janitor'.victims = janitor.victims \ {i}
          /\ janitor'.target \in {i, NONE} /\ i \in janitor.victims /\ pruned' = pruned
      BY <2>8 DEF OpenDir, FilesTypeOK, ActorTypeOK
    <3>2. Condemned' \subseteq Condemned
      BY <3>1 DEF Condemned
    <3> QED BY <2>3, <3>1, <3>2
  <2>9. ASSUME NEW i \in Ingests, RemoveDir(i) PROVE Retained'
    <3>1. /\ janitor'.op = janitor.op /\ janitor'.victims = janitor.victims
          /\ janitor'.target = NONE
      BY <2>9 DEF RemoveDir, FilesTypeOK, ActorTypeOK
    <3> QED BY <2>6, <2>9, <3>1 DEF RemoveDir, JanitorFrame
  <2>10. ASSUME NEW i \in Ingests, NEW e, Unlink(i, e) PROVE Retained'
    <3>1. /\ janitor'.op = janitor.op /\ janitor'.victims = janitor.victims
          /\ janitor'.target = janitor.target
      BY <2>10 DEF Unlink, FilesTypeOK, ActorTypeOK
    <3> QED BY <2>6, <2>10, <3>1 DEF Unlink, JanitorFrame
  <2>11. CASE UNCHANGED <<janitor, pruned>>
    BY <2>3, <2>11 DEF Condemned
  <2>12. OtherStep => UNCHANGED <<janitor, pruned>>
    BY DEF OtherStep, ReadManifest, Corrupt, CheckFile, ReadState, Refresh, Pin, ReaderFrame
  <2>13. JanitorStep => Retained'
    BY <2>4, <2>7, <2>8, <2>9, <2>10 DEF JanitorStep
  <2> QED BY <2>11, <2>12, <2>13, Steps, ActorsUntouched DEF vars
<1> QED BY <1>1, <1>2

-----------------------------------------------------------------------------
(* Policies.                                                                *)

\* latest() counts the versions.
LEMMA LatestCounts ==
  ASSUME FilesTypeOK, Numbered, root = "policies"
  PROVE  /\ Latest = Cardinality(Listed)
         /\ Cardinality(Listed) \in Nat
<1>1. Listed \in SUBSET Ingests /\ Cardinality(Listed) \in Nat
  BY IngestsCount DEF Listed
<1>2. CASE Listed = {}
  BY <1>2, FS_EmptySet DEF Latest
<1>3. CASE Listed # {}
  <2>1. PICK i \in Listed : Latest = name[i] /\ \A j \in Listed : name[j] <= name[i]
    BY <1>3, LatestIsHighest DEF FilesTypeOK, CallTypeOK
  <2>2. name[i] \in 1..Cardinality(Listed)
    BY DEF Numbered
  <2>3. PICK j \in Listed : name[j] = Cardinality(Listed)
    BY <1>1, <2>2 DEF Numbered
  <2>4. name[j] <= name[i]
    BY <2>1
  <2> QED BY <1>1, <2>1, <2>2, <2>3, <2>4
<1> QED BY <1>1, <1>2, <1>3

\* In a registry of policies an ingest changes what is visible in one way only:
\* it commits its directory, whose number is the next.
LEMMA PolicySteps ==
  ASSUME FilesTypeOK, \A j \in Ingests : Holding(j), JanitorKeepsTo,
         \A j \in Ingests : Undisturbed(j), Numbered, root = "policies", [Next]_vars
  PROVE  \/ Listed' = Listed
         \/ \E i \in Ingests : /\ i \notin Listed /\ Listed' = Listed \cup {i}
                               /\ name' = name /\ client' = client
                               /\ pc'[i] = "done"
                               /\ name[i] = Cardinality(Listed) + 1
<1>0. root' = root /\ Cardinality(Listed) \in Nat
  BY RootStays, LatestCounts
<1>1. ASSUME NEW i \in Ingests, IngestStep(i) \/ Kill(i), Listed' # Listed
      PROVE  /\ i \notin Listed /\ Listed' = Listed \cup {i}
             /\ name' = name /\ client' = client /\ pc'[i] = "done"
             /\ name[i] = Cardinality(Listed) + 1
  <2>1. \A j \in Ingests \ {i} : Visible(j)' = Visible(j)
    BY <1>1, OthersUntouched DEF Visible
  <2>2. Visible(i)' # Visible(i)
    <3> SUFFICES ASSUME Visible(i)' = Visible(i) PROVE FALSE
      OBVIOUS
    <3>1. \A j \in Ingests : Visible(j)' = Visible(j)
      BY <2>1
    <3> QED BY <1>1, <3>1 DEF Listed
  <2>3. Commit(i) /\ ~Taken(i) /\ at[i] # "none"
    <3>1. pc[i] # "done" /\ at[i] # "final"
      BY <1>1 DEF IngestStep, Begin, Stage, CopyFile, HashFile, WriteManifest, Commit, Kill,
                  Holding
    <3>2. at'[i] = "final"
      BY <2>2, <3>1 DEF Visible
    <3> QED BY <1>1, <3>1, <3>2 DEF IngestStep, Begin, Stage, CopyFile, HashFile,
               WriteManifest, Commit, Kill, FilesTypeOK, DirTypeOK
  <2>4. pc[i] = "commit" /\ manifest[i] = Source(i) /\ manifest[i] # NONE
    <3>1. i \notin swept \cup pruned
      BY DEF JanitorKeepsTo
    <3>2. Source(i) \in SUBSET (1..NFiles)
      BY SourceType DEF Files
    <3> QED BY <2>3, <3>1, <3>2, FileAssumption DEF Commit, Undisturbed, Whole
  <2>5. /\ pc'[i] = "done" /\ at'[i] = "final" /\ name' = name /\ manifest' = manifest
        /\ client' = client
    BY <2>3 DEF Commit, IngestFrame, FilesTypeOK, CallTypeOK, DirTypeOK
  <2>6. Visible(i)' /\ ~Visible(i)
    BY <2>2, <2>4, <2>5 DEF Visible
  <2>7. i \notin Listed /\ Listed' = Listed \cup {i}
    BY <2>1, <2>6 DEF Listed
  <2>8. name[i] \in 1..(Cardinality(Listed) + 1)
    BY <2>4 DEF Numbered
  <2>9. \A j \in Listed : name[j] # name[i]
    BY <2>3, <2>7 DEF Taken, Listed, Visible
  <2>10. name[i] \notin 1..Cardinality(Listed)
    BY <2>9 DEF Numbered
  <2> QED BY <1>0, <2>5, <2>7, <2>8, <2>10
<1>2. CASE JanitorStep
  <2>1. janitor.op = "idle" /\ janitor.target = NONE /\ janitor.victims = {}
    BY DEF JanitorKeepsTo
  <2> QED BY <1>2, <2>1, FileAssumption DEF JanitorStep, SweepList, PruneList, JanitorDone,
             OpenDir, RemoveDir, Unlink
<1>3. OtherStep => Listed' = Listed
  <2>1. OtherStep => UNCHANGED <<at, manifest>>
    BY DEF OtherStep, ReadManifest, Corrupt, CheckFile, ReadState, Refresh, Pin, ReaderFrame
  <2> QED BY <2>1 DEF Listed, Visible
<1>4. UNCHANGED vars => Listed' = Listed
  BY DEF vars, Listed, Visible
<1> QED BY <1>1, <1>2, <1>3, <1>4, Steps

\* The number an ingest has taken changes when it begins, and then is the next.
LEMMA NameSteps ==
  ASSUME FilesTypeOK, Numbered, root = "policies", [Next]_vars, NEW j \in Ingests
  PROVE  \/ name'[j] = name[j] /\ (pc'[j] \in {"stage", "copy", "hash", "commit"} =>
                                     pc[j] \in {"stage", "copy", "hash", "commit"})
         \/ /\ pc[j] = "begin" /\ name'[j] = Cardinality(Listed) + 1
<1>1. ASSUME NEW i \in Ingests, IngestStep(i) \/ Kill(i), i = j
      PROVE  \/ name'[j] = name[j] /\ pc[j] \in {"stage", "copy", "hash", "commit"}
             \/ /\ pc[j] = "begin" /\ name'[j] = Cardinality(Listed) + 1
  <2>1. CASE Begin(i)
    <3>1. ~Materialized /\ NextName = Cardinality(Listed) + 1
      BY LatestCounts DEF Materialized, NextName
    <3> QED BY <1>1, <2>1, <3>1 DEF Begin, FilesTypeOK, CallTypeOK
  <2> QED BY <1>1, <2>1 DEF IngestStep, Stage, CopyFile, HashFile, WriteManifest, Commit, Kill
<1>2. ASSUME NEW i \in Ingests, IngestStep(i) \/ Kill(i), i # j
      PROVE  name'[j] = name[j] /\ pc'[j] = pc[j]
  BY <1>2, OthersUntouched
<1>3. OtherStep \/ JanitorStep => UNCHANGED <<name, pc>>
  BY DEF OtherStep, ReadManifest, Corrupt, CheckFile, ReadState, Refresh, Pin, ReaderFrame,
         JanitorStep, SweepList, PruneList, JanitorDone, OpenDir, RemoveDir, Unlink,
         JanitorFrame
<1> QED BY <1>1, <1>2, <1>3, Steps DEF vars

\* The versions stay numbered.
LEMMA NumberedNext ==
  ASSUME FilesTypeOK, \A j \in Ingests : Holding(j), JanitorKeepsTo,
         \A j \in Ingests : Undisturbed(j), Numbered, [Next]_vars
  PROVE  Numbered'
<1>0. root' = root
  BY RootStays
<1> SUFFICES ASSUME root = "policies" PROVE Numbered'
  BY <1>0 DEF Numbered
<1> DEFINE n == Cardinality(Listed)
<1>1. n \in Nat
  BY LatestCounts
<1>2. \A j \in Listed : j \in Ingests /\ pc[j] = "done"
  BY DEF Listed, Visible, Holding
<1>3. \A j \in Listed : name'[j] = name[j]
  BY <1>2, NameSteps
<1>4. CASE Listed' = Listed
  <2>1. /\ \A i \in Listed : name'[i] \in 1..n
        /\ \A v \in 1..n : \E i \in Listed : name'[i] = v
        /\ \A i, j \in Listed : name'[i] = name'[j] => i = j
    BY <1>3 DEF Numbered
  <2>2. ASSUME NEW i \in Ingests, pc'[i] \in {"stage", "copy", "hash", "commit"}
        PROVE  name'[i] \in 1..(n + 1)
    BY <1>1, <2>2, NameSteps DEF Numbered
  <2> QED BY <1>4, <2>1, <2>2 DEF Numbered
<1>5. ASSUME NEW i \in Ingests, i \notin Listed, Listed' = Listed \cup {i}, name' = name,
             pc'[i] = "done", name[i] = n + 1
      PROVE  Numbered'
  <2>1. Cardinality(Listed') = n + 1
    <3>1. IsFiniteSet(Listed)
      BY FS_Subset, FileAssumption DEF Listed
    <3> QED BY <1>5, <3>1, FS_AddElement
  <2>2. \A j \in Listed' : name'[j] \in 1..(n + 1)
    BY <1>1, <1>5 DEF Numbered
  <2>3. \A v \in 1..(n + 1) : \E j \in Listed' : name'[j] = v
    BY <1>1, <1>5 DEF Numbered
  <2>4. \A j, l \in Listed' : name'[j] = name'[l] => j = l
    <3>1. \A j \in Listed : name[j] # n + 1
      BY <1>1 DEF Numbered
    <3>2. \A j, l \in Listed : name[j] = name[l] => j = l
      BY DEF Numbered
    <3> QED BY <1>5, <3>1, <3>2
  <2>5. ASSUME NEW j \in Ingests, pc'[j] \in {"stage", "copy", "hash", "commit"}
        PROVE  name'[j] \in 1..(n + 2)
    BY <1>1, <2>5, NameSteps DEF Numbered
  <2>6. n + 1 + 1 = n + 2
    BY <1>1
  <2> QED BY <2>1, <2>2, <2>3, <2>4, <2>5, <2>6 DEF Numbered
<1> QED BY <1>4, <1>5, PolicySteps

-----------------------------------------------------------------------------
(* The theorems.                                                            *)

\* The registry starts empty.
LEMMA FilesInvInit == Init => FilesInv
<1> SUFFICES ASSUME Init PROVE FilesInv
  OBVIOUS
<1>1. FilesTypeOK
  BY TypeInit
<1>2. Listed = {} /\ Cardinality(Listed) = 0 /\ DOMAIN born = {}
  <2>1. Listed = {}
    BY DEF Init, Listed, Visible
  <2>2. DOMAIN born = {}
    BY DEF Init
  <2> QED BY <2>1, <2>2, FS_EmptySet
<1>3. \A i \in Ingests : Holding(i) /\ Undisturbed(i)
  <2>1. \A i \in Ingests : Holding(i)
    BY DEF Init, Holding, Copied
  <2>2. \A i \in Ingests : Undisturbed(i)
    BY DEF Init, Undisturbed
  <2> QED BY <2>1, <2>2
<1>4. JanitorKeepsTo /\ LoadIsOnTrack
  BY DEF Init, Idle, NoRead, JanitorKeepsTo, LoadIsOnTrack, LoadIsGenuine
<1>5. BornOnce
  BY <1>2 DEF Init, BornOnce, IsBorn
<1>6. Retained
  BY DEF Init, Idle, Retained, Condemned
<1>7. Numbered
  BY <1>2 DEF Init, Numbered
<1> QED BY <1>1, <1>3, <1>4, <1>5, <1>6, <1>7 DEF FilesInv

\* FilesInv is an invariant: it is preserved by every step of an ingest, the
\* janitor, a corruption, a reader and a client.
THEOREM FilesInvariant == Spec => []FilesInv
<1>1. FilesInv /\ [Next]_vars => FilesInv'
  BY TypeNext, HoldingNext, JanitorNext, UndisturbedNext, LoadNext, BornNext, RetainedNext,
     NumberedNext DEF FilesInv
<1> QED BY <1>1, FilesInvInit, PTL DEF Spec

\* There is no half-written checkpoint, policy or prompt set to be seen: what
\* is listed, and was not swept, pruned or corrupted, has all its files and
\* their manifest, whoever is killed, raises or races (_atomic.py).
THEOREM IngestIsAtomic == Spec => []VisibleIsWhole
<1>1. FilesInv => VisibleIsWhole
  <2> SUFFICES ASSUME FilesInv, NEW i \in Listed \ (swept \cup pruned \cup rotted)
               PROVE  Whole(i)
    BY DEF VisibleIsWhole
  <2>1. i \in Ingests /\ at[i] = "final" /\ pc[i] = "done"
    BY DEF Listed, Visible, FilesInv, Holding
  <2> QED BY <2>1 DEF FilesInv, Undisturbed
<1> QED BY <1>1, FilesInvariant, PTL

\* A call that returned has made its artifact visible, unless somebody removed
\* it: the rename of a loser, a kill or an exception never passes for success
\* (_atomic.py, policy.py, prompt_registry.py).
THEOREM IngestIsDurable == Spec => []ReturnedIsVisible
<1>1. FilesInv => ReturnedIsVisible
  <2> SUFFICES ASSUME FilesInv, NEW i \in Ingests \ (swept \cup pruned), pc[i] = "done"
               PROVE  Visible(i) \/ Materialized
    BY DEF ReturnedIsVisible
  <2>1. Source(i) \in SUBSET (1..NFiles)
    BY SourceType DEF Files
  <2> QED BY <2>1, FileAssumption DEF FilesInv, Undisturbed, Visible
<1> QED BY <1>1, FilesInvariant, PTL

\* A pruned checkpoint has KeepLast newer ones that no prune touched, and is
\* not protected, although prune() decides from a list that is out of date by
\* the time it removes, and saves commit out of the order of created_at.
THEOREM RetentionIsSafe == Spec => []RetentionKeepsNewest
<1>1. FilesInv => RetentionKeepsNewest
  BY DEF FilesInv, Retained, Condemned, RetentionKeepsNewest, Keepers
<1> QED BY <1>1, FilesInvariant, PTL

\* load_state() returns what was saved unless a corruption came after it began,
\* however many corruptions and prunes there are.
THEOREM LoadsAreGenuine == Spec => []LoadIsGenuine
<1>1. FilesInv => LoadIsGenuine
  BY DEF FilesInv, LoadIsOnTrack
<1> QED BY <1>1, FilesInvariant, PTL

\* The abstract log of the policies, for the refinement.
TheLog == IF root = "policies"
          THEN [v \in 1..Cardinality(Listed) |-> {i \in Listed : name[i] = v}]
          ELSE <<>>

\* A step of the registry is a step of the log, or none.
LEMMA LogStep ==
  ASSUME FilesInv, [Next]_vars
  PROVE  [Log!Next]_<<TheLog, client.version, client.pinned>>
<1>0. root' = root
  BY RootStays
<1> USE DEF FilesInv
<1>1. CASE root # "policies"
  <2>1. TheLog' = TheLog
    BY <1>0, <1>1 DEF TheLog
  <2>2. client' = client
    BY <1>1, Steps, ActorsUntouched DEF OtherStep, ReadManifest, Corrupt, CheckFile,
       ReadState, Refresh, Pin, ReaderFrame, JanitorStep, SweepList, PruneList, JanitorDone,
       OpenDir, RemoveDir, Unlink, JanitorFrame, vars
  <2> QED BY <2>1, <2>2
<1>2. CASE root = "policies"
  <2> DEFINE n == Cardinality(Listed)
  <2>0. n \in Nat /\ Latest = n
    BY <1>2, LatestCounts
  <2>1. TheLog = [v \in 1..n |-> {i \in Listed : name[i] = v}]
    BY <1>2 DEF TheLog
  <2>2. TheLog' = [v \in 1..Cardinality(Listed') |-> {i \in Listed' : name'[i] = v}]
    BY <1>0, <1>2 DEF TheLog
  <2>3. TheLog \in Seq(SUBSET Ingests) /\ Len(TheLog) = n /\ DOMAIN TheLog = 1..n
    <3>1. \A v \in 1..n : {i \in Listed : name[i] = v} \in SUBSET Ingests
      BY DEF Listed
    <3> QED BY <2>0, <2>1, <3>1
  <2>4. ASSUME Listed' = Listed PROVE TheLog' = TheLog
    <3>1. \A j \in Listed : name'[j] = name[j]
      BY <1>2, NameSteps DEF Listed, Visible, Holding
    <3>2. \A v : {i \in Listed' : name'[i] = v} = {i \in Listed : name[i] = v}
      BY <2>4, <3>1
    <3> QED BY <2>1, <2>2, <2>4, <3>2
  <2>5. ASSUME NEW i \in Ingests, i \notin Listed, Listed' = Listed \cup {i},
               name' = name, client' = client, name[i] = n + 1
        PROVE  Log!Publish(i)
    <3>1. Cardinality(Listed') = n + 1
      <4>1. IsFiniteSet(Listed)
        BY FS_Subset, FileAssumption DEF Listed
      <4> QED BY <2>5, <4>1, FS_AddElement
    <3>2. \A v \in 1..n : {j \in Listed' : name'[j] = v} = {j \in Listed : name[j] = v}
      BY <2>0, <2>5
    <3>3. {j \in Listed' : name'[j] = n + 1} = {i}
      <4>1. \A j \in Listed : name[j] # n + 1
        BY <1>2, <2>0 DEF Numbered
      <4> QED BY <2>5, <4>1
    <3>4. TheLog' = Append(TheLog, {i})
      BY <2>0, <2>1, <2>2, <2>3, <3>1, <3>2, <3>3
    <3>5. \A v \in DOMAIN TheLog : TheLog[v] # {i}
      BY <2>1, <2>3, <2>5
    <3> QED BY <2>5, <3>4, <3>5 DEF Log!Publish, TheLog
  <2>6. CASE Listed' # Listed
    BY <1>2, <2>5, <2>6, PolicySteps DEF Log!Next
  <2>7. CASE Listed' = Listed
    <3>1. TheLog' = TheLog
      BY <2>4, <2>7
    <3>2. CASE Refresh
      <4>1. /\ client'.version = IF client.pinned = 0 THEN Len(TheLog) ELSE client.pinned
            /\ client'.pinned = client.pinned
        BY <2>0, <2>3, <3>2 DEF Refresh, FilesTypeOK, ActorTypeOK
      <4>2. Log!Refresh
        BY <3>1, <4>1 DEF Log!Refresh, TheLog
      <4> QED BY <4>2 DEF Log!Next
    <3>3. ASSUME NEW v, Pin(v) PROVE Log!Next
      <4>1. v \in DOMAIN TheLog /\ client'.pinned = v /\ client'.version = client.version
        BY <2>0, <2>3, <3>3 DEF Pin, FilesTypeOK, ActorTypeOK
      <4>2. Log!Pin(v)
        BY <3>1, <4>1 DEF Log!Pin, TheLog
      <4> QED BY <4>1, <4>2 DEF Log!Next, TheLog
    <3>4. CASE client' = client
      BY <3>1, <3>4
    <3> QED BY <3>2, <3>3, <3>4, Steps, ActorsUntouched DEF OtherStep, ReadManifest,
            Corrupt, CheckFile, ReadState, ReaderFrame, JanitorStep, SweepList, PruneList,
            JanitorDone, OpenDir, RemoveDir, Unlink, JanitorFrame, vars
  <2> QED BY <2>6, <2>7
<1> QED BY <1>1, <1>2

\* publish(), refresh() and pin() implement an append-only log of versions: the
\* numbers have no gaps, each is of one publisher and never replaced, whoever
\* races for it or is killed on the way (policy.py).
THEOREM PoliciesAreALog == Spec => ImplementsPolicyLog
<1>1. Init => Log!Init
  <2> SUFFICES ASSUME Init PROVE Log!Init
    OBVIOUS
  <2>1. Listed = {} /\ Cardinality(Listed) = 0
    BY FS_EmptySet DEF Init, Listed, Visible
  <2>2. [v \in 1..Cardinality(Listed) |-> {i \in Listed : name[i] = v}] = <<>>
    BY <2>1
  <2> QED BY <2>2 DEF Init, Log!Init
<1>2. FilesInv /\ [Next]_vars => [Log!Next]_<<TheLog, client.version, client.pinned>>
  BY LogStep
<1> QED BY <1>1, <1>2, FilesInvariant, PTL DEF Spec, ImplementsPolicyLog, Log!Spec, TheLog

=============================================================================
