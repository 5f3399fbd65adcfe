----------------------------- MODULE FileRegistry -----------------------------
(***************************************************************************)
(* The file-system registries: checkpoints (checkpoints.py), policies      *)
(* (policy.py) and prompt sets (prompt_registry.py), which share the       *)
(* ingest of _atomic.py: stage, copy and hash file by file, write the      *)
(* manifest, rename. A behaviour is about one registry root.               *)
(*                                                                         *)
(* Every system call that another process can see is a step. Ingests are   *)
(* killed or lose a race at any of them, a janitor sweeps the staging area *)
(* and prunes old checkpoints entry by entry, a checkpoint is corrupted, a *)
(* reader verifies and loads, a rollout worker follows the newest policy.  *)
(* A directory is known by the ingest that made it, wherever it is:        *)
(* rmtree() unlinks through the open directory, also after a rename.       *)
(***************************************************************************)
EXTENDS Naturals, Sequences, FiniteSets

CONSTANTS
  NONE,
  Ingests,       \* calls of save(), publish() and materialize()
  StateIngests,  \* those through save_state(): their source is in the staging area
  NFiles,        \* files of a source directory
  KeepLast,      \* prune(keep_last_n)
  Protected,     \* prune(protect)
  Callers,       \* the registries to consider, and the ingests made in each
  KillBudget, RotBudget

ASSUME FileAssumption ==
  /\ StateIngests \subseteq Ingests /\ Protected \subseteq Ingests
  /\ NFiles \in Nat \ {0} /\ KeepLast \in Nat \ {0}
  /\ DOMAIN Callers \subseteq {"checkpoints", "policies", "prompts"}
  /\ KillBudget \in Nat /\ RotBudget \in Nat
  /\ NONE \notin Ingests /\ IsFiniteSet(Ingests)
  /\ \A S \in SUBSET (1..NFiles) : NONE # S

VARIABLES
  root,      \* which registry this is
  pc,        \* where each ingest is
  name,      \* the name under root: a policy version; checkpoint ids are unique
  source,    \* what the source directory holds
  todo,      \* files listed in the source and not yet copied
  entries,   \* files copied and hashed, for the manifest
  at,        \* where the directory of each ingest is
  data,      \* its data files
  manifest,  \* the file names, with their hashes, its manifest lists
  born,      \* ingests in the order of created_at
  janitor,   \* what the janitor process is removing
  reader,    \* a load_state() in progress
  client,    \* PolicyClient: the version in use and the pinned one
  kills, rots,
  swept, pruned, rotted   \* history: who touched an ingest from outside

callVars    == <<pc, name, source, todo, entries>>
dirVars     == <<at, data, manifest>>
janitorVars == <<janitor, swept, pruned>>
rotVars     == <<rots, rotted>>
vars == <<root, callVars, dirVars, born, janitorVars, reader, client, kills, rotVars>>

Files    == 1..NFiles
MANIFEST == 0              \* a directory holds data files and a manifest

Min(S) == CHOOSE k \in S : \A l \in S : k <= l

Source(i) == IF root = "prompts" \/ i \in StateIngests THEN {1} ELSE Files

Holds(i) == {k \in Files : data[i][k] # "none"}
              \cup (IF manifest[i] = NONE THEN {} ELSE {MANIFEST})

\* What list(), get() and _version_dirs() see: a directory with a manifest.
Visible(i) == at[i] = "final" /\ manifest[i] # NONE
Listed     == {i \in Ingests : Visible(i)}
CreatedAt(i) == CHOOSE p \in DOMAIN born : born[p] = i
Newer(i, j)  == CreatedAt(i) > CreatedAt(j)

Latest == IF Listed = {} THEN 0
          ELSE name[CHOOSE i \in Listed : \A j \in Listed : name[j] <= name[i]]

Idle   == [op |-> "idle", victims |-> {}, target |-> NONE, doomed |-> {}]
NoRead == [of |-> NONE, left |-> {}, late |-> FALSE, value |-> "none"]

Init ==
  /\ root \in DOMAIN Callers
  /\ pc       = [i \in Ingests |-> "begin"]
  /\ name     = [i \in Ingests |-> 0]
  /\ source   = [i \in Ingests |-> {}]
  /\ todo     = [i \in Ingests |-> {}]
  /\ entries  = [i \in Ingests |-> {}]
  /\ at       = [i \in Ingests |-> "none"]
  /\ data     = [i \in Ingests |-> [k \in Files |-> "none"]]
  /\ manifest = [i \in Ingests |-> NONE]
  /\ born = <<>> /\ janitor = Idle /\ reader = NoRead
  /\ client = [version |-> 0, pinned |-> 0]
  /\ kills = 0 /\ rots = 0
  /\ swept = {} /\ pruned = {} /\ rotted = {}

-----------------------------------------------------------------------------
(* The ingest.                                                              *)

Goto(i, l) == pc' = [pc EXCEPT ![i] = l]

\* The call returns or raises; save_state() removes its temporary source.
End(i, how) ==
  /\ Goto(i, how)
  /\ source' = [source EXCEPT ![i] = {}]
  /\ UNCHANGED <<name, todo, entries>>

\* What a step of an ingest leaves alone.
IngestFrame == UNCHANGED <<root, janitorVars, reader, client, kills, rotVars>>

\* Mutant: nobody looks whether the name is taken.
TakenNever(i) == FALSE

\* Another directory holds the name. Checkpoint ids carry a fresh uuid.
Taken(i) == root # "checkpoints" /\
            \E j \in Ingests \ {i} : at[j] = "final" /\ name[j] = name[i]

\* materialize() returns a data set that is there already.
Materialized == root = "prompts" /\ Listed # {}

\* publish() takes the version after the newest it sees.
NextName == IF root = "policies" THEN Latest + 1 ELSE 0

\* The call begins; save_state() writes its source.
Begin(i) ==
  /\ pc[i] = "begin" /\ i \in Callers[root]
  /\ IF Materialized
     THEN End(i, "done")
     ELSE /\ Goto(i, "stage")
          /\ name' = [name EXCEPT ![i] = NextName]
          /\ source' = [source EXCEPT ![i] = Source(i)]
          /\ UNCHANGED <<todo, entries>>
  /\ UNCHANGED <<dirVars, born>> /\ IngestFrame

\* The exists check, the staging directory, and the list of source files.
Stage(i) ==
  /\ pc[i] = "stage"
  /\ IF root = "policies" /\ Taken(i)
     THEN End(i, "raised") /\ UNCHANGED at
     ELSE /\ Goto(i, "copy")
          /\ at' = [at EXCEPT ![i] = "staging"]
          /\ todo' = [todo EXCEPT ![i] = source[i]]
          /\ UNCHANGED <<name, source, entries>>
  /\ UNCHANGED <<data, manifest, born>> /\ IngestFrame

\* copyfile() opens its target: the parent directory is made again if it is
\* gone; a source that is gone raises.
CopyFile(i) ==
  /\ pc[i] = "copy" /\ todo[i] # {}
  /\ IF Min(todo[i]) \notin source[i]
     THEN End(i, "raised") /\ UNCHANGED <<at, data>>
     ELSE /\ Goto(i, "hash")
          /\ at' = [at EXCEPT ![i] = "staging"]
          /\ data' = [data EXCEPT ![i][Min(todo[i])] = "torn"]
          /\ UNCHANGED <<name, source, todo, entries>>
  /\ UNCHANGED <<manifest, born>> /\ IngestFrame

\* The copy is complete; it is hashed by name.
HashFile(i) ==
  /\ pc[i] = "hash"
  /\ IF data[i][Min(todo[i])] = "none"
     THEN End(i, "raised") /\ UNCHANGED data
     ELSE /\ Goto(i, "copy")
          /\ data' = [data EXCEPT ![i][Min(todo[i])] = "good"]
          /\ entries' = [entries EXCEPT ![i] = @ \cup {Min(todo[i])}]
          /\ todo' = [todo EXCEPT ![i] = @ \ {Min(todo[i])}]
          /\ UNCHANGED <<name, source>>
  /\ UNCHANGED <<at, manifest, born>> /\ IngestFrame

\* Mutant: the manifest is written while files are still to be copied.
WriteManifestEarly(i) ==
  /\ pc[i] = "copy"
  /\ Goto(i, "commit")
  /\ manifest' = [manifest EXCEPT ![i] = entries[i] \cup todo[i]]
  /\ born' = Append(born, i)
  /\ UNCHANGED <<name, source, todo, entries, at, data>> /\ IngestFrame

\* The manifest names what was hashed and takes created_at; open() raises when
\* the staging directory is gone.
WriteManifest(i) ==
  /\ pc[i] = "copy" /\ todo[i] = {}
  /\ IF at[i] = "none"
     THEN End(i, "raised") /\ UNCHANGED <<manifest, born>>
     ELSE /\ Goto(i, "commit")
          /\ manifest' = [manifest EXCEPT ![i] = entries[i]]
          /\ born' = Append(born, i)
          /\ UNCHANGED <<name, source, todo, entries>>
  /\ UNCHANGED <<at, data>> /\ IngestFrame

\* Mutant: an error of os.replace() is swallowed.
CommitSwallows(i) ==
  /\ pc[i] = "commit"
  /\ End(i, "done")
  /\ at' = IF Taken(i) THEN at ELSE [at EXCEPT ![i] = "final"]
  /\ UNCHANGED <<data, manifest, born>> /\ IngestFrame

\* os.replace(): one step, refused when the staging directory is gone or the
\* name is taken by a directory that is not empty.
Commit(i) ==
  /\ pc[i] = "commit"
  /\ IF at[i] = "none" \/ Taken(i)
     THEN End(i, "raised") /\ UNCHANGED at
     ELSE End(i, "done") /\ at' = [at EXCEPT ![i] = "final"]
  /\ UNCHANGED <<data, manifest, born>> /\ IngestFrame

\* A process is killed between two calls; it runs no finally block.
Kill(i) ==
  /\ pc[i] \in {"stage", "copy", "hash", "commit"}
  /\ kills < KillBudget
  /\ kills' = kills + 1
  /\ Goto(i, "killed")
  /\ UNCHANGED <<root, name, source, todo, entries, dirVars, born, janitorVars,
                 reader, client, rotVars>>

IngestStep(i) == Begin(i) \/ Stage(i) \/ CopyFile(i) \/ HashFile(i)
                   \/ WriteManifest(i) \/ Commit(i)

-----------------------------------------------------------------------------
(* The janitor: sweep_staging() and prune(), by rmtree(ignore_errors=True). *)

JanitorFrame == UNCHANGED <<root, pc, name, todo, entries, born, reader, client,
                            kills, rotVars>>

\* Every child of the staging area, also of an ingest in progress.
SweepList ==
  /\ root = "checkpoints" /\ janitor = Idle
  /\ LET children == {i \in Ingests : at[i] = "staging"}
                       \cup {i \in StateIngests : source[i] # {}} IN
       /\ children # {}
       /\ janitor' = [Idle EXCEPT !.op = "sweep", !.victims = children]
  /\ UNCHANGED <<source, dirVars, swept, pruned>> /\ JanitorFrame

\* Mutant: list() is taken for newest-first.
ExpendableReversed ==
  {i \in Listed \ Protected : Cardinality({l \in Listed : Newer(i, l)}) >= KeepLast}

\* The checkpoints that are neither among the newest nor protected.
Expendable ==
  {i \in Listed \ Protected : Cardinality({l \in Listed : Newer(l, i)}) >= KeepLast}

PruneList ==
  /\ root = "checkpoints" /\ janitor = Idle
  /\ Expendable # {}
  /\ janitor' = [Idle EXCEPT !.op = "prune", !.victims = Expendable]
  /\ UNCHANGED <<source, dirVars, swept, pruned>> /\ JanitorFrame

\* The parent directory the janitor works in.
Place == IF janitor.op = "sweep" THEN "staging" ELSE "final"

\* rmtree() opens a directory and lists it; one that moved is not found. The
\* temporary source of save_state() goes in the same pass.
OpenDir(i) ==
  /\ janitor.target = NONE /\ i \in janitor.victims
  /\ janitor' = [janitor EXCEPT
       !.victims = @ \ {i},
       !.target = IF at[i] = Place THEN i ELSE NONE,
       !.doomed = IF at[i] = Place THEN Holds(i) ELSE {}]
  /\ IF janitor.op = "sweep" /\ i \in StateIngests
     THEN source' = [source EXCEPT ![i] = {}] /\ swept' = swept \cup {i}
     ELSE UNCHANGED <<source, swept>>
  /\ UNCHANGED <<dirVars, pruned>> /\ JanitorFrame

Touch(i) ==
  /\ swept'  = IF janitor.op = "sweep" THEN swept \cup {i} ELSE swept
  /\ pruned' = IF janitor.op = "prune" THEN pruned \cup {i} ELSE pruned

\* Entries go in the order scandir() gives them; an error is ignored.
Unlink(i, e) ==
  /\ i = janitor.target /\ e \in janitor.doomed
  /\ janitor' = [janitor EXCEPT !.doomed = @ \ {e}]
  /\ \/ /\ e = MANIFEST
        /\ manifest' = [manifest EXCEPT ![i] = NONE] /\ UNCHANGED data
     \/ /\ e # MANIFEST
        /\ data' = [data EXCEPT ![i][e] = "none"] /\ UNCHANGED manifest
     \/ UNCHANGED <<data, manifest>>
  /\ Touch(i)
  /\ UNCHANGED <<source, at>> /\ JanitorFrame

\* rmdir() is by path: it fails on a directory that was filled again or moved.
RemoveDir(i) ==
  /\ i = janitor.target /\ janitor.doomed = {}
  /\ at' = IF at[i] = Place /\ Holds(i) = {} THEN [at EXCEPT ![i] = "none"] ELSE at
  /\ janitor' = [janitor EXCEPT !.target = NONE]
  /\ Touch(i)
  /\ UNCHANGED <<source, data, manifest>> /\ JanitorFrame

JanitorDone ==
  /\ janitor.op # "idle" /\ janitor.target = NONE /\ janitor.victims = {}
  /\ janitor' = Idle
  /\ UNCHANGED <<source, dirVars, swept, pruned>> /\ JanitorFrame

JanitorStep ==
  \/ SweepList \/ PruneList \/ JanitorDone
  \/ \E i \in Ingests : \/ OpenDir(i) \/ RemoveDir(i)
                        \/ \E e \in Files \cup {MANIFEST} : Unlink(i, e)

-----------------------------------------------------------------------------
(* Corruption, readers and policy clients.                                  *)

\* sim_corrupt_checkpoint(): append a byte to the first file of the newest
\* checkpoint, which open("ab") creates when it is missing. late marks a load
\* that had begun by then.
Corrupt(i) ==
  /\ root = "checkpoints" /\ rots < RotBudget
  /\ i \in Listed /\ \A l \in Listed : ~Newer(l, i)
  /\ manifest[i] # {}
  /\ data' = [data EXCEPT ![i][Min(manifest[i])] = "bad"]
  /\ rots' = rots + 1
  /\ rotted' = rotted \cup {i}
  /\ reader' = [reader EXCEPT !.late = @ \/ reader.of = i]
  /\ UNCHANGED <<root, callVars, at, manifest, born, janitorVars, client, kills>>

ReaderFrame == UNCHANGED <<root, callVars, dirVars, born, janitorVars, client,
                           kills, rotVars>>

\* load_state() and verify(): read the manifest, ...
ReadManifest(i) ==
  /\ reader = NoRead /\ Visible(i)
  /\ reader' = [NoRead EXCEPT !.of = i, !.left = manifest[i]]
  /\ ReaderFrame

\* The file is there and hashes to what the manifest says.
Intact(i, k) == data[i][k] = "good"

\* Mutant: a file that is missing is skipped, one that changed is accepted.
CheckFileLax ==
  /\ reader.of # NONE /\ reader.left # {}
  /\ reader' = [reader EXCEPT !.left = @ \ {Min(@)}]
  /\ ReaderFrame

\* ... hash its files one by one: a missing or changed one raises
\* CheckpointCorrupt, which ends the load, ...
CheckFile ==
  /\ reader.of # NONE /\ reader.left # {}
  /\ reader' = IF Intact(reader.of, Min(reader.left))
               THEN [reader EXCEPT !.left = @ \ {Min(@)}]
               ELSE NoRead
  /\ ReaderFrame

\* ... and read the state file by path, which may have gone meanwhile.
ReadState ==
  /\ reader.of # NONE /\ reader.left = {} /\ reader.value = "none"
  /\ reader' = IF data[reader.of][1] = "none" THEN NoRead
               ELSE [reader EXCEPT !.value = data[reader.of][1]]
  /\ ReaderFrame

\* PolicyClient.refresh(), and pin(), which holds it back (a simulation).
Refresh ==
  /\ root = "policies"
  /\ client' = [client EXCEPT !.version = IF client.pinned # 0 THEN client.pinned
                                          ELSE Latest]
  /\ UNCHANGED <<root, callVars, dirVars, born, janitorVars, reader, kills, rotVars>>

Pin(v) ==
  /\ root = "policies" /\ v \in 1..Latest
  /\ client' = [client EXCEPT !.pinned = v]
  /\ UNCHANGED <<root, callVars, dirVars, born, janitorVars, reader, kills, rotVars>>

Next ==
  \/ \E i \in Ingests : IngestStep(i) \/ Kill(i) \/ ReadManifest(i) \/ Corrupt(i)
  \/ JanitorStep
  \/ CheckFile \/ ReadState \/ Refresh
  \/ \E v \in 1..Cardinality(Ingests) : Pin(v)

Spec == Init /\ [][Next]_vars

-----------------------------------------------------------------------------
Whole(i) == manifest[i] = Source(i) /\ \A k \in Source(i) : data[i][k] = "good"

\* "There is no observable half-written checkpoint" (checkpoints.py): whoever
\* is killed, raises or loses a race, what list() shows is complete and matches
\* its manifest, unless the janitor or a corruption got at that very ingest.
VisibleIsWhole ==
  \A i \in Listed \ (swept \cup pruned \cup rotted) : Whole(i)

\* A save(), publish() or materialize() that returned has made its artifact
\* visible: the caller indexes it in other stores (integration.py).
ReturnedIsVisible ==
  \A i \in Ingests \ (swept \cup pruned) :
    pc[i] = "done" => \/ Visible(i)
                      \/ Materialized

\* Retention never works its way up to the newest: a pruned checkpoint has
\* KeepLast newer ones that no prune touched, and is not a protected one,
\* although checkpoints are committed in another order than created_at says.
RetentionKeepsNewest ==
  \A i \in pruned :
    /\ i \notin Protected
    /\ Cardinality({l \in Ingests \ pruned :
                      pc[l] = "done" /\ Newer(l, i)}) >= KeepLast

\* What load_state() returns is what was saved: a corruption that came before
\* the load is always found, also when the janitor removes files under it.
LoadIsGenuine == reader.value # "none" => reader.value = "good" \/ reader.late

\* The policy registry as its readers see it.
Log == INSTANCE PolicyLog WITH
         Writers <- Ingests,
         log     <- IF root = "policies"
                    THEN [v \in 1..Cardinality(Listed) |-> {i \in Listed : name[i] = v}]
                    ELSE <<>>,
         seen    <- client.version,
         pinned  <- client.pinned

\* The published versions are a log: v1, v2, ... without gaps, each by one
\* publisher and never replaced, although publishers race for a number and are
\* killed; a worker that is not pinned only moves forward along it.
ImplementsPolicyLog == Log!Spec

=============================================================================
