--------------------------- MODULE SnapshotStore ---------------------------
(***************************************************************************)
(* The aggregation dataset of storage/parquet.py and                       *)
(* storage/parquet_lifecycle.py: ingest files written per run, immutable   *)
(* snapshots built from them by compaction and migration, and the pointer  *)
(* current-snapshot.json that readers follow.  Several processes share the *)
(* directory with no lock, so every read of the directory and every write  *)
(* to it is a step of its own, and a process may crash between two steps.  *)
(*                                                                         *)
(* A record is reduced to its identity, its core metrics (what the         *)
(* semantic summary compares) and the nullable derived metric a migration  *)
(* may backfill.  A snapshot's identity is its position in `snapshots',    *)
(* which stands for the digest of its manifest.                            *)
(***************************************************************************)
EXTENDS Naturals, Sequences, FiniteSets

CONSTANTS Procs,       \* processes using the dataset directory
          Batches,     \* ingestable files: [run, rows], rows a function from record identities to core metrics
          MaxOps,      \* bound: operations started over a behaviour
          MaxCrashes   \* bound: process crashes over a behaviour

ASSUME SnapshotBounds == MaxOps \in Nat /\ MaxCrashes \in Nat

VARIABLES
  runs,       \* catalog.py: status of each run, "none" before create_run
  files,      \* ingest files in their partition directories
  registered, \* catalog.py: files with an aggregation_artifacts row
  snapshots,  \* published snapshot directories, in the order of their renames
  pointer,    \* current-snapshot.json: a snapshot, or 0 when there is none
  stage,      \* processes whose staging directory exists
  orphans,    \* staging directories left behind by crashed processes
  proc,       \* each process: where it is in its operation, and what it has read
  ops, crashes

snVars == <<runs, files, registered, snapshots, pointer, stage, orphans, proc,
          ops, crashes>>

View == INSTANCE DatasetView WITH ingested <- files,
          view <- IF pointer = 0 THEN <<>>
                  ELSE [i \in DOMAIN snapshots[pointer].rows |->
                          snapshots[pointer].rows[i].core]

Runs == {b.run : b \in Batches}
RunStatus == {"none", "running", "complete", "failed"}

Ids(b) == View!Ids(b)
Disjoint(F) == View!Disjoint(F)
IdsOf(F) == View!IdsOf(F)

(***************************************************************************)
(* Rows as _read_file returns them from ingest files: the derived metric   *)
(* is null until a migration fills it.                                     *)
(***************************************************************************)
RowsOf(F) == [i \in IdsOf(F) |-> [core |-> View!CoreOf(F)[i], derived |-> FALSE]]

Merge(r, s) == [i \in DOMAIN r \cup DOMAIN s |->
                  IF i \in DOMAIN r THEN r[i] ELSE s[i]]

NoManifest == [rows |-> <<>>, sources |-> {}, parent |-> 0, job |-> "none", op |-> "none"]

Idle == [at |-> "idle", op |-> "none", batch |-> {}, base |-> 0, target |-> 0,
         expects |-> FALSE, activate |-> FALSE, manifest |-> NoManifest,
         read |-> <<>>]

SnInit ==
  /\ runs = [r \in Runs |-> "none"]
  /\ files = {} /\ registered = {}
  /\ snapshots = <<>> /\ pointer = 0
  /\ stage = {} /\ orphans = 0
  /\ proc = [p \in Procs |-> Idle]
  /\ ops = 0 /\ crashes = 0

Start(p, state) ==
  /\ proc[p].at = "idle" /\ ops < MaxOps
  /\ ops' = ops + 1
  /\ proc' = [proc EXCEPT ![p] = state]
  /\ UNCHANGED <<runs, files, registered, snapshots, pointer, stage, orphans, crashes>>

Goto(p, place) == proc' = [proc EXCEPT ![p].at = place]
Done(p) == proc' = [proc EXCEPT ![p] = Idle]

(***************************************************************************)
(* An exception out of _publish_snapshot removes the staging directory; out *)
(* of every other operation it changes nothing on disk.                    *)
(***************************************************************************)
Raise(p) == /\ stage' = stage \ {p}
            /\ Done(p)
            /\ UNCHANGED <<runs, files, registered, snapshots, pointer, orphans, ops, crashes>>

-----------------------------------------------------------------------------
(* The run catalog.  A run finishes once; its batches wait for that.       *)

CreateRun(r) ==
  /\ runs[r] = "none"
  /\ runs' = [runs EXCEPT ![r] = "running"]
  /\ UNCHANGED <<files, registered, snapshots, pointer, stage, orphans, proc, ops, crashes>>

FinishRun(r) ==
  /\ runs[r] = "running"
  /\ \E s \in {"complete", "failed"} : runs' = [runs EXCEPT ![r] = s]
  /\ UNCHANGED <<files, registered, snapshots, pointer, stage, orphans, proc, ops, crashes>>

-----------------------------------------------------------------------------
(* publish_aggregation_partition: validate the run, write the file, then   *)
(* register it.                                                            *)

BeginIngest(p, b) ==
  /\ runs[b.run] = "complete"
  /\ Start(p, [Idle EXCEPT !.at = "ingest_check", !.op = "ingest", !.batch = {b}])

(***************************************************************************)
(* A file that is already there is taken as it is.  Otherwise its          *)
(* identities are compared with those of the active snapshot, and with     *)
(* nothing else.                                                           *)
(***************************************************************************)
ActiveIds == IF pointer = 0 THEN {} ELSE DOMAIN snapshots[pointer].rows

IngestCheck(p) ==
  /\ proc[p].at = "ingest_check"
  /\ LET b == CHOOSE b \in proc[p].batch : TRUE
     IN \/ /\ b \in files
           /\ Goto(p, "ingest_register")
           /\ UNCHANGED <<runs, files, registered, snapshots, pointer, stage, orphans, ops, crashes>>
        \/ /\ b \notin files /\ Ids(b) \cap ActiveIds = {}
           /\ Goto(p, "ingest_write")
           /\ UNCHANGED <<runs, files, registered, snapshots, pointer, stage, orphans, ops, crashes>>
        \/ /\ b \notin files /\ Ids(b) \cap ActiveIds # {}
           /\ Raise(p)

IngestWrite(p) ==
  /\ proc[p].at = "ingest_write"
  /\ files' = files \cup proc[p].batch
  /\ Goto(p, "ingest_register")
  /\ UNCHANGED <<runs, registered, snapshots, pointer, stage, orphans, ops, crashes>>

IngestRegister(p) ==
  /\ proc[p].at = "ingest_register"
  /\ registered' = registered \cup proc[p].batch
  /\ Done(p)
  /\ UNCHANGED <<runs, files, snapshots, pointer, stage, orphans, ops, crashes>>

-----------------------------------------------------------------------------
(* compact_aggregation_dataset and migrate_aggregation_snapshot.           *)

BeginBuild(p, op, activate) ==
  \/ Start(p, [Idle EXCEPT !.at = "gather", !.op = op, !.activate = activate,
                           !.base = pointer, !.expects = TRUE])
  \/ \E s \in DOMAIN snapshots :
       Start(p, [Idle EXCEPT !.at = "gather", !.op = op, !.activate = activate,
                             !.base = s, !.expects = TRUE])

(* Mutant: the base rows are read again from the ingest files. *)
BaseRowsFromFiles(s) == IF s = 0 THEN <<>> ELSE RowsOf(snapshots[s].sources)

(***************************************************************************)
(* _resolve_source_dataset, after the pointer was read: the rows of the    *)
(* base snapshot and of the ingest files it does not track.  An identity   *)
(* met twice, or no row at all, raises.                                    *)
(***************************************************************************)
BaseRows(s) == IF s = 0 THEN <<>> ELSE snapshots[s].rows
BaseSources(s) == IF s = 0 THEN {} ELSE snapshots[s].sources

Deltas(s) == files \ BaseSources(s)

GatherFails(s) == \/ ~Disjoint(Deltas(s))
                  \/ IdsOf(Deltas(s)) \cap DOMAIN BaseRows(s) # {}
                  \/ BaseSources(s) \cup Deltas(s) = {}

(***************************************************************************)
(* A migration's transform maps each record; _publish_snapshot refuses the *)
(* result unless its semantic summary equals the source's, so only the     *)
(* derived metric can change.                                              *)
(***************************************************************************)
Changed == "changed"

Transforms(op, rows) ==
  IF op = "compaction" THEN {rows}
  ELSE {[i \in DOMAIN rows |-> [rows[i] EXCEPT !.derived = TRUE]],
        [i \in DOMAIN rows |-> [rows[i] EXCEPT !.core = Changed]]}

SummaryMatches(rows, source) ==
  /\ DOMAIN rows = DOMAIN source
  /\ \A i \in DOMAIN rows : rows[i].core = source[i].core

Gather(p) ==
  /\ proc[p].at = "gather"
  /\ LET s == proc[p].base
         rows == Merge(BaseRows(s), RowsOf(Deltas(s)))
     IN \/ GatherFails(s) /\ Raise(p)
        \/ /\ ~GatherFails(s)
           /\ \E out \in Transforms(proc[p].op, rows) :
                \/ ~SummaryMatches(out, rows) /\ Raise(p)
                \/ /\ SummaryMatches(out, rows)
                   /\ proc' = [proc EXCEPT ![p].at = "stage", ![p].manifest =
                        [rows |-> out, sources |-> BaseSources(s) \cup Deltas(s),
                         parent |-> s, job |-> p, op |-> proc[p].op]]
                   /\ UNCHANGED <<runs, files, registered, snapshots, pointer, stage,
                                  orphans, ops, crashes>>

(***************************************************************************)
(* The disk preflight may refuse; otherwise the data files and the         *)
(* manifest are written under _staging, where no reader looks.             *)
(***************************************************************************)
StageSnapshot(p) ==
  /\ proc[p].at = "stage"
  /\ \/ Raise(p)
     \/ /\ stage' = stage \cup {p}
        /\ Goto(p, "rename")
        /\ UNCHANGED <<runs, files, registered, snapshots, pointer, orphans, ops, crashes>>

Holds(m) == \E s \in DOMAIN snapshots : snapshots[s] = m

(***************************************************************************)
(* The rename that makes the snapshot directory appear, complete, or the   *)
(* removal of the stage when an equal snapshot is already there.           *)
(***************************************************************************)
RenameSnapshot(p) ==
  /\ proc[p].at = "rename"
  /\ LET m == proc[p].manifest
         known == Holds(m)
         next == IF known THEN snapshots ELSE Append(snapshots, m)
     IN /\ snapshots' = next
        /\ stage' = stage \ {p}
        /\ IF proc[p].activate
           THEN proc' = [proc EXCEPT ![p].at = "activate",
                                     ![p].target = CHOOSE s \in DOMAIN next : next[s] = m]
           ELSE Done(p)
  /\ UNCHANGED <<runs, files, registered, pointer, orphans, ops, crashes>>

(***************************************************************************)
(* Any error while the stage is being filled or renamed.                   *)
(***************************************************************************)
BuildError(p) == proc[p].at = "rename" /\ Raise(p)

-----------------------------------------------------------------------------
(* rollback_aggregation_snapshot, and activate_aggregation_snapshot called *)
(* without an expected value.                                              *)

BeginRollback(p) ==
  \E s \in DOMAIN snapshots, e \in DOMAIN snapshots :
    /\ s # e
    /\ Start(p, [Idle EXCEPT !.at = "activate", !.op = "rollback", !.base = e,
                             !.target = s, !.expects = TRUE])

BeginActivate(p) ==
  \E s \in DOMAIN snapshots :
    Start(p, [Idle EXCEPT !.at = "activate", !.op = "activate", !.target = s])

(***************************************************************************)
(* activate_aggregation_snapshot reads the target, compares the pointer    *)
(* with the expected value, and only then replaces it: two steps.          *)
(***************************************************************************)
ActivateCheck(p) ==
  /\ proc[p].at = "activate"
  /\ \/ /\ proc[p].expects /\ pointer # proc[p].base
        /\ Raise(p)
     \/ /\ proc[p].expects => pointer = proc[p].base
        /\ Goto(p, "replace")
        /\ UNCHANGED <<runs, files, registered, snapshots, pointer, stage, orphans, ops, crashes>>

(* Mutant: the old pointer is removed first, and stays removed on failure. *)
ReplacePointerUnlinks(p) ==
  /\ proc[p].at = "replace"
  /\ pointer' \in {proc[p].target, 0}
  /\ Done(p)
  /\ UNCHANGED <<runs, files, registered, snapshots, stage, orphans, ops, crashes>>

(***************************************************************************)
(* atomic_write_text gives up when the replace keeps being refused.        *)
(***************************************************************************)
ReplacePointer(p) ==
  /\ proc[p].at = "replace"
  /\ \/ /\ pointer' = proc[p].target
        /\ Done(p)
        /\ UNCHANGED <<runs, files, registered, snapshots, stage, orphans, ops, crashes>>
     \/ Raise(p)

-----------------------------------------------------------------------------
(* read_aggregation_dataset: the pointer first, then the manifest it named *)
(* and the manifest's files; with no pointer, the ingest files.            *)

BeginRead(p) ==
  Start(p, [Idle EXCEPT !.at = IF pointer = 0 THEN "read_files" ELSE "read_snapshot",
                        !.op = "read", !.base = pointer])

ReadSnapshot(p) ==
  /\ proc[p].at = "read_snapshot"
  /\ proc' = [proc EXCEPT ![p] = [Idle EXCEPT !.read = snapshots[proc[p].base].rows]]
  /\ UNCHANGED <<runs, files, registered, snapshots, pointer, stage, orphans, ops, crashes>>

ReadFiles(p) ==
  /\ proc[p].at = "read_files"
  /\ \/ ~Disjoint(files) /\ Raise(p)
     \/ /\ Disjoint(files)
        /\ proc' = [proc EXCEPT ![p] = [Idle EXCEPT !.read = RowsOf(files)]]
        /\ UNCHANGED <<runs, files, registered, snapshots, pointer, stage, orphans, ops, crashes>>

-----------------------------------------------------------------------------
(* A crash loses the process's memory and leaves its staging directory,    *)
(* which nothing removes later.                                            *)

Crash(p) ==
  /\ proc[p].at # "idle" /\ crashes < MaxCrashes
  /\ crashes' = crashes + 1
  /\ orphans' = IF p \in stage THEN orphans + 1 ELSE orphans
  /\ stage' = stage \ {p}
  /\ Done(p)
  /\ UNCHANGED <<runs, files, registered, snapshots, pointer, ops>>

Step(p) ==
  \/ IngestCheck(p) \/ IngestWrite(p) \/ IngestRegister(p)
  \/ Gather(p) \/ StageSnapshot(p) \/ RenameSnapshot(p) \/ BuildError(p)
  \/ ActivateCheck(p) \/ ReplacePointer(p)
  \/ ReadSnapshot(p) \/ ReadFiles(p)

Begin(p) ==
  \/ \E b \in Batches : BeginIngest(p, b)
  \/ \E op \in {"compaction", "migration"}, a \in BOOLEAN : BeginBuild(p, op, a)
  \/ BeginRollback(p) \/ BeginActivate(p) \/ BeginRead(p)

SnNext ==
  \/ \E r \in Runs : CreateRun(r) \/ FinishRun(r)
  \/ \E p \in Procs : Begin(p) \/ Step(p) \/ Crash(p)

SnSpec == SnInit /\ [][SnNext]_snVars

-----------------------------------------------------------------------------
(* Properties.                                                             *)

Metrics == UNION {{b.rows[i] : i \in Ids(b)} : b \in Batches}

Rows == UNION {[D -> [core : Metrics, derived : BOOLEAN]] : D \in SUBSET IdsOf(Batches)}

Manifests == [rows : Rows, sources : SUBSET Batches, parent : Nat,
              job : Procs, op : {"compaction", "migration"}]

Places == {"idle", "ingest_check", "ingest_write", "ingest_register", "gather",
           "stage", "rename", "activate", "replace", "read_snapshot", "read_files"}

(***************************************************************************)
(* Types: the pointer, and every base or target a process holds, name      *)
(* snapshot directories that exist.                                        *)
(***************************************************************************)
SnapshotTypeOK ==
  /\ runs \in [Runs -> RunStatus]
  /\ files \in SUBSET Batches /\ registered \in SUBSET Batches
  /\ snapshots \in Seq(Manifests)
  /\ pointer \in 0..Len(snapshots)
  /\ stage \in SUBSET Procs /\ orphans \in Nat
  /\ \A p \in Procs :
       /\ proc[p].at \in Places
       /\ proc[p].batch \in SUBSET Batches
       /\ proc[p].base \in 0..Len(snapshots)
       /\ proc[p].target \in 0..Len(snapshots)
       /\ proc[p].manifest \in Manifests \cup {NoManifest}
       /\ proc[p].read \in Rows
  /\ ops \in 0..MaxOps /\ crashes \in 0..MaxCrashes

Covers(m) ==
  /\ m.sources \subseteq files
  /\ Disjoint(m.sources)
  /\ DOMAIN m.rows = IdsOf(m.sources)
  /\ \A b \in m.sources : \A i \in Ids(b) : m.rows[i].core = b.rows[i]

(***************************************************************************)
(* _snapshot_with_legacy_deltas skips every ingest file the base snapshot  *)
(* tracks, for ever: so a snapshot must hold exactly the rows of the files *)
(* it tracks, with the core metrics they were ingested with, whatever      *)
(* compactions, migrations, rollbacks and crashes led to it.               *)
(***************************************************************************)
TrackedRowsKept == \A s \in DOMAIN snapshots : Covers(snapshots[s])

Extends(m, n) ==
  /\ n.sources \subseteq m.sources
  /\ \A i \in DOMAIN n.rows :
       /\ i \in DOMAIN m.rows
       /\ m.rows[i].core = n.rows[i].core
       /\ n.rows[i].derived => m.rows[i].derived

(***************************************************************************)
(* A snapshot built on another keeps all of its rows, and a derived metric *)
(* a migration backfilled is not reset to the ingested null by a later     *)
(* compaction that reads the old files again.                              *)
(***************************************************************************)
LineageKeepsRows ==
  \A s \in DOMAIN snapshots :
    LET m == snapshots[s] IN m.parent # 0 => /\ m.parent < s
                                             /\ Extends(m, snapshots[m.parent])

(***************************************************************************)
(* A reader is given the rows of a set of ingest files, each identity once *)
(* and each with the metrics it was ingested with, also when the pointer   *)
(* moves or files arrive while it reads.                                   *)
(***************************************************************************)
ReadsAreWhole ==
  \A p \in Procs :
    \E F \in SUBSET files :
      /\ Disjoint(F)
      /\ [i \in DOMAIN proc[p].read |-> proc[p].read[i].core] = View!CoreOf(F)

(***************************************************************************)
(* publish_aggregation_partition: a catalog row names a file that is in    *)
(* the dataset and belongs to a run that completed, also when a crash or a *)
(* refusal came between the two writes.                                    *)
(***************************************************************************)
CatalogNamesFiles ==
  \A b \in registered : b \in files /\ runs[b.run] = "complete"

(***************************************************************************)
(* _publish_snapshot: only a crash leaves a staging directory behind.      *)
(***************************************************************************)
StagesReleased ==
  /\ \A p \in stage : proc[p].at = "rename"
  /\ orphans <= crashes

(***************************************************************************)
(* The dataset implements DatasetView: whatever the pointer names is the   *)
(* exact union of ingested files with disjoint identities.                 *)
(***************************************************************************)
ImplementsView == View!ViewSpec

(***************************************************************************)
(* Rows are neither lost, doubled nor altered on their way from an ingest  *)
(* file through compactions, migrations, rollbacks and crashes to a reader.*)
(***************************************************************************)
RowsKept ==
  /\ SnapshotTypeOK
  /\ TrackedRowsKept
  /\ LineageKeepsRows
  /\ ReadsAreWhole
  /\ CatalogNamesFiles
  /\ StagesReleased

=============================================================================
