---------------------------- MODULE CoreBootstrap ----------------------------
(***************************************************************************)
(* ocgcore-bootstrap and ocgcore-assets-bootstrap (external/ocgcore.py):    *)
(* the source, the Premake tool, the runtime and the asset repositories of *)
(* a lock are brought into one install directory by a run that any command,*)
(* download or file operation may fail and that may be killed; the next run*)
(* finds what the earlier ones left.                                       *)
(*                                                                         *)
(* A tree is absent, broken (anything that does not match the lock) or     *)
(* locked; a runtime is known by its binary, since two builds of the same  *)
(* source may differ.  One run at a time uses the directory.               *)
(***************************************************************************)
EXTENDS Naturals, Sequences

CONSTANTS Binaries,      \* what a build may produce
          Repositories,  \* the asset repositories, in order
          MaxRuns,       \* bound: runs
          MaxEdits       \* bound: changes a user makes to the directory

\* The lock names card_scripts and card_database (OcgcoreAssetsLock).
ASSUME BootstrapAssumption == Len(Repositories) \in Nat \ {0}

VARIABLES disk,    \* the install directory, and the virtual build drive
          run,     \* the run in progress or the last one
          runs,
          edits,
          causes   \* history of what may block a later run: "source", a copy into the
           \* source was cut off or a user changed it; "drive", a build was
           \* killed or its drive could not be released; "asset", a user
           \* changed an asset repository

cbVars == <<disk, run, runs, edits, causes>>

Repos == {Repositories[i] : i \in 1..Len(Repositories)}
NoTree == "absent"
Left == {"absent", "broken"}  \* what a cleanup that may fail itself leaves

-----------------------------------------------------------------------------
(* Verification.                                                           *)

\* verify_ocgcore
VerifiesCore(d) ==
  /\ d.source = "locked"
  /\ \/ d.manifest = "source only"
     \/ d.manifest \in Binaries /\ d.runtime = d.manifest

\* verify_ocgcore_assets
VerifiesAssets(d) == d.assetManifest /\ \A r \in Repos : d.assets[r] = "locked"

-----------------------------------------------------------------------------
(* A run.                                                                  *)

CbInit ==
  /\ disk = [source |-> NoTree, sourcePartial |-> NoTree, archive |-> NoTree,
             download |-> NoTree, premake |-> NoTree, premakePartial |-> NoTree,
             work |-> NoTree, staged |-> NoTree, build |-> NoTree,
             runtime |-> NoTree, manifest |-> NoTree, drive |-> "free",
             assets |-> [r \in Repos |-> NoTree],
             assetPartial |-> [r \in Repos |-> NoTree], assetManifest |-> FALSE]
  /\ run = [at |-> "idle", kind |-> "core", offline |-> FALSE, only |-> FALSE,
            next |-> 1, cloned |-> FALSE, built |-> "none", reason |-> "none",
            last |-> "idle", had |-> FALSE]
  /\ runs = 0 /\ edits = 0 /\ causes = {}

Resting == run.at \in {"idle", "done", "refused", "killed"}

Begin ==
  /\ Resting /\ runs < MaxRuns
  /\ \E kind \in {"core", "assets"}, offline, only \in BOOLEAN :
       /\ kind = "assets" => ~only
       /\ run' = [at |-> IF kind = "core" THEN "source" ELSE "asset", kind |-> kind,
                  offline |-> offline, only |-> only, next |-> 1, cloned |-> FALSE,
                  built |-> "none", reason |-> "none", last |-> "idle",
                  had |-> IF kind = "core" THEN VerifiesCore(disk) ELSE VerifiesAssets(disk)]
  /\ runs' = runs + 1
  /\ UNCHANGED <<disk, edits, causes>>

Goes(from, to, d) ==
  /\ run.at = from
  /\ run' = [run EXCEPT !.at = to]
  /\ disk' = d
  /\ UNCHANGED <<runs, edits, causes>>

RefuseRun(reason, d) ==
  /\ run' = [run EXCEPT !.at = "refused", !.reason = reason, !.last = run.at]
  /\ disk' = d
  /\ UNCHANGED <<runs, edits>>

Fails(from, d) == run.at = from /\ RefuseRun("fault", d) /\ UNCHANGED causes
Rejects(from, reason) ==
  run.at = from /\ RefuseRun(reason, disk) /\ UNCHANGED causes

AfterSource == IF run.only THEN "manifest" ELSE "archive"

\* acquire_source: a checkout that is there is verified, never touched.
OnMismatch(d) == d
AcquireSource ==
  \/ disk.source = "locked" /\ Goes("source", AfterSource, disk)
  \/ /\ disk.source = "broken" /\ run.at = "source"
     /\ RefuseRun("source mismatch", OnMismatch(disk)) /\ UNCHANGED causes
  \/ /\ disk.source = NoTree /\ run.offline
     /\ Rejects("source", "offline")
  \/ /\ disk.source = NoTree /\ ~run.offline
     /\ disk.sourcePartial = "locked" /\ Goes("source", "copy", disk)
  \/ /\ disk.source = NoTree /\ ~run.offline
     /\ disk.sourcePartial # "locked"
     /\ Goes("source", "clone", [disk EXCEPT !.sourcePartial = NoTree])

Clone ==
  \/ /\ run.at = "clone"
     /\ run' = [run EXCEPT !.at = "copy", !.cloned = TRUE]
     /\ disk' = [disk EXCEPT !.sourcePartial = "locked"]
     /\ UNCHANGED <<runs, edits, causes>>
  \/ \E x \in Left : Fails("clone", [disk EXCEPT !.sourcePartial = x])

\* _finalize_source; only a partial this run cloned is cleaned up after it.
FinalizeSource ==
  \/ Goes("copy", AfterSource, [disk EXCEPT !.source = "locked", !.sourcePartial = NoTree])
  \/ \E x, y \in Left :
       /\ run.at = "copy"
       /\ RefuseRun("fault", [disk EXCEPT !.source = x,
                             !.sourcePartial = IF run.cloned THEN y ELSE @])
       /\ causes' = IF x = "broken" THEN causes \cup {"source"} ELSE causes

-----------------------------------------------------------------------------
(* ensure_premake.                                                         *)

CachedArchive ==
  \/ disk.archive = "locked" /\ Goes("archive", "tool", disk)
  \/ disk.archive # "locked" /\ run.offline /\ Rejects("archive", "offline")
  \/ /\ disk.archive # "locked" /\ ~run.offline
     /\ Goes("archive", "download", [disk EXCEPT !.archive = NoTree, !.download = NoTree])

Download ==
  \/ Goes("download", "tool", [disk EXCEPT !.archive = "locked", !.download = NoTree])
  \/ Fails("download", [disk EXCEPT !.download = NoTree])

CachedTool ==
  \/ disk.premake = "locked" /\ Goes("tool", "workspace", disk)
  \/ disk.premake = "broken" /\ run.offline /\ Rejects("tool", "offline")
  \/ /\ disk.premake # "locked" /\ (disk.premake = "broken" => ~run.offline)
     /\ Goes("tool", "extract", [disk EXCEPT !.premakePartial = NoTree, !.premake = NoTree])

Extract ==
  \/ Goes("extract", "workspace", [disk EXCEPT !.premake = "locked", !.premakePartial = NoTree])
  \/ \E x \in Left : Fails("extract", [disk EXCEPT !.premakePartial = x])

-----------------------------------------------------------------------------
(* build_ocgcore.                                                          *)

\* What an earlier run left in the way of this one is removed first.
KeepsLeftovers(d) == d
ClearWorkspace(d) == [d EXCEPT !.work = NoTree, !.staged = NoTree]

\* _prepare_build_workspace: copytree and mkdir need their target absent.
PrepareWorkspace ==
  \/ LET d == ClearWorkspace(disk) IN
       /\ run.at = "workspace"
       /\ IF d.work = NoTree /\ d.staged = NoTree
          THEN Goes("workspace", "map", [d EXCEPT !.work = "locked"])
          ELSE RefuseRun("in the way", d) /\ UNCHANGED causes
  \/ Fails("workspace", disk)  \* no compiler
  \/ Fails("workspace", [disk EXCEPT !.work = "broken"])

\* What a failed build leaves: its trees are removed, as far as that works.
CleanedUp(d) ==
  {[d EXCEPT !.work = x, !.staged = y] :
     x \in {NoTree, IF d.work = NoTree THEN NoTree ELSE "broken"},
     y \in {NoTree, IF d.staged = NoTree THEN NoTree ELSE "broken"}}

\* _virtual_build_root: another mapping is never replaced.
MapDrive ==
  /\ run.at = "map"
  /\ \/ disk.drive = "free" /\ Goes("map", "compile", [disk EXCEPT !.drive = "mapped"])
     \/ \E d \in CleanedUp(disk) :
          /\ UNCHANGED causes
          /\ \/ disk.drive # "free" /\ RefuseRun("drive", d)
             \/ disk.drive = "free" /\ RefuseRun("fault", d)

\* The mapping is released on success and on failure; subst may refuse to,
\* which is ignored after a failure and fails a build that succeeded.
ReleasedAfterFailure(d) == [d EXCEPT !.drive = "free"]
Compile ==
  \/ Goes("compile", "stage", [disk EXCEPT !.drive = "free"])
  \/ /\ run.at = "compile"
     /\ \E d \in CleanedUp(disk) :
          \/ RefuseRun("fault", ReleasedAfterFailure(d)) /\ UNCHANGED causes
          \/ \E reason \in {"fault", "release refused"} :
               RefuseRun(reason, d) /\ causes' = causes \cup {"drive"}

\* The binary is copied and must export the API version of the lock.
Staged(b) ==
  /\ run' = [run EXCEPT !.at = "build", !.built = b]
  /\ disk' = [disk EXCEPT !.staged = b]
  /\ UNCHANGED <<runs, edits, causes>>
Stage ==
  /\ run.at = "stage"
  /\ \/ \E b \in Binaries : Staged(b)
     \/ \E d \in CleanedUp([disk EXCEPT !.staged = "broken"]) :
          RefuseRun("fault", d) /\ UNCHANGED causes

\* _publish_owned_tree: the old tree goes before the new one is copied.
PublishTree(old, new) == new
PublishBuild ==
  \/ Goes("build", "runtime", [disk EXCEPT !.build = PublishTree(@, disk.work), !.work = NoTree])
  \/ \E x \in Left : Fails("build", [disk EXCEPT !.build = x])
PublishRuntime ==
  \/ Goes("runtime", "manifest",
          [disk EXCEPT !.runtime = PublishTree(@, disk.staged), !.staged = NoTree])
  \/ \E x \in Left : Fails("runtime", [disk EXCEPT !.runtime = x])

\* _write_manifest: written beside and replaced; it records the digest of the
\* published binary.
WriteManifest ==
  \/ Goes("manifest", "done",
          [disk EXCEPT !.manifest = IF run.only THEN "source only" ELSE disk.runtime])
  \/ Fails("manifest", disk)

-----------------------------------------------------------------------------
(* bootstrap_ocgcore_assets.                                               *)

Repo == Repositories[run.next]
NextRepo(d) ==
  /\ run' = IF run.next = Len(Repositories) THEN [run EXCEPT !.at = "asset manifest"]
            ELSE [run EXCEPT !.at = "asset", !.next = @ + 1]
  /\ disk' = d
  /\ UNCHANGED <<runs, edits, causes>>

\* _acquire_asset_repository
AcquireAsset ==
  /\ run.at = "asset"
  /\ \/ disk.assets[Repo] = "locked" /\ NextRepo(disk)
     \/ disk.assets[Repo] = "broken" /\ Rejects("asset", "asset mismatch")
     \/ disk.assets[Repo] = NoTree /\ run.offline /\ Rejects("asset", "offline")
     \/ /\ disk.assets[Repo] = NoTree /\ ~run.offline
        /\ Goes("asset", "fetch", [disk EXCEPT !.assetPartial[Repo] = NoTree])

\* Fetched and verified beside its place, then renamed.
Fetch ==
  /\ run.at = "fetch"
  /\ \/ NextRepo([disk EXCEPT !.assets[Repo] = "locked", !.assetPartial[Repo] = NoTree])
     \/ \E x \in Left : Fails("fetch", [disk EXCEPT !.assetPartial[Repo] = x])

WriteAssetManifest ==
  \/ Goes("asset manifest", "done", [disk EXCEPT !.assetManifest = TRUE])
  \/ Fails("asset manifest", disk)

-----------------------------------------------------------------------------
(* A run is killed or interrupted: what it was writing is left half done,  *)
(* and an interrupted build may still release its drive.                   *)
TornInstall ==
  CASE run.at = "clone" -> {[disk EXCEPT !.sourcePartial = x] : x \in Left}
    [] run.at = "copy" -> {[disk EXCEPT !.source = x] : x \in Left \cup {"locked"}}
    [] run.at = "download" -> {[disk EXCEPT !.download = x] : x \in Left}
    [] run.at = "extract" -> {[disk EXCEPT !.premakePartial = x] : x \in Left}
    [] run.at = "workspace" -> {[disk EXCEPT !.work = x] : x \in Left}
    [] run.at = "compile" -> {disk, [disk EXCEPT !.drive = "free"]}
    [] run.at = "stage" -> {[disk EXCEPT !.staged = x] : x \in Left}
    [] run.at = "build" -> {[disk EXCEPT !.build = x] : x \in Left}
    [] run.at = "runtime" -> {[disk EXCEPT !.runtime = x] : x \in Left \cup {disk.runtime, disk.staged}}
    [] run.at = "fetch" -> {[disk EXCEPT !.assetPartial[Repo] = x] : x \in Left}
    [] OTHER -> {disk}

Kill ==
  /\ ~Resting
  /\ run' = [run EXCEPT !.last = run.at, !.at = "killed"]
  /\ disk' \in TornInstall
  /\ causes' = causes \cup (IF disk'.drive = "mapped" /\ run.at = "compile" THEN {"drive"} ELSE {})
                      \cup (IF run.at = "copy" /\ disk'.source = "broken" THEN {"source"} ELSE {})
  /\ UNCHANGED <<runs, edits>>

\* A user changes a file, or the disk loses one.
Edit ==
  /\ Resting /\ edits < MaxEdits
  /\ \/ /\ disk.source = "locked" /\ disk' = [disk EXCEPT !.source = "broken"]
        /\ causes' = causes \cup {"source"}
     \/ /\ disk.archive = "locked" /\ disk' = [disk EXCEPT !.archive = "broken"]
        /\ UNCHANGED causes
     \/ /\ disk.premake = "locked" /\ disk' = [disk EXCEPT !.premake = "broken"]
        /\ UNCHANGED causes
     \/ /\ disk.runtime \in Binaries /\ disk' = [disk EXCEPT !.runtime = "broken"]
        /\ UNCHANGED causes
     \/ \E r \in Repos :
          /\ disk.assets[r] = "locked" /\ disk' = [disk EXCEPT !.assets[r] = "broken"]
          /\ causes' = causes \cup {"asset"}
  /\ run' = [run EXCEPT !.at = "idle"]
  /\ edits' = edits + 1 /\ UNCHANGED runs

CbNext ==
  \/ Begin \/ AcquireSource \/ Clone \/ FinalizeSource
  \/ CachedArchive \/ Download \/ CachedTool \/ Extract
  \/ PrepareWorkspace \/ MapDrive \/ Compile \/ Stage
  \/ PublishBuild \/ PublishRuntime \/ WriteManifest
  \/ AcquireAsset \/ Fetch \/ WriteAssetManifest
  \/ Kill \/ Edit

CbSpec == CbInit /\ [][CbNext]_cbVars

-----------------------------------------------------------------------------
(* A run that returns leaves an installation that verifies, whatever the   *)
(* runs before it left behind.                                             *)
FinishedVerifies ==
  run.at = "done" =>
    IF run.kind = "assets" THEN VerifiesAssets(disk)
    ELSE /\ VerifiesCore(disk)
         /\ IF run.only THEN disk.manifest = "source only" ELSE disk.runtime = run.built

(* What an earlier run or a user left blocks a run with network in three   *)
(* ways only: a source that does not match is refused, after a copy into   *)
(* it was cut off (acquire_source never repairs a checkout it finds) or an *)
(* edit; a mapped drive, after a build that was killed or whose release    *)
(* failed; an edited asset repository.  Every other refusal is a failure   *)
(* of the run itself, subst refusing to release its drive among them; no   *)
(* partial tree, torn archive, tool, build or runtime blocks a run.        *)
BlockedOnlyByKnown ==
  run.at = "refused" /\ ~run.offline =>
    \/ run.reason = "fault"
    \/ run.reason = "release refused" /\ run.last = "compile" /\ "drive" \in causes
    \/ run.reason = "source mismatch" /\ "source" \in causes
    \/ run.reason = "drive" /\ "drive" \in causes
    \/ run.reason = "asset mismatch" /\ "asset" \in causes

(* Until a run publishes its runtime, an installation that verified when   *)
(* it began still does, in whatever way the run ends: a rebuild that finds *)
(* no compiler, fails or is killed costs nothing that was there.  A run    *)
(* that ends while it publishes its runtime is exempt: the old tree goes   *)
(* before the new one is copied, and a working installation may be lost.   *)
InstallSurvives ==
  LET at == IF run.at \in {"refused", "killed"} THEN run.last ELSE run.at
      before == at # "manifest" /\ (run.at \in {"refused", "killed"} => at # "runtime")
  IN  run.kind = "core" /\ run.had /\ run.at \notin {"idle", "done"} /\ before
        => VerifiesCore(disk)

(* The build drive is mapped only while a build runs, or since a build was *)
(* killed or could not release it: "always releases its own mapping"       *)
(* (docs/ocgcore/00_bootstrap.md:9) holds of every other build.            *)
DriveReleased == disk.drive = "mapped" => run.at = "compile" \/ "drive" \in causes

(* Whatever happened before, a run that has got past its compilation has a *)
(* free drive, until it returns, fails or is killed there.                 *)
PastCompile ==
  LET at == IF run.at \in {"refused", "killed"} THEN run.last ELSE run.at
  IN  \/ at \in {"stage", "build", "runtime"}
      \/ at \in {"manifest", "done"} /\ run.kind = "core" /\ ~run.only
FreeAfterCompile == PastCompile => disk.drive = "free"

(* A mismatched source checkout is rejected rather than deleted            *)
(* (docs/ocgcore/00_bootstrap.md): no run touches one it finds.            *)
SourceKept == disk.source = "broken" => disk'.source = "broken"

(* What a bootstrap that failed or was killed leaves behind: no run that   *)
(* returns is corrupted by it; it blocks a later run only as a source that *)
(* was being copied or as a drive that was not released; an installation   *)
(* that worked is lost only while its runtime is replaced; and no source   *)
(* checkout is deleted or repaired on the way.                             *)
BootstrapRecovers ==
  [][/\ FinishedVerifies'
     /\ BlockedOnlyByKnown'
     /\ InstallSurvives'
     /\ DriveReleased'
     /\ FreeAfterCompile'
     /\ SourceKept]_cbVars

=============================================================================
