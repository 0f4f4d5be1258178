--------------------------- MODULE DesktopDataProofs ---------------------------
(***************************************************************************)
(* Proofs about the stores of DesktopData and the services over them, for  *)
(* any number of processes, files, rows, manifests, decks and calls, and   *)
(* any queries, cursors and observations.                                  *)
(***************************************************************************)
EXTENDS DesktopData, FiniteSetTheorems, SequenceTheorems, TLAPS

-----------------------------------------------------------------------------
(* The aggregation dataset. *)

Operations == {"none", "ingest", "compaction", "migration", "rollback", "activate", "read"}

ProcStates ==
  [at : Places, op : Operations,
   batch : SUBSET Batches, base : Nat, target : Nat, expects : BOOLEAN,
   activate : BOOLEAN, manifest : Manifests \cup {NoManifest}, read : Rows]

\* A snapshot, published or still in a builder's hands, that holds the rows of
\* the files it tracks and keeps those of its parent.
Built(m) ==
  /\ Covers(m) /\ m.sources # {}
  /\ m.parent <= Len(snapshots)
  /\ m.parent # 0 => Extends(m, snapshots[m.parent])

\* What a reader was given.
Whole(read) ==
  \E F \in SUBSET files :
    Disjoint(F) /\ [i \in DOMAIN read |-> read[i].core] = View!CoreOf(F)

\* What a process has read still holds when it uses it: the run of its batch
\* is complete, its file is there before it is registered, its manifest is
\* built of files that are there, and its snapshots exist.
StillTrue(q) ==
  /\ q \in ProcStates
  /\ q.base <= Len(snapshots) /\ q.target <= Len(snapshots)
  /\ q.at \in {"ingest_check", "ingest_write", "ingest_register"} =>
       \E b \in Batches : q.batch = {b} /\ runs[b.run] = "complete"
  /\ q.at = "ingest_register" => q.batch \subseteq files
  /\ q.at \in {"gather", "stage", "rename"} => q.op \in {"compaction", "migration"}
  /\ q.at \in {"stage", "rename"} => q.manifest \in Manifests /\ Built(q.manifest)
  /\ q.at \in {"activate", "replace"} => q.target # 0
  /\ q.at = "read_snapshot" => q.base # 0
  /\ Whole(q.read)

DiskOK ==
  /\ runs \in [Runs -> RunStatus]
  /\ files \in SUBSET Batches /\ registered \in SUBSET Batches
  /\ snapshots \in Seq(Manifests)
  /\ pointer \in 0 .. Len(snapshots)
  /\ \A s \in 1 .. Len(snapshots), m \in Manifests :
       m = snapshots[s] => Built(m) /\ m.parent < s
  /\ CatalogNamesFiles

SnInv ==
  /\ DiskOK
  /\ proc \in [Procs -> ProcStates]
  /\ \A p \in Procs, q \in ProcStates : q = proc[p] => StillTrue(q)
  /\ stage \in SUBSET Procs /\ orphans \in Nat
  /\ ops \in 0 .. MaxOps /\ crashes \in 0 .. MaxCrashes
  /\ StagesReleased

-----------------------------------------------------------------------------
(* Rows of files. *)

\* In files that share no identity every row is the one of its own file.
LEMMA CoreIsOwn ==
  ASSUME NEW F, Disjoint(F), NEW b \in F, NEW i \in Ids(b)
  PROVE  i \in IdsOf(F) /\ View!CoreOf(F)[i] = b.rows[i]
<1> USE DEF Ids, IdsOf, Disjoint, View!Ids, View!IdsOf, View!Disjoint
<1>1. i \in IdsOf(F) OBVIOUS
<1>2. View!CoreOf(F)[i] = (CHOOSE c \in F : i \in Ids(c)).rows[i]
  BY <1>1 DEF View!CoreOf
<1>3. ASSUME NEW c \in F, i \in Ids(c) PROVE c = b BY <1>3
<1>4. (CHOOSE c \in F : i \in Ids(c)) = b BY <1>3
<1> QED BY <1>1, <1>2, <1>4

LEMMA OwnerOf ==
  ASSUME NEW F, NEW i \in IdsOf(F)
  PROVE  \E b \in F : i \in Ids(b)
BY DEF Ids, IdsOf, View!Ids, View!IdsOf

LEMMA CoreDomain ==
  ASSUME NEW F
  PROVE  DOMAIN View!CoreOf(F) = IdsOf(F) /\ DOMAIN RowsOf(F) = IdsOf(F)
BY DEF RowsOf, IdsOf, View!CoreOf

\* The rows of ingest files are rows.
LEMMA RowsOfType ==
  ASSUME NEW F \in SUBSET Batches, Disjoint(F)
  PROVE  RowsOf(F) \in Rows
<1>1. ASSUME NEW i \in IdsOf(F)
      PROVE  i \in IdsOf(Batches) /\ View!CoreOf(F)[i] \in Metrics
  <2>1. PICK b \in F : i \in Ids(b) BY OwnerOf
  <2>2. View!CoreOf(F)[i] = b.rows[i] BY <2>1, CoreIsOwn
  <2>3. i \in IdsOf(Batches) BY <2>1 DEF IdsOf, Ids, View!IdsOf, View!Ids
  <2> QED BY <2>1, <2>2, <2>3 DEF Metrics
<1>2. IdsOf(F) \in SUBSET IdsOf(Batches) BY <1>1
<1>3. FALSE \in BOOLEAN OBVIOUS
<1>4. RowsOf(F) \in [IdsOf(F) -> [core : Metrics, derived : BOOLEAN]]
  BY <1>1, <1>3 DEF RowsOf
<1> QED BY <1>2, <1>4 DEF Rows

\* A snapshot's rows are the rows of its files.
LEMMA CoversWhole ==
  ASSUME NEW m, Covers(m)
  PROVE  Whole(m.rows)
<1> DEFINE F == m.sources
<1>1. F \in SUBSET files /\ Disjoint(F) /\ DOMAIN m.rows = IdsOf(F) BY DEF Covers
<1>2. ASSUME NEW i \in IdsOf(F) PROVE m.rows[i].core = View!CoreOf(F)[i]
  <2>1. PICK b \in F : i \in Ids(b) BY <1>2, OwnerOf
  <2>2. View!CoreOf(F)[i] = b.rows[i] BY <1>1, <2>1, CoreIsOwn
  <2> QED BY <2>1, <2>2 DEF Covers
<1>3. [i \in DOMAIN m.rows |-> m.rows[i].core] = View!CoreOf(F)
  BY <1>1, <1>2 DEF View!CoreOf, IdsOf
<1> QED BY <1>1, <1>3 DEF Whole

LEMMA FilesWhole ==
  ASSUME Disjoint(files)
  PROVE  Whole(RowsOf(files))
<1>1. [i \in DOMAIN RowsOf(files) |-> RowsOf(files)[i].core] = View!CoreOf(files)
  BY DEF RowsOf, IdsOf, View!CoreOf
<1> QED BY <1>1 DEF Whole

LEMMA NothingWhole == <<>> \in Rows /\ Whole(<<>>)
<1>1. IdsOf({}) = {} /\ DOMAIN <<>> = {} BY DEF IdsOf, View!IdsOf
<1>2. [i \in DOMAIN <<>> |-> <<>>[i].core] = View!CoreOf({})
  BY <1>1 DEF View!CoreOf, IdsOf
<1>3. Disjoint({}) /\ {} \in SUBSET files BY DEF Disjoint, View!Disjoint
<1>4. <<>> \in [{} -> [core : Metrics, derived : BOOLEAN]] OBVIOUS
<1> QED BY <1>2, <1>3, <1>4 DEF Whole, Rows


-----------------------------------------------------------------------------
(* The dataset only grows. *)

Grows ==
  /\ \A r \in Runs : runs[r] = "complete" => runs'[r] = "complete"
  /\ files \subseteq files'
  /\ snapshots' = snapshots \/ \E m \in Manifests : snapshots' = Append(snapshots, m)

LEMMA GrownSnapshots ==
  ASSUME DiskOK, Grows
  PROVE  /\ Len(snapshots) \in Nat /\ Len(snapshots') \in Nat
         /\ Len(snapshots) <= Len(snapshots')
         /\ \A s \in 1 .. Len(snapshots) : snapshots'[s] = snapshots[s]
BY DEF DiskOK, Grows

LEMMA BuiltKept ==
  ASSUME DiskOK, Grows, NEW m \in Manifests, Built(m)
  PROVE  Built(m)'
<1>1. m.parent \in Nat BY DEF Manifests
<1>2. Covers(m)' BY DEF Built, Covers, Grows
<1>3. m.parent # 0 => snapshots'[m.parent] = snapshots[m.parent]
  BY <1>1, GrownSnapshots DEF Built
<1>4. m.parent <= Len(snapshots') BY <1>1, GrownSnapshots DEF Built
<1> QED BY <1>2, <1>3, <1>4 DEF Built

LEMMA StillTrueKept ==
  ASSUME DiskOK, Grows, NEW q, StillTrue(q)
  PROVE  StillTrue(q)'
<1>1. q.base <= Len(snapshots') /\ q.target <= Len(snapshots')
  BY GrownSnapshots DEF StillTrue, ProcStates
<1>2. q.at \in {"ingest_check", "ingest_write", "ingest_register"} =>
        \E b \in Batches : q.batch = {b} /\ runs'[b.run] = "complete"
  BY DEF StillTrue, Grows, Runs
<1>3. q.at \in {"stage", "rename"} => q.manifest \in Manifests /\ Built(q.manifest)'
  BY BuiltKept DEF StillTrue
<1>4. Whole(q.read)' BY DEF StillTrue, Whole, Grows
<1>5. q.at = "ingest_register" => q.batch \subseteq files' BY DEF StillTrue, Grows
<1> QED BY <1>1, <1>2, <1>3, <1>4, <1>5 DEF StillTrue

LEMMA IdleTyped == Idle \in ProcStates
<1>1. NoManifest \in Manifests \cup {NoManifest} /\ "idle" \in Places BY DEF Places
<1>2. FALSE \in BOOLEAN /\ {} \in SUBSET Batches OBVIOUS
<1>3. <<>> \in Rows BY NothingWhole
<1> QED BY <1>1, <1>2, <1>3 DEF Idle, ProcStates, Operations

\* A process that is idle or has only begun its operation.
LEMMA BegunStillTrue ==
  ASSUME DiskOK, NEW q \in ProcStates, q.base <= Len(snapshots), q.target <= Len(snapshots),
         q.at \in {"idle", "ingest_check", "gather", "activate", "read_snapshot",
                   "read_files"},
         q.at = "ingest_check" =>
           \E b \in Batches : q.batch = {b} /\ runs[b.run] = "complete",
         q.at = "gather" => q.op \in {"compaction", "migration"},
         q.at = "activate" => q.target # 0, q.at = "read_snapshot" => q.base # 0,
         q.read = <<>>
  PROVE  StillTrue(q)
BY NothingWhole DEF StillTrue

LEMMA IdleStillTrue == DiskOK => StillTrue(Idle)
<1>1. /\ Idle.at = "idle" /\ Idle.base = 0 /\ Idle.target = 0 /\ Idle.read = <<>>
  BY DEF Idle
<1>2. DiskOK => Len(snapshots) \in Nat BY DEF DiskOK
<1> QED BY <1>1, <1>2, IdleTyped, BegunStillTrue

\* A step that puts process p into state q while the disk grows or stays.
LEMMA GrowsAndMoves ==
  ASSUME SnInv, NEW p \in Procs, NEW q, StillTrue(q)', proc' = [proc EXCEPT ![p] = q],
         Grows, DiskOK', stage' \in SUBSET Procs, orphans' \in Nat,
         ops' \in 0 .. MaxOps, crashes' \in 0 .. MaxCrashes,
         \A r \in stage' : IF r = p THEN q.at = "rename" ELSE r \in stage,
         orphans' <= crashes'
  PROVE  SnInv'
<1>1. ASSUME NEW r \in Procs, NEW x \in ProcStates, x = proc'[r] PROVE StillTrue(x)'
  <2>1. CASE r = p
    <3>1. x = q BY <1>1, <2>1 DEF SnInv
    <3> QED BY <3>1
  <2>2. CASE r # p
    <3>1. StillTrue(x) BY <1>1, <2>2 DEF SnInv
    <3> QED BY <3>1, StillTrueKept DEF SnInv
  <2> QED BY <2>1, <2>2
<1>2. q \in ProcStates BY DEF StillTrue
<1>3. proc' \in [Procs -> ProcStates] BY <1>2 DEF SnInv
<1>4. StagesReleased' BY DEF SnInv, StagesReleased
<1> QED BY <1>1, <1>3, <1>4 DEF SnInv

\* A step that leaves the disk as it is, and puts process p into state q.
LEMMA Moves ==
  ASSUME SnInv, NEW p \in Procs, NEW q, StillTrue(q), proc' = [proc EXCEPT ![p] = q],
         UNCHANGED <<runs, files, registered, snapshots, pointer>>,
         stage' \in SUBSET Procs, orphans' \in Nat,
         ops' \in 0 .. MaxOps, crashes' \in 0 .. MaxCrashes,
         \A r \in stage' : IF r = p THEN q.at = "rename" ELSE r \in stage,
         orphans' <= crashes'
  PROVE  SnInv'
<1>1. DiskOK' /\ DiskOK BY DEF SnInv, DiskOK, CatalogNamesFiles, Built, Covers
<1>2. Grows BY DEF Grows
<1>3. StillTrue(q)' BY <1>1, <1>2, StillTrueKept
<1> QED BY <1>1, <1>2, <1>3, GrowsAndMoves

-----------------------------------------------------------------------------
(* Steps that leave the disk as it is. *)

\* The parts of the invariant that the arguments below read.
LEMMA SnFacts ==
  ASSUME SnInv
  PROVE  /\ DiskOK /\ StagesReleased
         /\ snapshots \in Seq(Manifests) /\ Len(snapshots) \in Nat
         /\ pointer \in 0 .. Len(snapshots)
         /\ \A p \in Procs : proc[p] \in ProcStates /\ StillTrue(proc[p])
         /\ stage \in SUBSET Procs /\ orphans \in Nat
         /\ ops \in 0 .. MaxOps /\ crashes \in 0 .. MaxCrashes
         /\ orphans <= crashes
BY DEF SnInv, DiskOK, StagesReleased

LEMMA RaiseStep ==
  ASSUME SnInv, NEW p \in Procs, Raise(p)
  PROVE  SnInv'
<1>1. StillTrue(Idle) BY SnFacts, IdleStillTrue
<1>2. \A r \in stage' : r # p /\ r \in stage BY DEF Raise
<1> QED BY <1>1, <1>2, SnFacts, Moves DEF Raise, Done

LEMMA CrashStep ==
  ASSUME SnInv, NEW p \in Procs, Crash(p)
  PROVE  SnInv'
<1>1. StillTrue(Idle) BY SnFacts, IdleStillTrue
<1>2. \A r \in stage' : r # p /\ r \in stage BY DEF Crash
<1>3. crashes' \in 0 .. MaxCrashes /\ orphans' \in Nat /\ orphans' <= crashes'
  BY SnFacts, SnapshotBounds DEF Crash
<1> QED BY <1>1, <1>2, <1>3, SnFacts, Moves DEF Crash, Done

\* A process starts an operation, or goes on with it, without a stage.
LEMMA StartStep ==
  ASSUME SnInv, NEW p \in Procs, NEW q, StillTrue(q), Start(p, q)
  PROVE  SnInv'
<1>1. p \notin stage BY SnFacts DEF Start, StagesReleased
<1>2. ops' \in 0 .. MaxOps BY SnFacts, SnapshotBounds DEF Start
<1> QED BY <1>1, <1>2, SnFacts, Moves DEF Start

LEMMA GoOnStep ==
  ASSUME SnInv, NEW p \in Procs, NEW q, StillTrue(q), proc[p].at # "rename",
         proc' = [proc EXCEPT ![p] = q],
         UNCHANGED <<runs, files, registered, snapshots, pointer, stage, orphans, ops,
                     crashes>>
  PROVE  SnInv'
<1>1. p \notin stage BY SnFacts DEF StagesReleased
<1> QED BY <1>1, SnFacts, Moves

LEMMA BeginStep ==
  ASSUME SnInv, NEW p \in Procs, Begin(p)
  PROVE  SnInv'
<1>f. /\ Len(snapshots) \in Nat /\ DiskOK /\ 0 <= Len(snapshots)
      /\ pointer \in 0 .. Len(snapshots) /\ DOMAIN snapshots = 1 .. Len(snapshots)
  BY SnFacts
<1>1. ASSUME NEW b \in Batches, BeginIngest(p, b) PROVE SnInv'
  <2> DEFINE q == [Idle EXCEPT !.at = "ingest_check", !.op = "ingest", !.batch = {b}]
  <2>1. q \in ProcStates BY IdleTyped DEF ProcStates, Places, Operations
  <2>2. /\ q.at = "ingest_check" /\ q.batch = {b}
        /\ q.base = 0 /\ q.target = 0 /\ q.read = <<>> BY DEF Idle
  <2>3. Start(p, q) /\ runs[b.run] = "complete" BY <1>1 DEF BeginIngest
  <2> HIDE DEF q
  <2>4. StillTrue(q) BY <1>f, <2>1, <2>2, <2>3, BegunStillTrue
  <2> QED BY <2>3, <2>4, StartStep
<1>2. ASSUME NEW op \in {"compaction", "migration"}, NEW a \in BOOLEAN,
             NEW s \in 0 .. Len(snapshots),
             Start(p, [Idle EXCEPT !.at = "gather", !.op = op, !.activate = a,
                                   !.base = s, !.expects = TRUE])
      PROVE  SnInv'
  <2> DEFINE q == [Idle EXCEPT !.at = "gather", !.op = op, !.activate = a,
                               !.base = s, !.expects = TRUE]
  <2>0. s \in Nat /\ "gather" \in Places /\ op \in Operations
    BY <1>f DEF Places, Operations
  <2>1. q \in ProcStates BY <2>0, IdleTyped DEF ProcStates
  <2>2. q.at = "gather" /\ q.op = op /\ q.base = s /\ q.target = 0 /\ q.read = <<>>
    BY DEF Idle
  <2>3. Start(p, q) BY <1>2
  <2> HIDE DEF q
  <2>4. StillTrue(q) BY <1>f, <2>1, <2>2, BegunStillTrue
  <2> QED BY <2>3, <2>4, StartStep
<1>3. ASSUME NEW s \in DOMAIN snapshots, NEW e \in DOMAIN snapshots,
             Start(p, [Idle EXCEPT !.at = "activate", !.op = "rollback", !.base = e,
                                   !.target = s, !.expects = TRUE])
      PROVE  SnInv'
  <2> DEFINE q == [Idle EXCEPT !.at = "activate", !.op = "rollback", !.base = e,
                               !.target = s, !.expects = TRUE]
  <2>0. s \in 1 .. Len(snapshots) /\ e \in 1 .. Len(snapshots) BY <1>f
  <2>t. s \in Nat /\ e \in Nat /\ "activate" \in Places /\ "rollback" \in Operations
    BY <1>f, <2>0 DEF Places, Operations
  <2>1. q \in ProcStates BY <2>t, IdleTyped DEF ProcStates
  <2>2. q.at = "activate" /\ q.base = e /\ q.target = s /\ q.read = <<>> BY DEF Idle
  <2>3. Start(p, q) BY <1>3
  <2> HIDE DEF q
  <2>4. StillTrue(q) BY <1>f, <2>0, <2>1, <2>2, BegunStillTrue
  <2> QED BY <2>3, <2>4, StartStep
<1>4. ASSUME NEW s \in DOMAIN snapshots,
             Start(p, [Idle EXCEPT !.at = "activate", !.op = "activate", !.target = s])
      PROVE  SnInv'
  <2> DEFINE q == [Idle EXCEPT !.at = "activate", !.op = "activate", !.target = s]
  <2>0. s \in 1 .. Len(snapshots) BY <1>f
  <2>t. s \in Nat /\ "activate" \in Places /\ "activate" \in Operations
    BY <1>f, <2>0 DEF Places, Operations
  <2>1. q \in ProcStates BY <2>t, IdleTyped DEF ProcStates
  <2>2. q.at = "activate" /\ q.base = 0 /\ q.target = s /\ q.read = <<>> BY DEF Idle
  <2>3. Start(p, q) BY <1>4
  <2> HIDE DEF q
  <2>4. StillTrue(q) BY <1>f, <2>0, <2>1, <2>2, BegunStillTrue
  <2> QED BY <2>3, <2>4, StartStep
<1>5. CASE BeginRead(p)
  <2> DEFINE at == IF pointer = 0 THEN "read_files" ELSE "read_snapshot"
             q == [Idle EXCEPT !.at = at, !.op = "read", !.base = pointer]
  <2>1. Start(p, q) BY <1>5 DEF BeginRead
  <2>2. at \in {"read_files", "read_snapshot"} /\ (at = "read_snapshot" => pointer # 0)
    OBVIOUS
  <2> HIDE DEF at
  <2>t. pointer \in Nat /\ at \in Places /\ "read" \in Operations
    BY <1>f, <2>2 DEF Places, Operations
  <2>3. q \in ProcStates BY <2>t, IdleTyped DEF ProcStates
  <2>4. q.at = at /\ q.base = pointer /\ q.target = 0 /\ q.read = <<>> BY DEF Idle
  <2> HIDE DEF q
  <2>5. StillTrue(q) BY <1>f, <2>2, <2>3, <2>4, BegunStillTrue
  <2> QED BY <2>1, <2>5, StartStep
<1>6. ASSUME NEW b \in Batches PROVE BeginIngest(p, b) => SnInv' BY <1>1
<1>7. ASSUME NEW op \in {"compaction", "migration"}, NEW a \in BOOLEAN
      PROVE  BeginBuild(p, op, a) => SnInv'
  <2>1. DOMAIN snapshots \subseteq 0 .. Len(snapshots) BY <1>f
  <2> QED BY <1>2, <1>f, <2>1 DEF BeginBuild
<1>8. BeginRollback(p) => SnInv' BY <1>3 DEF BeginRollback
<1>9. BeginActivate(p) => SnInv' BY <1>4 DEF BeginActivate
<1> QED BY <1>5, <1>6, <1>7, <1>8, <1>9 DEF Begin

-----------------------------------------------------------------------------
(* Steps of an operation that leave the disk as it is. *)

\* A process that goes on to another place with what it already holds.
LEMMA AtMoved ==
  ASSUME NEW k, StillTrue(k),
         NEW at \in {"ingest_write", "ingest_register", "rename", "replace"},
         at \in {"ingest_write", "ingest_register"} =>
           \E b \in Batches : k.batch = {b} /\ runs[b.run] = "complete",
         at = "ingest_register" => k.batch \subseteq files,
         at = "rename" => k.at = "stage",
         at = "replace" => k.target # 0
  PROVE  StillTrue([k EXCEPT !.at = at])
<1> DEFINE q == [k EXCEPT !.at = at]
<1>1. at \in Places /\ k \in ProcStates BY DEF Places, StillTrue
<1>2. q \in ProcStates BY <1>1 DEF ProcStates
<1>3. /\ q.at = at /\ q.op = k.op /\ q.batch = k.batch /\ q.base = k.base
      /\ q.target = k.target /\ q.manifest = k.manifest /\ q.read = k.read
  BY <1>1 DEF ProcStates
<1> HIDE DEF q
<1>4. StillTrue(q) BY <1>2, <1>3 DEF StillTrue
<1> QED BY <1>4 DEF q

LEMMA GotoIs ==
  ASSUME NEW p, NEW place, Goto(p, place)
  PROVE  proc' = [proc EXCEPT ![p] = [proc[p] EXCEPT !.at = place]]
BY DEF Goto

LEMMA IngestCheckStep ==
  ASSUME SnInv, NEW p \in Procs, IngestCheck(p)
  PROVE  SnInv'
<1>1. StillTrue(proc[p]) /\ proc[p].at = "ingest_check" BY SnFacts DEF IngestCheck
<1>2. PICK b \in Batches : proc[p].batch = {b} /\ runs[b.run] = "complete"
  BY <1>1 DEF StillTrue
<1>3. (CHOOSE c \in proc[p].batch : TRUE) = b BY <1>2
<1>4. ASSUME NEW at \in {"ingest_write", "ingest_register"},
             at = "ingest_register" => b \in files, Goto(p, at),
             UNCHANGED <<runs, files, registered, snapshots, pointer, stage, orphans, ops,
                         crashes>>
      PROVE  SnInv'
  <2>1. StillTrue([proc[p] EXCEPT !.at = at]) BY <1>1, <1>2, <1>4, AtMoved
  <2> QED BY <1>1, <1>4, <2>1, GotoIs, GoOnStep
<1> QED BY <1>3, <1>4, RaiseStep DEF IngestCheck

LEMMA StageStep ==
  ASSUME SnInv, NEW p \in Procs, StageSnapshot(p)
  PROVE  SnInv'
<1>1. CASE Raise(p) BY <1>1, RaiseStep
<1>2. CASE /\ stage' = stage \cup {p} /\ Goto(p, "rename")
           /\ UNCHANGED <<runs, files, registered, snapshots, pointer, orphans, ops, crashes>>
  <2> DEFINE q == [proc[p] EXCEPT !.at = "rename"]
  <2>1. StillTrue(proc[p]) /\ proc[p].at = "stage" /\ proc[p] \in ProcStates
    BY SnFacts DEF StageSnapshot
  <2>2. StillTrue(q) BY <2>1, AtMoved
  <2>3. q.at = "rename" BY <2>1 DEF ProcStates
  <2>4. proc' = [proc EXCEPT ![p] = q] BY <1>2, GotoIs
  <2> HIDE DEF q
  <2> QED BY <1>2, <2>2, <2>3, <2>4, SnFacts, Moves
<1> QED BY <1>1, <1>2 DEF StageSnapshot

LEMMA ActivateCheckStep ==
  ASSUME SnInv, NEW p \in Procs, ActivateCheck(p)
  PROVE  SnInv'
<1>1. CASE Raise(p) BY <1>1, RaiseStep
<1>2. CASE /\ Goto(p, "replace")
           /\ UNCHANGED <<runs, files, registered, snapshots, pointer, stage, orphans, ops,
                          crashes>>
  <2>1. StillTrue(proc[p]) /\ proc[p].at = "activate" /\ proc[p].target # 0
    BY SnFacts DEF ActivateCheck, StillTrue
  <2>2. StillTrue([proc[p] EXCEPT !.at = "replace"]) BY <2>1, AtMoved
  <2> QED BY <1>2, <2>1, <2>2, GotoIs, GoOnStep
<1> QED BY <1>1, <1>2 DEF ActivateCheck

\* A process that is done with a read.
LEMMA ReadStillTrue ==
  ASSUME DiskOK, NEW read \in Rows, Whole(read)
  PROVE  StillTrue([Idle EXCEPT !.read = read])
<1> DEFINE q == [Idle EXCEPT !.read = read]
<1>1. q \in ProcStates BY IdleTyped DEF ProcStates
<1>2. q.at = "idle" /\ q.base = 0 /\ q.target = 0 /\ q.read = read BY DEF Idle
<1>3. Len(snapshots) \in Nat BY DEF DiskOK
<1> HIDE DEF q
<1>4. StillTrue(q) BY <1>1, <1>2, <1>3 DEF StillTrue
<1> QED BY <1>4 DEF q

LEMMA ReadStep ==
  ASSUME SnInv, NEW p \in Procs, ReadSnapshot(p) \/ ReadFiles(p)
  PROVE  SnInv'
<1>1. CASE ReadSnapshot(p)
  <2> DEFINE m == snapshots[proc[p].base]
  <2>1. proc[p].base \in 1 .. Len(snapshots)
    BY <1>1, SnFacts DEF ReadSnapshot, StillTrue, ProcStates
  <2>2. Built(m) /\ m \in Manifests BY <2>1, SnFacts DEF DiskOK
  <2>3. m.rows \in Rows /\ Whole(m.rows) BY <2>2, CoversWhole DEF Built, Manifests
  <2>4. StillTrue([Idle EXCEPT !.read = m.rows]) BY <2>3, SnFacts, ReadStillTrue
  <2> QED BY <1>1, <2>4, GoOnStep DEF ReadSnapshot
<1>2. CASE ReadFiles(p)
  <2>1. ASSUME Disjoint(files) PROVE StillTrue([Idle EXCEPT !.read = RowsOf(files)])
    <3>1. files \in SUBSET Batches BY SnFacts DEF DiskOK
    <3>2. RowsOf(files) \in Rows /\ Whole(RowsOf(files))
      BY <2>1, <3>1, RowsOfType, FilesWhole
    <3> QED BY <3>2, SnFacts, ReadStillTrue
  <2>2. proc[p].at = "read_files" BY <1>2 DEF ReadFiles
  <2> QED BY <1>2, <2>1, <2>2, GoOnStep, RaiseStep DEF ReadFiles
<1> QED BY <1>1, <1>2

-----------------------------------------------------------------------------
(* Steps that change the disk. *)

\* Runs and files arrive, rows are registered, the pointer moves.
LEMMA DiskArrives ==
  ASSUME DiskOK, Grows, UNCHANGED snapshots, runs' \in [Runs -> RunStatus],
         files' \in SUBSET Batches, registered' \in SUBSET Batches,
         pointer' \in 0 .. Len(snapshots),
         \A b \in registered' \ registered : b \in files /\ runs[b.run] = "complete"
  PROVE  DiskOK'
<1>1. ASSUME NEW s \in 1 .. Len(snapshots), NEW m \in Manifests, m = snapshots'[s]
      PROVE  Built(m)' /\ m.parent < s
  <2>1. Built(m) /\ m.parent < s BY <1>1 DEF DiskOK
  <2> QED BY <2>1, BuiltKept
<1>2. CatalogNamesFiles'
  <2>1. ASSUME NEW b \in registered' PROVE b \in files' /\ runs'[b.run] = "complete"
    <3>1. b \in files /\ runs[b.run] = "complete" BY <2>1 DEF DiskOK, CatalogNamesFiles
    <3>2. b.run \in Runs BY DEF Runs
    <3> QED BY <3>1, <3>2 DEF Grows
  <2> QED BY <2>1 DEF CatalogNamesFiles
<1>3. snapshots' \in Seq(Manifests) /\ Len(snapshots') = Len(snapshots) BY DEF DiskOK
<1> QED BY <1>1, <1>2, <1>3 DEF DiskOK

LEMMA RunStep ==
  ASSUME SnInv, NEW r \in Runs, CreateRun(r) \/ FinishRun(r)
  PROVE  SnInv'
<1>1. /\ UNCHANGED <<files, registered, snapshots, pointer, stage, orphans, proc, ops, crashes>>
      /\ runs[r] \in {"none", "running"}
      /\ \E v \in RunStatus : runs' = [runs EXCEPT ![r] = v]
  BY DEF CreateRun, FinishRun, RunStatus
<1>2. runs \in [Runs -> RunStatus] /\ files \in SUBSET Batches /\ registered \in SUBSET Batches
  BY SnFacts DEF DiskOK
<1>3. runs' \in [Runs -> RunStatus] /\ Grows BY <1>1, <1>2 DEF Grows
<1>4. DiskOK' BY <1>1, <1>2, <1>3, SnFacts, DiskArrives
<1>5. ASSUME NEW p \in Procs, NEW x \in ProcStates, x = proc[p] PROVE StillTrue(x)'
  BY <1>3, <1>5, StillTrueKept, SnFacts DEF SnInv
<1>6. StagesReleased' BY <1>1 DEF SnInv, StagesReleased
<1> QED BY <1>1, <1>4, <1>5, <1>6 DEF SnInv

LEMMA IngestWriteStep ==
  ASSUME SnInv, NEW p \in Procs, IngestWrite(p)
  PROVE  SnInv'
<1> SUFFICES ASSUME NEW q, q = [proc[p] EXCEPT !.at = "ingest_register"]
             PROVE  SnInv' OBVIOUS
<1>1. StillTrue(proc[p]) /\ proc[p] \in ProcStates /\ proc[p].at = "ingest_write"
  BY SnFacts DEF IngestWrite
<1>2. PICK b \in Batches : proc[p].batch = {b} /\ runs[b.run] = "complete"
  BY <1>1 DEF StillTrue
<1>3. /\ files' = files \cup {b} /\ proc' = [proc EXCEPT ![p] = q]
      /\ UNCHANGED <<runs, registered, snapshots, pointer, stage, orphans, ops, crashes>>
  BY <1>2, GotoIs DEF IngestWrite
<1>4. /\ runs \in [Runs -> RunStatus] /\ files \in SUBSET Batches
      /\ registered \in SUBSET Batches BY SnFacts DEF DiskOK
<1>5. Grows BY <1>3 DEF Grows
<1>6. DiskOK' BY <1>3, <1>4, <1>5, SnFacts, DiskArrives
<1>7. StillTrue(q)'
  <2>1. q \in ProcStates BY <1>1 DEF ProcStates, Places
  <2>2. /\ q.at = "ingest_register" /\ q.batch = {b} /\ q.base = proc[p].base
        /\ q.target = proc[p].target /\ q.read = proc[p].read
    BY <1>1, <1>2 DEF ProcStates
  <2>3. q.base <= Len(snapshots) /\ q.target <= Len(snapshots) /\ Whole(q.read)
    BY <1>1, <2>2 DEF StillTrue
  <2>4. Whole(q.read)' BY <2>3, <1>3 DEF Whole
  <2> QED BY <1>2, <1>3, <2>1, <2>2, <2>3, <2>4 DEF StillTrue
<1>8. p \notin stage BY <1>1, SnFacts DEF StagesReleased
<1> QED BY <1>3, <1>5, <1>6, <1>7, <1>8, SnFacts, GrowsAndMoves

LEMMA IngestRegisterStep ==
  ASSUME SnInv, NEW p \in Procs, IngestRegister(p)
  PROVE  SnInv'
<1>1. StillTrue(proc[p]) /\ proc[p] \in ProcStates /\ proc[p].at = "ingest_register"
  BY SnFacts DEF IngestRegister
<1>2. PICK b \in Batches : proc[p].batch = {b} /\ runs[b.run] = "complete"
  BY <1>1 DEF StillTrue
<1>3. /\ registered' = registered \cup {b} /\ proc' = [proc EXCEPT ![p] = Idle]
      /\ UNCHANGED <<runs, files, snapshots, pointer, stage, orphans, ops, crashes>>
      /\ b \in files BY <1>1, <1>2 DEF IngestRegister, Done, StillTrue
<1>4. /\ runs \in [Runs -> RunStatus] /\ files \in SUBSET Batches
      /\ registered \in SUBSET Batches BY SnFacts DEF DiskOK
<1>5. Grows BY <1>3 DEF Grows
<1>6. DiskOK' BY <1>2, <1>3, <1>4, <1>5, SnFacts, DiskArrives
<1>7. StillTrue(Idle)' BY <1>5, IdleStillTrue, SnFacts, StillTrueKept
<1>8. p \notin stage BY <1>1, SnFacts DEF StagesReleased
<1> QED BY <1>3, <1>5, <1>6, <1>7, <1>8, SnFacts, GrowsAndMoves

LEMMA ReplaceStep ==
  ASSUME SnInv, NEW p \in Procs, ReplacePointer(p)
  PROVE  SnInv'
<1>1. StillTrue(proc[p]) /\ proc[p] \in ProcStates /\ proc[p].at = "replace"
  BY SnFacts DEF ReplacePointer
<1>2. CASE Raise(p) BY <1>2, RaiseStep
<1>3. CASE /\ pointer' = proc[p].target /\ Done(p)
           /\ UNCHANGED <<runs, files, registered, snapshots, stage, orphans, ops, crashes>>
  <2>1. Grows BY <1>3 DEF Grows
  <2>2. pointer' \in 0 .. Len(snapshots)
    BY <1>1, <1>3, SnFacts DEF StillTrue, ProcStates
  <2>3. DiskOK' BY <1>3, <2>1, <2>2, SnFacts, DiskArrives DEF DiskOK
  <2>4. StillTrue(Idle)' BY <2>1, IdleStillTrue, SnFacts, StillTrueKept
  <2>5. p \notin stage BY <1>1, SnFacts DEF StagesReleased
  <2> QED BY <1>3, <2>1, <2>3, <2>4, <2>5, SnFacts, GrowsAndMoves DEF Done
<1> QED BY <1>2, <1>3 DEF ReplacePointer

-----------------------------------------------------------------------------
(* A build. *)

RowType(F) == [IdsOf(F) -> [core : Metrics, derived : BOOLEAN]]

LEMMA RowTypeRows ==
  ASSUME NEW F \in SUBSET Batches
  PROVE  RowType(F) \subseteq Rows /\ IdsOf(F) \subseteq IdsOf(Batches)
<1>1. IdsOf(F) \in SUBSET IdsOf(Batches) BY DEF IdsOf, View!IdsOf
<1> QED BY <1>1 DEF Rows, RowType

\* The base of a build and the files it does not track make up all files.
LEMMA BaseOK ==
  ASSUME DiskOK, NEW s \in 0 .. Len(snapshots), ~GatherFails(s)
  PROVE  /\ BaseSources(s) \cup Deltas(s) = files
         /\ Disjoint(BaseSources(s)) /\ Disjoint(Deltas(s)) /\ files # {}
         /\ DOMAIN BaseRows(s) = IdsOf(BaseSources(s))
         /\ IdsOf(Deltas(s)) \cap IdsOf(BaseSources(s)) = {}
         /\ \A b \in BaseSources(s) : \A i \in Ids(b) : BaseRows(s)[i].core = b.rows[i]
         /\ BaseRows(s) \in RowType(BaseSources(s))
<1>1. CASE s = 0
  <2>1. BaseSources(s) = {} /\ BaseRows(s) = <<>> /\ IdsOf({}) = {}
    BY <1>1 DEF BaseSources, BaseRows, IdsOf, View!IdsOf
  <2>2. Disjoint({}) BY DEF Disjoint, View!Disjoint
  <2>3. <<>> \in [{} -> [core : Metrics, derived : BOOLEAN]] /\ DOMAIN <<>> = {}
    OBVIOUS
  <2> QED BY <2>1, <2>2, <2>3 DEF GatherFails, Deltas, RowType
<1>2. CASE s # 0
  <2>0. PICK m \in Manifests : m = snapshots[s] BY <1>2 DEF DiskOK
  <2>1. Covers(m) /\ m.rows \in Rows /\ DOMAIN m.rows = IdsOf(m.sources)
    BY <1>2, <2>0 DEF DiskOK, Built, Covers, Manifests
  <2>2. BaseSources(s) = m.sources /\ BaseRows(s) = m.rows
    BY <1>2, <2>0 DEF BaseSources, BaseRows
  <2>3. m.rows \in RowType(m.sources) BY <2>1 DEF Rows, RowType
  <2> QED BY <2>1, <2>2, <2>3 DEF Covers, GatherFails, Deltas
<1> QED BY <1>1, <1>2

\* The rows a build starts from.
LEMMA MergedRows ==
  ASSUME DiskOK, NEW s \in 0 .. Len(snapshots), ~GatherFails(s),
         NEW rows, rows = Merge(BaseRows(s), RowsOf(Deltas(s)))
  PROVE  /\ Disjoint(files) /\ rows \in RowType(files)
         /\ \A b \in files : \A i \in Ids(b) : rows[i].core = b.rows[i]
         /\ \A i \in IdsOf(BaseSources(s)) : i \in IdsOf(files) /\ rows[i] = BaseRows(s)[i]
<1> DEFINE B == BaseSources(s)
           D == Deltas(s)
<1> HIDE DEF B, D
<1>1. /\ B \cup D = files /\ Disjoint(B) /\ Disjoint(D)
      /\ DOMAIN BaseRows(s) = IdsOf(B) /\ IdsOf(D) \cap IdsOf(B) = {}
      /\ \A b \in B : \A i \in Ids(b) : BaseRows(s)[i].core = b.rows[i]
      /\ BaseRows(s) \in RowType(B) /\ files \in SUBSET Batches
  BY BaseOK DEF B, D, DiskOK
<1>2. IdsOf(files) = IdsOf(B) \cup IdsOf(D) BY <1>1 DEF IdsOf, View!IdsOf
<1>3. Disjoint(files)
  <2>1. ASSUME NEW b \in files, NEW c \in files, b # c, NEW i, i \in Ids(b), i \in Ids(c)
        PROVE  FALSE
    <3>1. /\ b \in B => i \in IdsOf(B)
          /\ c \in B => i \in IdsOf(B)
          /\ b \in D => i \in IdsOf(D)
          /\ c \in D => i \in IdsOf(D) BY <2>1 DEF IdsOf, Ids, View!IdsOf
    <3>2. b \in B \/ b \in D BY <1>1
    <3>3. c \in B \/ c \in D BY <1>1
    <3> QED BY <1>1, <2>1, <3>1, <3>2, <3>3 DEF Disjoint, View!Disjoint, Ids
  <2> QED BY <2>1 DEF Disjoint, View!Disjoint, Ids
<1>4. /\ DOMAIN RowsOf(D) = IdsOf(D) /\ RowsOf(D) \in RowType(D)
      /\ \A i \in IdsOf(D) : RowsOf(D)[i].core = View!CoreOf(D)[i]
  <2>1. D \in SUBSET Batches BY <1>1
  <2>2. RowsOf(D) \in Rows /\ DOMAIN RowsOf(D) = IdsOf(D)
    BY <1>1, <2>1, RowsOfType, CoreDomain
  <2> QED BY <2>2 DEF Rows, RowType, RowsOf
<1>5. /\ DOMAIN rows = IdsOf(files)
      /\ \A i \in IdsOf(B) : rows[i] = BaseRows(s)[i]
      /\ \A i \in IdsOf(D) : rows[i] = RowsOf(D)[i]
      /\ rows = [i \in IdsOf(files) |-> IF i \in IdsOf(B) THEN BaseRows(s)[i] ELSE RowsOf(D)[i]]
  BY <1>1, <1>2, <1>4 DEF Merge, D
<1>6. rows \in RowType(files) BY <1>1, <1>2, <1>4, <1>5 DEF RowType
<1>7. ASSUME NEW b \in files, NEW i \in Ids(b) PROVE rows[i].core = b.rows[i]
  <2>1. CASE b \in B
    <3>1. i \in IdsOf(B) BY <2>1 DEF IdsOf, Ids, View!IdsOf
    <3> QED BY <1>1, <1>5, <2>1, <3>1
  <2>2. CASE b \in D
    <3>1. i \in IdsOf(D) /\ View!CoreOf(D)[i] = b.rows[i] BY <1>1, <2>2, CoreIsOwn
    <3> QED BY <1>4, <1>5, <3>1
  <2> QED BY <1>1, <2>1, <2>2
<1> QED BY <1>2, <1>3, <1>5, <1>6, <1>7 DEF B

\* A transform that changes no core metric and takes no derived metric back.
KeepsMetrics(out, rows) ==
  \A i \in IdsOf(files) :
    /\ out[i].core = rows[i].core
    /\ rows[i].derived => out[i].derived

\* A transform that passes the semantic summary is one.
LEMMA Transformed ==
  ASSUME NEW rows \in RowType(files), NEW op \in {"compaction", "migration"},
         NEW out \in Transforms(op, rows),
         SummaryMatches(out, rows)
  PROVE  out \in RowType(files) /\ KeepsMetrics(out, rows)
<1>1. DOMAIN rows = IdsOf(files) /\ DOMAIN out = IdsOf(files)
  BY DEF RowType, SummaryMatches
<1>2. \A i \in IdsOf(files) : rows[i] \in [core : Metrics, derived : BOOLEAN]
  BY DEF RowType
<1>3. CASE out = rows BY <1>3, <1>1 DEF KeepsMetrics
<1>4. CASE out = [i \in DOMAIN rows |-> [rows[i] EXCEPT !.derived = TRUE]]
  <2>1. TRUE \in BOOLEAN OBVIOUS
  <2>2. ASSUME NEW i \in IdsOf(files)
        PROVE  /\ out[i] \in [core : Metrics, derived : BOOLEAN]
               /\ out[i].core = rows[i].core /\ out[i].derived
    BY <1>1, <1>2, <1>4, <2>1
  <2> QED BY <1>1, <1>4, <2>2 DEF RowType, KeepsMetrics
<1>5. CASE out = [i \in DOMAIN rows |-> [rows[i] EXCEPT !.core = Changed]]
  <2>1. ASSUME NEW i \in IdsOf(files)
        PROVE  /\ out[i] \in [core : Metrics, derived : BOOLEAN]
               /\ out[i].core = rows[i].core /\ rows[i].derived = out[i].derived
    <3>1. out[i].core = rows[i].core BY <1>1 DEF SummaryMatches
    <3>2. out[i] = [rows[i] EXCEPT !.core = Changed] BY <1>1, <1>5
    <3>3. rows[i] \in [core : Metrics, derived : BOOLEAN] BY <1>2
    <3> QED BY <3>1, <3>2, <3>3
  <2> QED BY <1>1, <1>5, <2>1 DEF RowType, KeepsMetrics
<1> QED BY <1>3, <1>4, <1>5 DEF Transforms

\* The manifest a build gathers.
LEMMA GatheredBuilt ==
  ASSUME DiskOK, NEW s \in 0 .. Len(snapshots), ~GatherFails(s),
         NEW op \in {"compaction", "migration"}, NEW p \in Procs,
         NEW rows, rows = Merge(BaseRows(s), RowsOf(Deltas(s))),
         NEW out \in Transforms(op, rows), SummaryMatches(out, rows),
         NEW m, m = [rows |-> out, sources |-> BaseSources(s) \cup Deltas(s),
                     parent |-> s, job |-> p, op |-> op]
  PROVE  m \in Manifests /\ Built(m)
<1>1. /\ files \in SUBSET Batches /\ files # {} /\ BaseSources(s) \cup Deltas(s) = files
      /\ s \in Nat /\ s <= Len(snapshots) BY BaseOK DEF DiskOK
<1>2. /\ Disjoint(files) /\ rows \in RowType(files)
      /\ \A b \in files : \A i \in Ids(b) : rows[i].core = b.rows[i]
      /\ \A i \in IdsOf(BaseSources(s)) : i \in IdsOf(files) /\ rows[i] = BaseRows(s)[i]
  BY MergedRows
<1>3. out \in RowType(files) /\ KeepsMetrics(out, rows) BY <1>2, Transformed
<1>4. m.rows = out /\ m.sources = files /\ m.parent = s /\ m.job = p /\ m.op = op
  BY <1>1
<1>5. m \in Manifests
  <2>1. out \in Rows BY <1>1, <1>3, RowTypeRows
  <2> QED BY <1>1, <2>1 DEF Manifests
<1>6. Covers(m)
  <2>1. DOMAIN out = IdsOf(files) BY <1>3 DEF RowType
  <2>2. ASSUME NEW b \in files, NEW i \in Ids(b) PROVE out[i].core = b.rows[i]
    <3>1. i \in IdsOf(files) BY DEF IdsOf, Ids, View!IdsOf
    <3> QED BY <1>2, <1>3, <3>1 DEF KeepsMetrics
  <2> QED BY <1>2, <1>4, <2>1, <2>2 DEF Covers
<1>7. ASSUME s # 0 PROVE Extends(m, snapshots[s])
  <2> DEFINE n == snapshots[s]
  <2>1. n.rows = BaseRows(s) /\ n.sources = BaseSources(s)
    BY <1>7 DEF BaseRows, BaseSources
  <2>2. DOMAIN n.rows = IdsOf(BaseSources(s)) /\ n.sources \subseteq files
    BY <1>1, <2>1, BaseOK
  <2>3. ASSUME NEW i \in DOMAIN n.rows
        PROVE  /\ i \in DOMAIN m.rows /\ m.rows[i].core = n.rows[i].core
               /\ n.rows[i].derived => m.rows[i].derived
    <3>1. i \in IdsOf(files) /\ rows[i] = n.rows[i] BY <1>2, <2>1, <2>2
    <3>2. DOMAIN out = IdsOf(files) BY <1>3 DEF RowType
    <3> QED BY <1>3, <1>4, <3>1, <3>2 DEF KeepsMetrics
  <2> HIDE DEF n
  <2>4. Extends(m, n) BY <1>4, <2>2, <2>3 DEF Extends
  <2> QED BY <2>4 DEF n
<1> QED BY <1>1, <1>4, <1>5, <1>6, <1>7 DEF Built

LEMMA GatherStep ==
  ASSUME SnInv, NEW p \in Procs, Gather(p)
  PROVE  SnInv'
<1> DEFINE s == proc[p].base
           S == BaseSources(s) \cup Deltas(s)
<1>1. /\ StillTrue(proc[p]) /\ proc[p] \in ProcStates /\ proc[p].at = "gather"
      /\ s \in 0 .. Len(snapshots) /\ proc[p].op \in {"compaction", "migration"} /\ DiskOK
  BY SnFacts DEF Gather, StillTrue, ProcStates
<1>2. CASE Raise(p) BY <1>2, RaiseStep
<1>3. ASSUME NEW rows, rows = Merge(BaseRows(s), RowsOf(Deltas(s))), ~GatherFails(s),
             NEW out \in Transforms(proc[p].op, rows), SummaryMatches(out, rows),
             NEW m, m = [rows |-> out, sources |-> S, parent |-> s, job |-> p, op |-> proc[p].op],
             proc' = [proc EXCEPT ![p].at = "stage", ![p].manifest = m],
             UNCHANGED <<runs, files, registered, snapshots, pointer, stage, orphans, ops,
                         crashes>>
      PROVE  SnInv'
  <2>1. m \in Manifests /\ Built(m) BY <1>1, <1>3, GatheredBuilt
  <2> DEFINE q == [proc[p] EXCEPT !.at = "stage", !.manifest = m]
  <2>2. m \in Manifests \cup {NoManifest} /\ "stage" \in Places BY <2>1 DEF Places
  <2>3. q \in ProcStates BY <1>1, <2>2 DEF ProcStates
  <2>4. /\ q.at = "stage" /\ q.op = proc[p].op /\ q.base = proc[p].base
        /\ q.target = proc[p].target /\ q.read = proc[p].read /\ q.manifest = m
    BY <1>1 DEF ProcStates
  <2>5. proc' = [proc EXCEPT ![p] = q] BY <1>3
  <2> HIDE DEF q
  <2>6. StillTrue(q) BY <1>1, <2>1, <2>3, <2>4 DEF StillTrue
  <2> QED BY <1>1, <1>3, <2>5, <2>6, GoOnStep
<1> QED BY <1>2, <1>3 DEF Gather

\* The snapshots after a rename, and the one the process goes on with.
LEMMA RenamedDisk ==
  ASSUME DiskOK, NEW m \in Manifests, Built(m),
         NEW next, next = IF Holds(m) THEN snapshots ELSE Append(snapshots, m),
         snapshots' = next, UNCHANGED <<runs, files, registered, pointer>>
  PROVE  /\ Grows /\ DiskOK' /\ Len(snapshots') \in Nat
         /\ (CHOOSE s \in DOMAIN next : next[s] = m) \in 1 .. Len(snapshots')
<1>1. Grows BY DEF Grows
<1>2. /\ snapshots' \in Seq(Manifests) /\ Len(snapshots) \in Nat /\ Len(snapshots') \in Nat
      /\ Len(snapshots) <= Len(snapshots') BY DEF DiskOK
<1>3. ASSUME NEW s \in 1 .. Len(snapshots'), NEW n \in Manifests, n = snapshots'[s]
      PROVE  Built(n)' /\ n.parent < s
  <2>1. CASE s <= Len(snapshots)
    <3>1. n = snapshots[s] /\ s \in 1 .. Len(snapshots)
      BY <1>1, <1>3, <2>1, GrownSnapshots
    <3>2. Built(n) /\ n.parent < s BY <3>1 DEF DiskOK
    <3> QED BY <1>1, <3>2, BuiltKept
  <2>2. CASE ~(s <= Len(snapshots))
    <3>1. n = m /\ s = Len(snapshots) + 1 BY <1>2, <1>3, <2>2
    <3>2. m.parent <= Len(snapshots) /\ m.parent \in Nat BY DEF Built, Manifests
    <3>3. Built(m)' BY <1>1, BuiltKept
    <3> QED BY <1>2, <3>1, <3>2, <3>3
  <2> QED BY <2>1, <2>2
<1>4. DiskOK'
  <2>1. pointer' \in 0 .. Len(snapshots') BY <1>2 DEF DiskOK
  <2>2. CatalogNamesFiles' BY DEF DiskOK, CatalogNamesFiles
  <2> QED BY <1>2, <1>3, <2>1, <2>2 DEF DiskOK
<1>5. \E s \in DOMAIN next : next[s] = m
  <2>1. CASE Holds(m) BY <2>1 DEF Holds
  <2>2. CASE ~Holds(m)
    <3>1. next = Append(snapshots, m) /\ snapshots \in Seq(Manifests)
      BY <2>2 DEF DiskOK
    <3>2. Len(snapshots) + 1 \in DOMAIN next /\ next[Len(snapshots) + 1] = m
      BY <1>2, <3>1
    <3> QED BY <3>2
  <2> QED BY <2>1, <2>2
<1>6. DOMAIN next = 1 .. Len(snapshots') BY <1>2
<1> QED BY <1>1, <1>2, <1>4, <1>5, <1>6

LEMMA RenameStep ==
  ASSUME SnInv, NEW p \in Procs, RenameSnapshot(p)
  PROVE  SnInv'
<1>1. /\ StillTrue(proc[p]) /\ proc[p] \in ProcStates /\ proc[p].at = "rename" /\ DiskOK
  BY SnFacts DEF RenameSnapshot
<1>2. PICK m \in Manifests : m = proc[p].manifest /\ Built(m) BY <1>1 DEF StillTrue
<1> DEFINE next == IF Holds(m) THEN snapshots ELSE Append(snapshots, m)
           t == CHOOSE s \in DOMAIN next : next[s] = m
<1>3. /\ snapshots' = next /\ stage' = stage \ {p}
      /\ IF proc[p].activate
         THEN proc' = [proc EXCEPT ![p].at = "activate", ![p].target = t]
         ELSE Done(p)
      /\ UNCHANGED <<runs, files, registered, pointer, orphans, ops, crashes>>
  BY <1>2 DEF RenameSnapshot
<1>4. Grows /\ DiskOK' /\ t \in 1 .. Len(snapshots') /\ Len(snapshots') \in Nat
  BY <1>1, <1>2, <1>3, RenamedDisk
<1> HIDE DEF t, next
<1>5. CASE ~proc[p].activate
  <2>1. StillTrue(Idle)' BY <1>1, <1>4, IdleStillTrue, StillTrueKept
  <2> QED BY <1>3, <1>4, <1>5, <2>1, SnFacts, GrowsAndMoves DEF Done
<1>6. CASE proc[p].activate
  <2> SUFFICES ASSUME NEW q, q = [proc[p] EXCEPT !.at = "activate", !.target = t]
               PROVE  SnInv' OBVIOUS
  <2>1. t \in Nat /\ t # 0 /\ "activate" \in Places BY <1>4 DEF Places
  <2>2. q \in ProcStates BY <1>1, <2>1 DEF ProcStates
  <2>3. q.at = "activate" /\ q.base = proc[p].base /\ q.target = t /\ q.read = proc[p].read
    BY <1>1 DEF ProcStates
  <2>4. q.base <= Len(snapshots) /\ Whole(q.read) BY <1>1, <2>3 DEF StillTrue
  <2>5. q.base <= Len(snapshots')
    BY <1>1, <1>4, <2>2, <2>4, GrownSnapshots DEF ProcStates
  <2>6. Whole(q.read)' BY <1>3, <2>4 DEF Whole
  <2>7. StillTrue(q)' BY <1>4, <2>1, <2>2, <2>3, <2>5, <2>6 DEF StillTrue
  <2>8. proc' = [proc EXCEPT ![p] = q] BY <1>3, <1>6
  <2> QED BY <1>3, <1>4, <2>7, <2>8, SnFacts, GrowsAndMoves
<1> QED BY <1>5, <1>6

LEMMA SnStep ==
  ASSUME SnInv, [SnNext]_snVars
  PROVE  SnInv'
<1>1. CASE UNCHANGED snVars
  <2>1. DiskOK' /\ Grows
    BY <1>1 DEF snVars, SnInv, DiskOK, CatalogNamesFiles, Built, Covers, Grows
  <2>2. ASSUME NEW p \in Procs, NEW x \in ProcStates, x = proc[p] PROVE StillTrue(x)'
    BY <2>1, <2>2, StillTrueKept DEF SnInv
  <2>3. StagesReleased' BY <1>1 DEF snVars, SnInv, StagesReleased
  <2> QED BY <1>1, <2>1, <2>2, <2>3 DEF SnInv, snVars
<1>2. ASSUME NEW r \in Runs, CreateRun(r) \/ FinishRun(r) PROVE SnInv' BY <1>2, RunStep
<1>3. ASSUME NEW p \in Procs, Begin(p) PROVE SnInv' BY <1>3, BeginStep
<1>4. ASSUME NEW p \in Procs, Crash(p) PROVE SnInv' BY <1>4, CrashStep
<1>5. ASSUME NEW p \in Procs, Step(p) PROVE SnInv'
  BY <1>5, IngestCheckStep, IngestWriteStep, IngestRegisterStep, GatherStep, StageStep,
    RenameStep, RaiseStep, ActivateCheckStep, ReplaceStep, ReadStep DEF Step, BuildError
<1> QED BY <1>1, <1>2, <1>3, <1>4, <1>5 DEF SnNext

LEMMA SnInitially == SnInit => SnInv
<1> SUFFICES ASSUME SnInit PROVE SnInv OBVIOUS
<1>1. /\ runs \in [Runs -> RunStatus] /\ files = {} /\ registered = {} /\ snapshots = <<>>
      /\ pointer = 0 /\ Len(snapshots) = 0 BY DEF SnInit, RunStatus
<1>2. DiskOK BY <1>1 DEF DiskOK, CatalogNamesFiles
<1>3. StillTrue(Idle) BY <1>2, IdleStillTrue
<1>4. proc \in [Procs -> ProcStates] /\ \A p \in Procs : proc[p] = Idle
  BY IdleTyped DEF SnInit
<1>5. StagesReleased BY DEF SnInit, StagesReleased
<1>6. ops \in 0 .. MaxOps /\ crashes \in 0 .. MaxCrashes BY SnapshotBounds DEF SnInit
<1> QED BY <1>2, <1>3, <1>4, <1>5, <1>6 DEF SnInv, SnInit

LEMMA SnInductive == SnSpec => []SnInv
BY SnInitially, SnStep, PTL DEF SnSpec

-----------------------------------------------------------------------------
(* What the runs check. *)

LEMMA RowsAreKept == SnInv => RowsKept
<1> SUFFICES ASSUME SnInv PROVE RowsKept OBVIOUS
<1>f. /\ DiskOK /\ snapshots \in Seq(Manifests) /\ DOMAIN snapshots = 1 .. Len(snapshots)
      /\ Len(snapshots) \in Nat BY SnFacts
<1>1. SnapshotTypeOK
  <2>1. ASSUME NEW p \in Procs
        PROVE  /\ proc[p].at \in Places /\ proc[p].batch \in SUBSET Batches
               /\ proc[p].base \in 0 .. Len(snapshots) /\ proc[p].target \in 0 .. Len(snapshots)
               /\ proc[p].manifest \in Manifests \cup {NoManifest} /\ proc[p].read \in Rows
    BY <1>f, SnFacts DEF StillTrue, ProcStates
  <2> QED BY <2>1, SnFacts DEF SnapshotTypeOK, DiskOK
<1>2. ASSUME NEW s \in DOMAIN snapshots
      PROVE  \E m \in Manifests : m = snapshots[s] /\ Built(m) /\ m.parent < s
  BY <1>f DEF DiskOK
<1>3. TrackedRowsKept BY <1>2 DEF TrackedRowsKept, Built
<1>4. LineageKeepsRows BY <1>2 DEF LineageKeepsRows, Built
<1>5. ReadsAreWhole BY SnFacts DEF ReadsAreWhole, StillTrue, Whole
<1> QED BY <1>1, <1>3, <1>4, <1>5, SnFacts DEF RowsKept, DiskOK

\* Whatever processes ingest, compact, migrate, roll back, read and crash in
\* one dataset directory: every snapshot holds exactly the rows of the files it
\* tracks, a reader is given whole files, and a catalog row names its file.
THEOREM SnapshotSafety == SnSpec => []RowsKept
BY SnInductive, RowsAreKept, PTL

-----------------------------------------------------------------------------
(* The dataset implements DatasetView. *)

ViewNow == IF pointer = 0 THEN <<>>
           ELSE [i \in DOMAIN snapshots[pointer].rows |-> snapshots[pointer].rows[i].core]

\* The view a pointer gives is the rows of the files its snapshot tracks.
LEMMA PointedView ==
  ASSUME NEW m, Covers(m)
  PROVE  [i \in DOMAIN m.rows |-> m.rows[i].core] = View!CoreOf(m.sources)
<1>1. Disjoint(m.sources) /\ DOMAIN m.rows = IdsOf(m.sources) BY DEF Covers
<1>2. ASSUME NEW i \in IdsOf(m.sources) PROVE m.rows[i].core = View!CoreOf(m.sources)[i]
  <2>1. PICK b \in m.sources : i \in Ids(b) BY <1>2, OwnerOf
  <2>2. View!CoreOf(m.sources)[i] = b.rows[i] BY <1>1, <2>1, CoreIsOwn
  <2> QED BY <2>1, <2>2 DEF Covers
<1> QED BY <1>1, <1>2 DEF View!CoreOf, IdsOf

\* Only the replacement of the pointer moves the view.
LEMMA ViewStays ==
  ASSUME SnInv, UNCHANGED pointer,
         snapshots' = snapshots \/ \E m \in Manifests : snapshots' = Append(snapshots, m)
  PROVE  UNCHANGED ViewNow
<1>1. snapshots \in Seq(Manifests) /\ pointer \in 0 .. Len(snapshots) /\ Len(snapshots) \in Nat
  BY SnFacts
<1>2. pointer # 0 => snapshots'[pointer] = snapshots[pointer] BY <1>1
<1> QED BY <1>2 DEF ViewNow

LEMMA SwitchStep ==
  ASSUME SnInv, NEW p \in Procs, proc[p].at = "replace", pointer' = proc[p].target,
         UNCHANGED <<files, snapshots>>
  PROVE  \E F \in SUBSET files : View!Switch(F)
<1>1. /\ proc[p].target \in 1 .. Len(snapshots) /\ DiskOK
  BY SnFacts DEF StillTrue, ProcStates
<1>2. PICK m \in Manifests : m = snapshots[proc[p].target] /\ Built(m)
  BY <1>1 DEF DiskOK
<1>3. /\ m.sources # {} /\ m.sources \subseteq files /\ View!Disjoint(m.sources)
      /\ [i \in DOMAIN m.rows |-> m.rows[i].core] = View!CoreOf(m.sources)
  BY <1>2, PointedView DEF Built, Covers, Disjoint
<1>4. ViewNow' = [i \in DOMAIN m.rows |-> m.rows[i].core] BY <1>1, <1>2 DEF ViewNow
<1>5. View!Switch(m.sources) BY <1>3, <1>4 DEF View!Switch, ViewNow
<1> QED BY <1>3, <1>5

LEMMA ViewStep ==
  ASSUME SnInv, [SnNext]_snVars
  PROVE  View!ViewNext \/ (UNCHANGED files /\ UNCHANGED ViewNow)
<1>1. ASSUME NEW p \in Procs, IngestWrite(p) PROVE View!ViewNext
  <2>1. PICK b \in Batches : proc[p].batch = {b}
    BY <1>1, SnFacts DEF IngestWrite, StillTrue
  <2>2. files' = files \cup {b} /\ UNCHANGED <<snapshots, pointer>>
    BY <1>1, <2>1 DEF IngestWrite
  <2>3. View!Ingest(b) BY <2>2 DEF View!Ingest
  <2> QED BY <2>3 DEF View!ViewNext
<1>2. ASSUME NEW p \in Procs, ReplacePointer(p), ~Raise(p) PROVE View!ViewNext
  <2>1. /\ proc[p].at = "replace" /\ pointer' = proc[p].target
        /\ UNCHANGED <<files, snapshots>> BY <1>2 DEF ReplacePointer
  <2> QED BY <2>1, SwitchStep DEF View!ViewNext
<1>3. ASSUME NEW p \in Procs, RenameSnapshot(p) PROVE UNCHANGED files /\ UNCHANGED ViewNow
  <2>1. PICK m \in Manifests : m = proc[p].manifest
    BY <1>3, SnFacts DEF RenameSnapshot, StillTrue
  <2>2. snapshots' = snapshots \/ snapshots' = Append(snapshots, m)
    BY <1>3, <2>1 DEF RenameSnapshot
  <2>3. UNCHANGED <<files, pointer>> BY <1>3 DEF RenameSnapshot
  <2> QED BY <2>2, <2>3, ViewStays
<1>4. ASSUME UNCHANGED <<files, snapshots, pointer>> PROVE UNCHANGED files /\ UNCHANGED ViewNow
  BY <1>4, ViewStays
<1>5. ASSUME NEW r \in Runs, CreateRun(r) \/ FinishRun(r)
      PROVE  UNCHANGED <<files, snapshots, pointer>> BY <1>5 DEF CreateRun, FinishRun
<1>6. ASSUME NEW p \in Procs, Begin(p) PROVE UNCHANGED <<files, snapshots, pointer>>
  BY <1>6 DEF Begin, BeginIngest, BeginBuild, BeginRollback, BeginActivate, BeginRead,
    Start
<1>7. ASSUME NEW p \in Procs, Crash(p) \/ Raise(p)
      PROVE  UNCHANGED <<files, snapshots, pointer>> BY <1>7 DEF Crash, Raise
<1>8. ASSUME NEW p \in Procs, IngestCheck(p) \/ IngestRegister(p)
      PROVE  UNCHANGED <<files, snapshots, pointer>>
  BY <1>8 DEF IngestCheck, IngestRegister, Raise
<1>9. ASSUME NEW p \in Procs, Gather(p) \/ StageSnapshot(p) \/ BuildError(p)
      PROVE  UNCHANGED <<files, snapshots, pointer>>
  BY <1>9 DEF Gather, StageSnapshot, BuildError, Raise
<1>10. ASSUME NEW p \in Procs, ActivateCheck(p) \/ ReadSnapshot(p) \/ ReadFiles(p)
       PROVE  UNCHANGED <<files, snapshots, pointer>>
  BY <1>10 DEF ActivateCheck, ReadSnapshot, ReadFiles, Raise
<1>11. UNCHANGED snVars => UNCHANGED <<files, snapshots, pointer>> BY DEF snVars
<1>12. ASSUME NEW p \in Procs, Step(p)
       PROVE  View!ViewNext \/ (UNCHANGED files /\ UNCHANGED ViewNow)
  BY <1>12, <1>1, <1>2, <1>3, <1>4, <1>7, <1>8, <1>9, <1>10 DEF Step
<1> QED BY <1>4, <1>5, <1>6, <1>7, <1>11, <1>12 DEF SnNext

\* A dataset of files and a view that is always the exact union of some of
\* them: ingestion adds a file, the replacement of the pointer switches the
\* view, and no other step of any process is seen.
THEOREM SnapshotsAreViews == SnSpec => ImplementsView
<1>1. SnInit => View!ViewInit BY DEF SnInit, View!ViewInit
<1>2. SnInv /\ [SnNext]_snVars => [View!ViewNext]_<<files, ViewNow>> BY ViewStep
<1> QED
  BY <1>1, <1>2, SnInductive, PTL DEF SnSpec, ImplementsView, View!ViewSpec, ViewNow

-----------------------------------------------------------------------------
(* The corpus catalog. *)

CorpusCalls ==
  [phase : {"idle", "transaction", "quarantine"},
   manifest : CorpusManifests \cup {NoCorpusManifest}]
ItemRows == [item : CcItems, status : CorpusItemStatus, at : CcTimes]
CorpusTables ==
  [items : SUBSET ItemRows, sources : SUBSET (CcItems \X CcSources),
   quarantine : SUBSET CorpusManifests, calls : Int,
   returned : SUBSET CorpusManifests]

\* Only a manifest that passed its validation enters the transaction.
Carried(c) ==
  /\ c.phase # "idle" => c.manifest \in CorpusManifests
  /\ c.phase = "transaction" => c.manifest.ok = TRUE

\* A manifest on record: quarantined, or an item with its status and source.
OnRecord(m, c) ==
  \/ m \in c.quarantine
  \/ /\ m.ok /\ <<m.item, m.source>> \in c.sources
     /\ \E x \in c.items : x.item = m.item /\ x.status = m.status

CcInv ==
  /\ corpus \in CorpusTables /\ ingest \in [Ingesters -> CorpusCalls]
  /\ \A p \in Ingesters : Carried(ingest[p])
  /\ \A m \in corpus.returned : OnRecord(m, corpus)
  /\ \A x, y \in corpus.items : x.item = y.item => x = y

----------------------------------------------------------------------------
LEMMA CcInitially == CcInit => CcInv
<1> SUFFICES ASSUME CcInit PROVE CcInv OBVIOUS
<1>1. corpus \in CorpusTables /\ corpus.returned = {} /\ corpus.items = {}
  BY DEF CcInit, CorpusTables
<1>2. ingest \in [Ingesters -> CorpusCalls] /\ \A p \in Ingesters : ingest[p].phase = "idle"
  BY DEF CcInit, CorpusCalls
<1> QED BY <1>1, <1>2 DEF CcInv, Carried

\* What a call does to its own record is well typed and disturbs no other.
LEMMA OneCall ==
  ASSUME CcInv, NEW p \in Ingesters, NEW c \in CorpusCalls, Carried(c),
         ingest' = [ingest EXCEPT ![p] = c]
  PROVE  /\ ingest' \in [Ingesters -> CorpusCalls]
         /\ \A q \in Ingesters : Carried(ingest'[q])
BY DEF CcInv

LEMMA ReturnKeeps ==
  ASSUME CcInv, NEW p \in Ingesters, Return(p)
  PROVE  /\ ingest' \in [Ingesters -> CorpusCalls]
         /\ \A q \in Ingesters : Carried(ingest'[q])
<1> DEFINE c == [phase |-> "idle", manifest |-> NoCorpusManifest]
<1>1. c \in CorpusCalls /\ Carried(c) /\ ingest' = [ingest EXCEPT ![p] = c]
  BY DEF CorpusCalls, Carried, Return
<1> HIDE DEF c
<1> QED BY <1>1, OneCall

\* What is on record stays there while the tables grow.
LEMMA GrowKeeps ==
  ASSUME CcInv, NEW c \in CorpusTables,
         corpus.items \subseteq c.items, corpus.sources \subseteq c.sources,
         corpus.quarantine \subseteq c.quarantine
  PROVE  \A m \in corpus.returned : OnRecord(m, c)
BY DEF CcInv, OnRecord

\* A call that enters the transaction carries a valid manifest.
LEMMA IngestKeeps ==
  ASSUME CcInv, NEW p \in Ingesters, NEW m \in CorpusManifests, Ingest(p, m)
  PROVE  CcInv'
<1> DEFINE c == [phase |-> IF m.ok THEN "transaction" ELSE "quarantine", manifest |-> m]
           n == corpus.calls + 1
<1>1. ingest' = [ingest EXCEPT ![p] = c] /\ corpus' = [corpus EXCEPT !.calls = n]
  BY DEF Ingest
<1>2. m.ok \in BOOLEAN BY DEF CorpusManifests
<1>3. c \in CorpusCalls BY DEF CorpusCalls
<1>4. c.manifest = m /\ (c.phase = "transaction" => m.ok = TRUE) BY <1>2
<1>5. Carried(c) BY <1>4 DEF Carried
<1>6. n \in Int BY DEF CcInv, CorpusTables
<1> HIDE DEF c, n
<1>7. /\ corpus' \in CorpusTables /\ corpus'.items = corpus.items
      /\ corpus'.sources = corpus.sources /\ corpus'.returned = corpus.returned
      /\ corpus'.quarantine = corpus.quarantine BY <1>1, <1>6 DEF CcInv, CorpusTables
<1>8. /\ ingest' \in [Ingesters -> CorpusCalls]
      /\ \A q \in Ingesters : Carried(ingest'[q]) BY <1>1, <1>3, <1>5, OneCall
<1> QED BY <1>7, <1>8, GrowKeeps DEF CcInv

\* The transaction adds the row when the item is unknown, the source always.
LEMMA CommitKeeps ==
  ASSUME CcInv, NEW p \in Ingesters, Commit(p)
  PROVE  CcInv'
<1> DEFINE m == ingest[p].manifest
           row == [item |-> m.item, status |-> m.status, at |-> m.at]
           items == IF ItemOf(m.item) # {} THEN corpus.items
                    ELSE corpus.items \cup {row}
           sources == corpus.sources \cup {<<m.item, m.source>>}
           returned == corpus.returned \cup {m}
<1>1. m \in CorpusManifests /\ m.ok = TRUE BY DEF CcInv, Carried, Commit
<1>2. /\ m.item \in CcItems /\ m.status \in CorpusItemStatus
      /\ m.source \in CcSources /\ m.at \in CcTimes BY <1>1 DEF CorpusManifests
<1>3. /\ Return(p) /\ \A x \in ItemOf(m.item) : x.status = m.status
      /\ corpus' = [corpus EXCEPT !.sources = sources, !.items = items,
                                  !.returned = returned] BY DEF Commit
<1>4. corpus \in CorpusTables BY DEF CcInv
<1>5. /\ corpus.items \subseteq items /\ items \subseteq ItemRows
      /\ \E x \in items : x.item = m.item /\ x.status = m.status
      /\ \A x, y \in items : x.item = y.item => x = y
  <2>1. row \in ItemRows /\ row.item = m.item /\ row.status = m.status
    BY <1>2 DEF ItemRows
  <2> HIDE DEF row
  <2>2. corpus.items \subseteq ItemRows BY <1>4 DEF CorpusTables
  <2>3. CASE ItemOf(m.item) # {}
    <3>1. PICK x \in corpus.items : x.item = m.item /\ x.status = m.status
      BY <1>3, <2>3 DEF ItemOf
    <3> QED BY <2>2, <2>3, <3>1 DEF CcInv
  <2>4. CASE ItemOf(m.item) = {}
    <3>1. \A x \in corpus.items : x.item # m.item BY <2>4 DEF ItemOf
    <3> QED BY <2>1, <2>2, <2>4, <3>1 DEF CcInv
  <2> QED BY <2>3, <2>4
<1>6. /\ sources \subseteq CcItems \X CcSources /\ <<m.item, m.source>> \in sources
      /\ corpus.sources \subseteq sources BY <1>2, <1>4 DEF CorpusTables
<1>7. returned \subseteq CorpusManifests BY <1>1, <1>4 DEF CorpusTables
<1> HIDE DEF items, sources
<1>8. /\ corpus' \in CorpusTables /\ corpus'.items = items /\ corpus'.sources = sources
      /\ corpus'.returned = returned /\ corpus'.quarantine = corpus.quarantine
  <2> HIDE DEF returned
  <2> QED BY <1>3, <1>4, <1>5, <1>6, <1>7 DEF CorpusTables
<1>9. OnRecord(m, corpus') BY <1>1, <1>5, <1>6, <1>8 DEF OnRecord
<1>10. \A x \in corpus.returned : OnRecord(x, corpus') BY <1>5, <1>6, <1>8, GrowKeeps
<1>11. \A x \in corpus'.returned : OnRecord(x, corpus') BY <1>8, <1>9, <1>10
<1>12. /\ ingest' \in [Ingesters -> CorpusCalls]
       /\ \A q \in Ingesters : Carried(ingest'[q]) BY <1>3, ReturnKeeps
<1> QED BY <1>5, <1>8, <1>11, <1>12 DEF CcInv

LEMMA RollBackKeeps ==
  ASSUME CcInv, NEW p \in Ingesters, RollBack(p)
  PROVE  CcInv'
<1> DEFINE c == [ingest[p] EXCEPT !.phase = "quarantine"]
<1>1. /\ ingest[p] \in CorpusCalls /\ ingest[p].manifest \in CorpusManifests
      /\ ingest' = [ingest EXCEPT ![p] = c] /\ corpus' = corpus
  BY DEF CcInv, Carried, RollBack
<1>2. c \in CorpusCalls /\ c.phase = "quarantine" /\ c.manifest = ingest[p].manifest
  BY <1>1 DEF CorpusCalls
<1> HIDE DEF c
<1>3. Carried(c) BY <1>1, <1>2 DEF Carried
<1>4. /\ ingest' \in [Ingesters -> CorpusCalls]
      /\ \A q \in Ingesters : Carried(ingest'[q]) BY <1>1, <1>2, <1>3, OneCall
<1> QED BY <1>1, <1>4 DEF CcInv

LEMMA QuarantineKeeps ==
  ASSUME CcInv, NEW p \in Ingesters, QuarantineManifest(p)
  PROVE  CcInv'
<1> DEFINE m == ingest[p].manifest
           quarantine == corpus.quarantine \cup {m}
           returned == corpus.returned \cup {m}
<1>1. m \in CorpusManifests /\ corpus \in CorpusTables /\ Return(p)
  BY DEF CcInv, Carried, QuarantineManifest
<1>2. corpus' = [corpus EXCEPT !.quarantine = quarantine, !.returned = returned]
  BY DEF QuarantineManifest
<1>3. quarantine \subseteq CorpusManifests /\ returned \subseteq CorpusManifests
  BY <1>1 DEF CorpusTables
<1> HIDE DEF quarantine, returned
<1>4. /\ corpus' \in CorpusTables /\ corpus'.items = corpus.items
      /\ corpus'.sources = corpus.sources /\ corpus'.quarantine = quarantine
      /\ corpus'.returned = returned BY <1>1, <1>2, <1>3 DEF CorpusTables
<1>5. \A x \in corpus.returned : OnRecord(x, corpus') BY <1>4, GrowKeeps DEF quarantine
<1>6. \A x \in corpus'.returned : OnRecord(x, corpus')
  BY <1>4, <1>5 DEF returned, quarantine, OnRecord
<1>7. /\ ingest' \in [Ingesters -> CorpusCalls]
      /\ \A q \in Ingesters : Carried(ingest'[q]) BY <1>1, ReturnKeeps
<1> QED BY <1>4, <1>6, <1>7 DEF CcInv

LEMMA CcStep == CcInv /\ [CcNext]_ccVars => CcInv'
<1> SUFFICES ASSUME CcInv, [CcNext]_ccVars PROVE CcInv' OBVIOUS
<1>1. ASSUME NEW p \in Ingesters, NEW m \in CorpusManifests, Ingest(p, m) PROVE CcInv'
  BY <1>1, IngestKeeps
<1>2. ASSUME NEW p \in Ingesters, Commit(p) PROVE CcInv' BY <1>2, CommitKeeps
<1>3. ASSUME NEW p \in Ingesters, RollBack(p) PROVE CcInv' BY <1>3, RollBackKeeps
<1>4. ASSUME NEW p \in Ingesters, QuarantineManifest(p) PROVE CcInv'
  BY <1>4, QuarantineKeeps
<1>5. ASSUME NEW p \in Ingesters, IngestLost(p) PROVE CcInv'
  BY <1>5, ReturnKeeps DEF IngestLost, CcInv
<1>6. CASE UNCHANGED ccVars BY <1>6 DEF ccVars, CcInv
<1> QED BY <1>1, <1>2, <1>3, <1>4, <1>5, <1>6 DEF CcNext

\* Whatever is ingested concurrently, in whatever order and however often a
\* process is lost inside a call: every manifest whose call returned is on
\* record as what it claimed or is in the quarantine, and no item has two rows.
THEOREM CorpusSafety == CcSpec => []NothingLost
<1>1. CcSpec => []CcInv BY CcInitially, CcStep, PTL DEF CcSpec
<1>2. CcInv => NothingLost BY DEF CcInv, OnRecord, NothingLost
<1> QED BY <1>1, <1>2, PTL

\* The stores keep what they were given, each under its own operations.
THEOREM StorageSafety == SnSpec /\ CcSpec => []StorageKept
BY SnapshotSafety, CorpusSafety, PTL DEF StorageKept

-----------------------------------------------------------------------------
(* The desktop service and its shells. *)

Methods == {"register", "create", "update", "archive", "enqueue"}
CallStates ==
  [method : Methods \cup {""}, step : Nat, deck : DeckIds \cup {""}, profile : Nat,
   content : Contents \cup {""}, key : Calls \cup {0}, tries : Nat,
   outcome : {"", "ok", "failed"}]
Profiles ==
  [deck : DeckIds, content : Contents, state : {"active", "archived"}, revision : Nat]
FileStates == {Absent, Partial, Complete}
ExperimentFiles == [final : FileStates, temporary : FileStates, open : SUBSET Calls]

\* A temporary file nobody has open is whole, and only whole files are moved.
FileOK(f) ==
  /\ f.final \in {Absent, Complete}
  /\ f.temporary = Partial => f.open # {}

\* What a call carries is what was asked, and what its steps so far have shown
\* still holds.
Asked(t, c) ==
  IF c.method = "" THEN c.step = 0
  ELSE /\ c.key = t /\ c.profile \in 1 .. Len(dsProfiles)
       /\ c.deck \in DeckIds /\ c.content \in Contents
       /\ c.step \in 1 .. Len(Steps[c.method])
Earned(c) ==
  /\ c.method = "create" /\ c.step >= 2 => ContentCards[c.content] \subseteq DeckCards[c.deck]
  /\ c.method = "update" /\ c.step >= 2 =>
       ContentCards[c.content] \subseteq DeckCards[dsProfiles[c.profile].deck]
  /\ c.method \in {"create", "update"} /\ c.step >= 3 => c.content \in dsContents
  /\ c.method = "enqueue" /\ c.step = 6 => dsFiles[c.content].final = Complete

CatalogOK ==
  /\ dsDecks \in SUBSET DeckIds /\ IsFiniteSet(dsDecks) /\ Cardinality(dsDecks) <= MaxDecks
  /\ dsContents \in SUBSET Contents
  /\ dsProfiles \in Seq(Profiles) /\ Len(dsProfiles) >= 1
  /\ dsHistory \in [updates : Seq(Nat), created : [Calls -> Nat]]
  /\ Len(dsHistory.updates) = Len(dsProfiles)
  /\ RevisionsCount /\ ProfilesReadable /\ RulesOfOwnDeck
JobsOK ==
  /\ dsFiles \in [Contents -> ExperimentFiles] /\ \A x \in Contents : FileOK(dsFiles[x])
  /\ \A k \in DOMAIN dsJobs : dsJobs[k] \in Contents /\ dsFiles[dsJobs[k]].final = Complete
  /\ dsHistory.created \in [Calls -> Nat]
  /\ \A t \in Calls : dsHistory.created[t] <= 1
                      /\ (dsHistory.created[t] # 0 => <<t, 0>> \in DOMAIN dsJobs)

DsInv ==
  /\ CatalogOK /\ JobsOK
  /\ dsCalls \in [Calls -> CallStates]
  /\ \A t \in Calls, c \in CallStates : c = dsCalls[t] => Asked(t, c) /\ Earned(c)

-----------------------------------------------------------------------------
(* The place of a step. *)

LEMMA StepsOf ==
  /\ DOMAIN Steps = Methods
  /\ Steps["register"] = <<"register">> /\ Steps["archive"] = <<"archive">>
  /\ Steps["create"] = <<"check", "content", "create">>
  /\ Steps["update"] = <<"check", "content", "update">>
  /\ Steps["enqueue"] = <<"compose", "exists", "open", "write", "replace", "job">>
BY DEF Steps, Methods

LEMMA StepPlaces ==
  ASSUME NEW m \in Methods, NEW i \in 1 .. Len(Steps[m])
  PROVE  /\ Len(Steps[m]) \in 1 .. 6
         /\ m = "enqueue" <=> Steps[m][i] \in {"compose", "exists", "open", "write", "replace", "job"}
         /\ m = "register" <=> Steps[m][i] = "register"
         /\ m = "archive" <=> Steps[m][i] = "archive"
         /\ Steps[m][i] = "check" => m \in {"create", "update"} /\ i = 1
         /\ Steps[m][i] = "content" => m \in {"create", "update"} /\ i = 2
         /\ Steps[m][i] = "create" => m = "create" /\ i = 3
         /\ Steps[m][i] = "update" => m = "update" /\ i = 3
         /\ Steps[m][i] = "compose" => i = 1
         /\ Steps[m][i] = "exists" => i = 2
         /\ Steps[m][i] = "open" => i = 3
         /\ Steps[m][i] = "write" => i = 4
         /\ Steps[m][i] = "replace" => i = 5
         /\ Steps[m][i] = "job" => i = 6
<1>1. CASE m = "register"
  <2>1. Len(Steps[m]) = 1 /\ Steps[m][1] = "register" BY <1>1, StepsOf
  <2> QED BY <1>1, <2>1
<1>2. CASE m = "archive"
  <2>1. Len(Steps[m]) = 1 /\ Steps[m][1] = "archive" BY <1>2, StepsOf
  <2> QED BY <1>2, <2>1
<1>3. CASE m = "create"
  <2>1. Len(Steps[m]) = 3 /\ Steps[m][1] = "check" /\ Steps[m][2] = "content" /\ Steps[m][3] = "create"
    BY <1>3, StepsOf
  <2>2. i = 1 \/ i = 2 \/ i = 3 BY <2>1
  <2> QED BY <1>3, <2>1, <2>2
<1>4. CASE m = "update"
  <2>1. Len(Steps[m]) = 3 /\ Steps[m][1] = "check" /\ Steps[m][2] = "content" /\ Steps[m][3] = "update"
    BY <1>4, StepsOf
  <2>2. i = 1 \/ i = 2 \/ i = 3 BY <2>1
  <2> QED BY <1>4, <2>1, <2>2
<1>5. CASE m = "enqueue"
  <2>1. /\ Len(Steps[m]) = 6 /\ Steps[m][1] = "compose" /\ Steps[m][2] = "exists"
        /\ Steps[m][3] = "open" /\ Steps[m][4] = "write" /\ Steps[m][5] = "replace"
        /\ Steps[m][6] = "job" BY <1>5, StepsOf
  <2>2. i = 1 \/ i = 2 \/ i = 3 \/ i = 4 \/ i = 5 \/ i = 6 BY <2>1
  <2> QED BY <1>5, <2>1, <2>2
<1> QED BY <1>1, <1>2, <1>3, <1>4, <1>5 DEF Methods

LEMMA StepCount ==
  ASSUME NEW m \in Methods
  PROVE  /\ m \in {"register", "archive"} => Len(Steps[m]) = 1
         /\ m \in {"create", "update"} => Len(Steps[m]) = 3
         /\ m = "enqueue" => Len(Steps[m]) = 6
         /\ Len(Steps[m]) \in 1 .. 6
<1>1. m = "register" => Len(Steps[m]) = 1 BY StepsOf
<1>2. m = "archive" => Len(Steps[m]) = 1 BY StepsOf
<1>3. m = "create" => Len(Steps[m]) = 3 BY StepsOf
<1>4. m = "update" => Len(Steps[m]) = 3 BY StepsOf
<1>5. m = "enqueue" => Len(Steps[m]) = 6 BY StepsOf
<1>6. Len(Steps[m]) \in 1 .. 6 BY <1>1, <1>2, <1>3, <1>4, <1>5 DEF Methods
<1> QED BY <1>1, <1>2, <1>3, <1>4, <1>5, <1>6

-----------------------------------------------------------------------------
(* What one thread does leaves what the others have shown. *)

ServiceGrows ==
  /\ Len(dsProfiles) \in Nat /\ Len(dsProfiles') \in Nat /\ Len(dsProfiles) <= Len(dsProfiles')
  /\ \A p \in 1 .. Len(dsProfiles) : dsProfiles'[p].deck = dsProfiles[p].deck
  /\ dsContents \subseteq dsContents'
  /\ \A x \in Contents : dsFiles[x].final = Complete => dsFiles'[x].final = Complete

LEMMA CallFields ==
  ASSUME NEW c \in CallStates
  PROVE  c.step \in Nat /\ c.profile \in Nat /\ c.step + 1 \in Nat
<1>1. c.step \in Nat /\ c.profile \in Nat BY DEF CallStates
<1> QED BY <1>1

LEMMA CallKept ==
  ASSUME ServiceGrows, NEW t, NEW c \in CallStates, Asked(t, c), Earned(c)
  PROVE  Asked(t, c)' /\ Earned(c)'
<1>1. Asked(t, c)'
  <2>1. CASE c.method = "" BY <2>1 DEF Asked
  <2>2. CASE c.method # ""
    <3>1. c.profile \in 1 .. Len(dsProfiles')
      <4>1. c.profile \in 1 .. Len(dsProfiles) /\ c.profile \in Nat
        BY <2>2, CallFields DEF Asked
      <4> QED BY <4>1 DEF ServiceGrows
    <3> QED BY <2>2, <3>1 DEF Asked
  <2> QED BY <2>1, <2>2
<1>2. c.method # "" => c.content \in Contents /\ c.profile \in 1 .. Len(dsProfiles)
  BY DEF Asked
<1>3. Earned(c)' BY <1>2 DEF Earned, ServiceGrows
<1> QED BY <1>1, <1>3

LEMMA ServiceMoves ==
  ASSUME DsInv, NEW t \in Calls, NEW q \in CallStates, Asked(t, q)', Earned(q)',
         dsCalls' = [dsCalls EXCEPT ![t] = q], CatalogOK', JobsOK', ServiceGrows
  PROVE  DsInv'
<1>1. ASSUME NEW u \in Calls, NEW c \in CallStates, c = dsCalls'[u]
      PROVE  Asked(u, c)' /\ Earned(c)'
  <2>1. CASE u = t
    <3>1. c = q BY <1>1, <2>1 DEF DsInv
    <3> QED BY <2>1, <3>1
  <2>2. CASE u # t
    <3>1. Asked(u, c) /\ Earned(c) BY <1>1, <2>2 DEF DsInv
    <3> QED BY <3>1, CallKept
  <2> QED BY <2>1, <2>2
<1>2. dsCalls' \in [Calls -> CallStates] BY DEF DsInv
<1> QED BY <1>1, <1>2 DEF DsInv

\* The call of a thread that is at a step.
LEMMA Where ==
  ASSUME DsInv, NEW t \in Calls, NEW name, At(t, name), NEW c, c = dsCalls[t]
  PROVE  /\ c \in CallStates /\ Asked(t, c) /\ Earned(c) /\ c.method \in Methods
         /\ c.step \in 1 .. Len(Steps[c.method]) /\ Steps[c.method][c.step] = name
         /\ c.key = t /\ c.profile \in 1 .. Len(dsProfiles)
         /\ c.deck \in DeckIds /\ c.content \in Contents /\ Len(Steps[c.method]) \in 1 .. 6
<1>1. c \in CallStates /\ Asked(t, c) /\ Earned(c) BY DEF DsInv
<1>2. c.step > 0 /\ Steps[c.method][c.step] = name BY DEF At
<1>3. c.method # ""
  <2>1. c.step # 0 BY <1>2
  <2> QED BY <1>1, <2>1 DEF Asked
<1>4. c.method \in Methods BY <1>1, <1>3 DEF CallStates
<1>5. /\ c.step \in 1 .. Len(Steps[c.method]) /\ c.key = t /\ c.profile \in 1 .. Len(dsProfiles)
      /\ c.deck \in DeckIds /\ c.content \in Contents BY <1>1, <1>3 DEF Asked
<1> QED BY <1>1, <1>2, <1>4, <1>5, StepPlaces

LEMMA ProceedForm ==
  ASSUME DsInv, NEW t \in Calls, NEW name, At(t, name), NEW c, c = dsCalls[t],
         NEW q, q = Proceed(t)
  PROVE  /\ q \in CallStates /\ q.method = c.method /\ q.deck = c.deck
         /\ q.profile = c.profile /\ q.content = c.content /\ q.key = c.key
         /\ q.step = IF c.step = Len(Steps[c.method]) THEN c.step ELSE c.step + 1
<1>0. c \in CallStates BY Where
<1>1. c.step \in Nat /\ c.step + 1 \in Nat BY <1>0, CallFields
<1>2. PICK n \in Nat, o \in {"", "ok", "failed"} :
        /\ q = [c EXCEPT !.step = n, !.outcome = o]
        /\ n = IF c.step = Len(Steps[c.method]) THEN c.step ELSE c.step + 1
  BY <1>0, <1>1 DEF Proceed, CallStates
<1>3. q \in CallStates BY <1>0, <1>2 DEF CallStates
<1>4. /\ q.method = c.method /\ q.deck = c.deck /\ q.profile = c.profile
      /\ q.content = c.content /\ q.key = c.key /\ q.step = n
  BY <1>0, <1>2 DEF CallStates
<1> QED BY <1>2, <1>3, <1>4

\* A thread that goes on, with what its step has shown, or fails.
LEMMA ServiceGoes ==
  ASSUME DsInv, NEW t \in Calls, NEW name, At(t, name), NEW q,
         q = Fail(t) \/ (q = Proceed(t) /\ Earned(q)'),
         Goes(t, q), CatalogOK', JobsOK', ServiceGrows
  PROVE  DsInv'
<1> SUFFICES ASSUME NEW c, c = dsCalls[t] PROVE DsInv' OBVIOUS
<1>1. /\ c \in CallStates /\ Asked(t, c) /\ Earned(c) /\ c.method \in Methods
      /\ c.step \in 1 .. Len(Steps[c.method]) /\ Len(Steps[c.method]) \in 1 .. 6
  BY Where
<1>2. Asked(t, c)' /\ Earned(c)' BY <1>1, CallKept
<1>3. CASE q = Fail(t)
  <2>1. q \in CallStates BY <1>1, <1>3 DEF Fail, CallStates
  <2>2. /\ q.method = c.method /\ q.deck = c.deck /\ q.profile = c.profile
        /\ q.content = c.content /\ q.key = c.key /\ q.step = c.step
    BY <1>1, <1>3 DEF Fail, CallStates
  <2>3. Asked(t, q)' /\ Earned(q)' BY <1>2, <2>2 DEF Asked, Earned
  <2> QED BY <2>1, <2>3, ServiceMoves DEF Goes
<1>4. CASE q = Proceed(t) /\ Earned(q)'
  <2>1. /\ q \in CallStates /\ q.method = c.method /\ q.deck = c.deck
        /\ q.profile = c.profile /\ q.content = c.content /\ q.key = c.key
        /\ q.step = IF c.step = Len(Steps[c.method]) THEN c.step ELSE c.step + 1
    BY <1>4, ProceedForm
  <2>2. q.step \in 1 .. Len(Steps[q.method]) BY <1>1, <2>1
  <2>3. Asked(t, q)' BY <1>1, <1>2, <2>1, <2>2 DEF Asked, Methods
  <2> QED BY <1>4, <2>1, <2>3, ServiceMoves DEF Goes
<1> QED BY <1>3, <1>4

-----------------------------------------------------------------------------
(* What most steps leave alone. *)

LEMMA ServiceFacts ==
  ASSUME DsInv
  PROVE  /\ CatalogOK /\ JobsOK /\ Len(dsProfiles) \in Nat
         /\ dsProfiles \in Seq(Profiles) /\ DOMAIN dsProfiles = 1 .. Len(dsProfiles)
BY DEF DsInv, CatalogOK

LEMMA CatalogStays ==
  ASSUME CatalogOK, UNCHANGED <<dsDecks, dsProfiles, dsContents>>,
         dsHistory'.updates = dsHistory.updates,
         dsHistory' \in [updates : Seq(Nat), created : [Calls -> Nat]]
  PROVE  CatalogOK'
BY DEF CatalogOK, RevisionsCount, ProfilesReadable, RulesOfOwnDeck

LEMMA JobsStay ==
  ASSUME JobsOK, UNCHANGED <<dsFiles, dsJobs>>, dsHistory'.created = dsHistory.created
  PROVE  JobsOK'
BY DEF JobsOK

LEMMA NothingGrows ==
  ASSUME DsInv, UNCHANGED <<dsProfiles, dsContents, dsFiles>>
  PROVE  ServiceGrows
BY ServiceFacts DEF ServiceGrows

\* A step that only moves its thread.
LEMMA OnlyGoes ==
  ASSUME DsInv, UNCHANGED <<dsDecks, dsProfiles, dsContents, dsFiles, dsJobs, dsHistory>>
  PROVE  CatalogOK' /\ JobsOK' /\ ServiceGrows
<1>1. CatalogOK' BY ServiceFacts, CatalogStays DEF CatalogOK
<1>2. JobsOK' BY ServiceFacts, JobsStay
<1> QED BY <1>1, <1>2, NothingGrows

\* A thread at its last step has nothing more to show.
LEMMA LastEarned ==
  ASSUME DsInv, ServiceGrows, NEW t \in Calls, NEW name, At(t, name),
         name \in {"register", "create", "update", "archive", "job"},
         NEW q, q = Proceed(t)
  PROVE  Earned(q)'
<1> SUFFICES ASSUME NEW c, c = dsCalls[t] PROVE Earned(q)' OBVIOUS
<1>1. /\ c \in CallStates /\ Asked(t, c) /\ Earned(c) /\ c.method \in Methods
      /\ c.step \in 1 .. Len(Steps[c.method]) /\ Steps[c.method][c.step] = name
  BY Where
<1>2. c.step = Len(Steps[c.method])
  <2> SUFFICES ASSUME NEW m \in Methods, m = c.method, NEW i \in 1 .. Len(Steps[m]), i = c.step,
                      Steps[m][i] = name
               PROVE  i = Len(Steps[m]) BY <1>1
  <2>1. m = name \/ (m = "enqueue" /\ i = 6) BY StepPlaces
  <2>2. CASE m \in {"register", "archive"}
    <3>1. Len(Steps[m]) = 1 BY <2>2, StepCount
    <3> QED BY <3>1
  <2>3. CASE m \in {"create", "update"}
    <3>1. Len(Steps[m]) = 3 /\ i = 3 BY <2>1, <2>3, StepCount, StepPlaces
    <3> QED BY <3>1
  <2>4. CASE m = "enqueue"
    <3>1. Len(Steps[m]) = 6 /\ i = 6 BY <2>1, <2>4, StepCount
    <3> QED BY <3>1
  <2> QED BY <2>2, <2>3, <2>4 DEF Methods
<1>3. /\ q.method = c.method /\ q.deck = c.deck /\ q.profile = c.profile
      /\ q.content = c.content /\ q.step = c.step BY <1>2, ProceedForm
<1>4. Earned(c)' BY <1>1, CallKept
<1> QED BY <1>3, <1>4 DEF Earned

-----------------------------------------------------------------------------
(* The catalogs. *)

LEMMA RequestStep ==
  ASSUME DsInv, NEW t \in Calls, Request(t)
  PROVE  DsInv'
<1>1. ASSUME NEW method \in DOMAIN Steps, NEW d \in DeckIds, NEW p \in DOMAIN dsProfiles,
             NEW x \in Contents,
             dsCalls' = [dsCalls EXCEPT ![t] = [IdleCall EXCEPT !.method = method, !.step = 1,
                           !.deck = d, !.profile = p, !.content = x, !.key = t]],
             UNCHANGED <<dsDecks, dsProfiles, dsContents, dsFiles, dsJobs, dsHistory>>
      PROVE  DsInv'
  <2>1. method \in Methods BY StepsOf
  <2>2. p \in 1 .. Len(dsProfiles) /\ p \in Nat BY ServiceFacts
  <2> DEFINE q == [IdleCall EXCEPT !.method = method, !.step = 1, !.deck = d, !.profile = p,
                                   !.content = x, !.key = t]
  <2>3. q \in CallStates
    <3>1. IdleCall \in CallStates BY DEF IdleCall, CallStates
    <3> QED BY <2>1, <2>2, <3>1 DEF CallStates
  <2>4. /\ q.method = method /\ q.step = 1 /\ q.deck = d /\ q.profile = p /\ q.content = x
        /\ q.key = t BY DEF IdleCall
  <2>5. dsCalls' = [dsCalls EXCEPT ![t] = q] BY <1>1
  <2> HIDE DEF q
  <2>6. 1 \in 1 .. Len(Steps[method]) /\ method # ""
    <3>1. Len(Steps[method]) \in 1 .. 6 BY <2>1, StepCount
    <3>2. \A n \in 1 .. 6 : 1 \in 1 .. n OBVIOUS
    <3>3. 1 \in 1 .. Len(Steps[method]) BY <3>1, <3>2, Zenon
    <3>4. method # "" BY <2>1 DEF Methods
    <3> QED BY <3>3, <3>4
  <2>7. Asked(t, q)' BY <1>1, <2>2, <2>4, <2>6 DEF Asked
  <2>8. Earned(q)' BY <2>4 DEF Earned
  <2> QED BY <1>1, <2>3, <2>5, <2>7, <2>8, OnlyGoes, ServiceMoves
<1>2. PICK method \in DOMAIN Steps, d \in DeckIds, p \in DOMAIN dsProfiles, c \in Contents :
       /\ method = "register" => p = 1 /\ c \in dsContents
       /\ method = "archive" => d = dsProfiles[p].deck /\ c \in dsContents
       /\ method = "update" => d = dsProfiles[p].deck
       /\ method = "enqueue" => c = dsProfiles[p].content
       /\ dsCalls' = [dsCalls EXCEPT ![t] = [IdleCall EXCEPT !.method = method, !.step = 1, !.deck = d,
                        !.profile = p, !.content = c, !.key = t]] BY DEF Request
<1>3. UNCHANGED <<dsDecks, dsProfiles, dsContents, dsFiles, dsJobs, dsHistory>>
  BY DEF Request
<1> QED BY <1>1, <1>2, <1>3

LEMMA RegisterStep ==
  ASSUME DsInv, NEW t \in Calls, RegisterDeck(t)
  PROVE  DsInv'
<1> SUFFICES ASSUME NEW c, c = dsCalls[t], NEW q, q = dsCalls'[t] PROVE DsInv' OBVIOUS
<1>1. At(t, "register") /\ UNCHANGED <<dsProfiles, dsContents, dsFiles, dsJobs, dsHistory>>
  BY DEF RegisterDeck
<1>2. c.deck \in DeckIds BY <1>1, Where
<1>3. q \in {Fail(t), Proceed(t)} /\ Goes(t, q) BY DEF RegisterDeck, Goes, DsInv
<1>4. CatalogOK'
  <2>1. /\ dsDecks \in SUBSET DeckIds /\ IsFiniteSet(dsDecks) /\ MaxDecks \in Nat
        /\ Cardinality(dsDecks) <= MaxDecks /\ Cardinality(dsDecks) \in Nat
    BY ServiceFacts, ServiceAssumption, FS_CardinalityType DEF CatalogOK
  <2>2. dsDecks' \in SUBSET DeckIds /\ IsFiniteSet(dsDecks') /\ Cardinality(dsDecks') <= MaxDecks
    <3>1. CASE dsDecks' = dsDecks BY <2>1, <3>1
    <3>2. CASE dsDecks' = dsDecks \cup {c.deck} /\ (c.deck \notin dsDecks => Cardinality(dsDecks) < MaxDecks)
      <4>1. IsFiniteSet(dsDecks') BY <2>1, <3>2, FS_AddElement
      <4>2. Cardinality(dsDecks') = IF c.deck \in dsDecks THEN Cardinality(dsDecks)
                                   ELSE Cardinality(dsDecks) + 1
        BY <2>1, <3>2, FS_AddElement
      <4> QED BY <1>2, <2>1, <3>2, <4>1, <4>2
    <3>3. dsDecks' = dsDecks \/ (dsDecks' = dsDecks \cup {c.deck} /\ (c.deck \notin dsDecks => Cardinality(dsDecks) < MaxDecks))
      BY <2>1 DEF RegisterDeck, Registered
    <3> QED BY <3>1, <3>2, <3>3
  <2> QED
    BY <1>1, <2>2, ServiceFacts DEF CatalogOK, RevisionsCount, ProfilesReadable,
      RulesOfOwnDeck
<1>5. JobsOK' /\ ServiceGrows BY <1>1, ServiceFacts, JobsStay, NothingGrows
<1>6. q = Proceed(t) => Earned(q)' BY <1>1, <1>5, LastEarned
<1> QED BY <1>1, <1>3, <1>4, <1>5, <1>6, ServiceGoes

LEMMA CheckStep ==
  ASSUME DsInv, NEW t \in Calls, CheckProfile(t)
  PROVE  DsInv'
<1> SUFFICES ASSUME NEW c, c = dsCalls[t], NEW q, q = dsCalls'[t] PROVE DsInv' OBVIOUS
<1>1. /\ At(t, "check")
      /\ UNCHANGED <<dsDecks, dsProfiles, dsContents, dsFiles, dsJobs, dsHistory>>
  BY DEF CheckProfile
<1>2. /\ c.method \in {"create", "update"} /\ c.step = 1 /\ Len(Steps[c.method]) = 3
  BY <1>1, Where, StepPlaces, StepCount
<1>3. q \in {Fail(t), Proceed(t)} /\ Goes(t, q) BY DEF CheckProfile, Goes, DsInv
<1>4. ASSUME q = Proceed(t), q # Fail(t) PROVE Earned(q)'
  <2>1. /\ q.method = c.method /\ q.deck = c.deck /\ q.profile = c.profile
        /\ q.content = c.content /\ q.step = 2 BY <1>1, <1>2, <1>4, ProceedForm
  <2>2. ContentCards[c.content] \subseteq
          DeckCards[IF c.method = "update" THEN dsProfiles[c.profile].deck ELSE c.deck]
    BY <1>3, <1>4 DEF CheckProfile, RuleCards, Goes, DsInv
  <2> QED BY <1>1, <1>2, <2>1, <2>2 DEF Earned
<1> QED BY <1>1, <1>3, <1>4, OnlyGoes, ServiceGoes

LEMMA PutStep ==
  ASSUME DsInv, NEW t \in Calls, PutContent(t)
  PROVE  DsInv'
<1> SUFFICES ASSUME NEW c, c = dsCalls[t], NEW q, q = Proceed(t) PROVE DsInv' OBVIOUS
<1>1. /\ At(t, "content") /\ dsContents' = dsContents \cup {c.content} /\ Goes(t, q)
      /\ UNCHANGED <<dsDecks, dsProfiles, dsFiles, dsJobs, dsHistory>>
  BY DEF PutContent
<1>0. At(t, "content") BY <1>1
<1>2. /\ c.method \in {"create", "update"} /\ c.step = 2 /\ c.content \in Contents
      /\ c \in CallStates /\ Asked(t, c) /\ Earned(c)
      /\ Len(Steps[c.method]) = 3 BY <1>1, Where, StepPlaces, StepCount
<1>3. CatalogOK'
  BY <1>1, <1>2, ServiceFacts DEF CatalogOK, RevisionsCount, ProfilesReadable,
    RulesOfOwnDeck
<1>4. JobsOK' BY <1>1, ServiceFacts, JobsStay
<1>5. ServiceGrows BY <1>1, ServiceFacts DEF ServiceGrows
<1>6. Earned(q)'
  <2>1. /\ q.method = c.method /\ q.deck = c.deck /\ q.profile = c.profile
        /\ q.content = c.content /\ q.step = 3
    <3>1. 2 # Len(Steps[c.method]) BY <1>2
    <3>2. q.step = IF c.step = Len(Steps[c.method]) THEN c.step ELSE c.step + 1
      BY <1>0, ProceedForm
    <3> QED BY <1>0, <1>2, <3>1, <3>2, ProceedForm
  <2> QED BY <1>1, <1>2, <2>1 DEF Earned
<1> QED BY <1>1, <1>3, <1>4, <1>5, <1>6, ServiceGoes

Histories == [updates : Seq(Nat), created : [Calls -> Nat]]

LEMMA HistoryForm ==
  ASSUME NEW h \in Histories, NEW u \in Seq(Nat)
  PROVE  /\ [h EXCEPT !.updates = u] \in Histories
         /\ [h EXCEPT !.updates = u].updates = u
         /\ [h EXCEPT !.updates = u].created = h.created
BY DEF Histories

LEMMA CreateStep ==
  ASSUME DsInv, NEW t \in Calls, CreateProfile(t)
  PROVE  DsInv'
<1> SUFFICES ASSUME NEW c, c = dsCalls[t], NEW q, q = Proceed(t) PROVE DsInv' OBVIOUS
<1> DEFINE profile == Profile(c.deck, c.content)
<1>1. /\ dsProfiles' = Append(dsProfiles, profile) /\ Goes(t, q)
      /\ dsHistory' = [dsHistory EXCEPT !.updates = Append(@, 0)]
      /\ UNCHANGED <<dsDecks, dsContents, dsFiles, dsJobs>> BY DEF CreateProfile
<1>2. At(t, "create") BY DEF CreateProfile
<1>3. /\ c.deck \in DeckIds /\ c.content \in Contents /\ Earned(c) /\ c.method = "create"
      /\ c.step = 3 BY <1>2, Where, StepPlaces
<1>4. /\ profile \in Profiles /\ profile.deck = c.deck /\ profile.content = c.content
      /\ profile.state = "active" /\ profile.revision = 1 BY <1>3 DEF Profile, Profiles
<1> HIDE DEF profile
<1>5. /\ dsProfiles' \in Seq(Profiles) /\ Len(dsProfiles') = Len(dsProfiles) + 1
      /\ Len(dsProfiles) \in Nat /\ dsProfiles'[Len(dsProfiles) + 1] = profile
      /\ \A p \in 1 .. Len(dsProfiles) : dsProfiles'[p] = dsProfiles[p]
      /\ DOMAIN dsProfiles' = 1 .. Len(dsProfiles) + 1 BY <1>1, <1>4, ServiceFacts
<1>6. /\ dsHistory \in [updates : Seq(Nat), created : [Calls -> Nat]]
      /\ dsHistory.updates \in Seq(Nat) /\ Len(dsHistory.updates) = Len(dsProfiles)
  BY ServiceFacts DEF CatalogOK
<1>7. /\ dsHistory' \in [updates : Seq(Nat), created : [Calls -> Nat]]
      /\ dsHistory'.updates = Append(dsHistory.updates, 0)
      /\ dsHistory'.created = dsHistory.created
  <2>1. dsHistory' = [dsHistory EXCEPT !.updates = Append(dsHistory.updates, 0)]
    BY <1>1
  <2>2. Append(dsHistory.updates, 0) \in Seq(Nat) BY <1>6
  <2> QED BY <1>6, <2>1, <2>2, HistoryForm DEF Histories
<1>8. ASSUME NEW p \in DOMAIN dsProfiles'
      PROVE  /\ dsProfiles'[p].revision = 1 + dsHistory'.updates[p]
             /\ dsProfiles'[p].content \in dsContents'
             /\ ContentCards[dsProfiles'[p].content] \subseteq DeckCards[dsProfiles'[p].deck]
  <2>1. CASE p = Len(dsProfiles) + 1
    <3>1. dsProfiles'[p] = profile /\ dsHistory'.updates[p] = 0
      BY <1>5, <1>6, <1>7, <2>1
    <3>3. dsProfiles'[p].revision = 1 + dsHistory'.updates[p] BY <1>4, <3>1
    <3>2. c.content \in dsContents /\ ContentCards[c.content] \subseteq DeckCards[c.deck]
      BY <1>3 DEF Earned
    <3> QED BY <1>1, <1>4, <3>1, <3>2, <3>3
  <2>2. CASE p # Len(dsProfiles) + 1
    <3>1. p \in 1 .. Len(dsProfiles) /\ p \in DOMAIN dsProfiles
      BY <1>5, <2>2, ServiceFacts
    <3>2. dsProfiles'[p] = dsProfiles[p] /\ dsHistory'.updates[p] = dsHistory.updates[p]
      BY <1>5, <1>6, <1>7, <3>1
    <3>3. /\ dsProfiles[p].revision = 1 + dsHistory.updates[p]
          /\ dsProfiles[p].content \in dsContents
          /\ ContentCards[dsProfiles[p].content] \subseteq DeckCards[dsProfiles[p].deck]
      BY <3>1, ServiceFacts DEF CatalogOK, RevisionsCount, ProfilesReadable,
        RulesOfOwnDeck
    <3> QED BY <1>1, <3>2, <3>3
  <2> QED BY <2>1, <2>2
<1>9. RevisionsCount' /\ ProfilesReadable' /\ RulesOfOwnDeck'
  BY <1>8 DEF RevisionsCount, ProfilesReadable, RulesOfOwnDeck
<1>10. CatalogOK'
  <2>1. Len(dsHistory'.updates) = Len(dsProfiles') /\ Len(dsProfiles') >= 1
    BY <1>5, <1>6, <1>7
  <2> QED BY <1>1, <1>5, <1>7, <1>9, <2>1, ServiceFacts DEF CatalogOK
<1>11. JobsOK' BY <1>1, <1>7, ServiceFacts, JobsStay
<1>12. ServiceGrows BY <1>1, <1>5 DEF ServiceGrows
<1>13. Earned(q)' BY <1>2, <1>12, LastEarned
<1> QED BY <1>1, <1>2, <1>10, <1>11, <1>12, <1>13, ServiceGoes

\* A step that replaces the record of a profile of its own deck.
LEMMA RecordReplaced ==
  ASSUME DsInv, NEW p \in 1 .. Len(dsProfiles), NEW profile \in Profiles, NEW n \in Nat,
         dsProfiles' = [dsProfiles EXCEPT ![p] = profile],
         profile.deck = dsProfiles[p].deck, profile.revision = 1 + n,
         profile.content \in dsContents,
         ContentCards[profile.content] \subseteq DeckCards[profile.deck],
         dsHistory' \in Histories, dsHistory'.created = dsHistory.created,
         dsHistory'.updates = [dsHistory.updates EXCEPT ![p] = n],
         UNCHANGED <<dsDecks, dsContents, dsFiles, dsJobs>>
  PROVE  CatalogOK' /\ JobsOK' /\ ServiceGrows
<1>1. /\ dsHistory \in [updates : Seq(Nat), created : [Calls -> Nat]]
      /\ dsHistory.updates \in Seq(Nat) /\ Len(dsHistory.updates) = Len(dsProfiles)
      /\ Len(dsProfiles) \in Nat /\ DOMAIN dsProfiles = 1 .. Len(dsProfiles)
      /\ dsProfiles \in Seq(Profiles) BY ServiceFacts DEF CatalogOK
<1>2. /\ dsProfiles' \in Seq(Profiles) /\ Len(dsProfiles') = Len(dsProfiles)
      /\ DOMAIN dsProfiles' = 1 .. Len(dsProfiles) /\ dsProfiles'[p] = profile
      /\ \A r \in 1 .. Len(dsProfiles) : r # p => dsProfiles'[r] = dsProfiles[r]
  BY <1>1
<1>3. /\ dsHistory'.updates = [dsHistory.updates EXCEPT ![p] = n]
      /\ dsHistory'.created = dsHistory.created
      /\ dsHistory' \in [updates : Seq(Nat), created : [Calls -> Nat]] BY DEF Histories
<1>4. /\ dsHistory'.updates[p] = n /\ Len(dsHistory'.updates) = Len(dsProfiles)
      /\ \A r \in 1 .. Len(dsProfiles) : r # p => dsHistory'.updates[r] = dsHistory.updates[r]
  BY <1>1, <1>3
<1>5. RevisionsCount' /\ ProfilesReadable' /\ RulesOfOwnDeck'
  <2>1. ASSUME NEW r \in DOMAIN dsProfiles'
        PROVE  /\ dsProfiles'[r].revision = 1 + dsHistory'.updates[r]
               /\ dsProfiles'[r].content \in dsContents'
               /\ ContentCards[dsProfiles'[r].content] \subseteq DeckCards[dsProfiles'[r].deck]
    <3>1. CASE r = p BY <1>2, <1>4, <3>1
    <3>2. CASE r # p
      <4>1. /\ r \in DOMAIN dsProfiles /\ dsProfiles'[r] = dsProfiles[r]
            /\ dsHistory'.updates[r] = dsHistory.updates[r] BY <1>1, <1>2, <1>4, <3>2
      <4>2. /\ dsProfiles[r].revision = 1 + dsHistory.updates[r]
            /\ dsProfiles[r].content \in dsContents
            /\ ContentCards[dsProfiles[r].content] \subseteq DeckCards[dsProfiles[r].deck]
        BY <4>1, ServiceFacts DEF CatalogOK, RevisionsCount, ProfilesReadable,
          RulesOfOwnDeck
      <4> QED BY <4>1, <4>2
    <3> QED BY <3>1, <3>2
  <2> QED BY <2>1 DEF RevisionsCount, ProfilesReadable, RulesOfOwnDeck
<1>6. CatalogOK' BY <1>2, <1>3, <1>4, <1>5, ServiceFacts DEF CatalogOK
<1>7. JobsOK' BY <1>3, ServiceFacts, JobsStay
<1>8. ServiceGrows
  <2>1. \A r \in 1 .. Len(dsProfiles) : dsProfiles'[r].deck = dsProfiles[r].deck
    BY <1>2
  <2> QED BY <1>1, <1>2, <2>1 DEF ServiceGrows
<1> QED BY <1>6, <1>7, <1>8

LEMMA ProfileFacts ==
  ASSUME DsInv, NEW p \in 1 .. Len(dsProfiles)
  PROVE  /\ dsProfiles[p] \in Profiles /\ dsHistory.updates[p] \in Nat
         /\ dsHistory \in Histories /\ dsHistory.updates \in Seq(Nat)
         /\ p \in 1 .. Len(dsHistory.updates)
         /\ dsProfiles[p].revision = 1 + dsHistory.updates[p]
         /\ dsProfiles[p].content \in dsContents
         /\ ContentCards[dsProfiles[p].content] \subseteq DeckCards[dsProfiles[p].deck]
<1>1. /\ dsHistory \in Histories /\ dsHistory.updates \in Seq(Nat)
      /\ Len(dsHistory.updates) = Len(dsProfiles) /\ dsProfiles \in Seq(Profiles)
  BY ServiceFacts DEF CatalogOK, Histories
<1>2. dsProfiles[p] \in Profiles /\ dsHistory.updates[p] \in Nat BY <1>1
<1> QED
  BY <1>1, <1>2, ServiceFacts DEF CatalogOK, RevisionsCount, ProfilesReadable,
    RulesOfOwnDeck

LEMMA UpdateStep ==
  ASSUME DsInv, NEW t \in Calls, UpdateProfile(t)
  PROVE  DsInv'
<1> SUFFICES ASSUME NEW c, c = dsCalls[t], NEW q, q = Proceed(t),
                    NEW old, old = dsProfiles[c.profile],
                    NEW k, k = dsHistory.updates[c.profile],
                    NEW m, m = k + 1
             PROVE  DsInv' OBVIOUS
<1>1. At(t, "update") /\ UNCHANGED <<dsDecks, dsContents, dsFiles, dsJobs>>
  BY DEF UpdateProfile
<1>2. CASE Editable(t)
  <2> DEFINE new == [old EXCEPT !.content = c.content, !.state = "active", !.revision = @ + 1]
  <2>1. /\ dsProfiles' = [dsProfiles EXCEPT ![c.profile] = new]
        /\ dsHistory' = [dsHistory EXCEPT !.updates[c.profile] = @ + 1]
        /\ Goes(t, q) BY <1>2 DEF UpdateProfile, Current
  <2>2. /\ c.profile \in 1 .. Len(dsProfiles) /\ c.content \in Contents /\ Earned(c)
        /\ c.method = "update" /\ c.step = 3 BY <1>1, Where, StepPlaces
  <2>3. /\ old \in Profiles /\ k \in Nat /\ dsHistory \in Histories
        /\ c.profile \in 1 .. Len(dsHistory.updates)
        /\ old.revision = 1 + k BY <2>2, ProfileFacts
  <2>11. m \in Nat /\ old.revision = m BY <2>3
  <2>12. new.deck = old.deck /\ new.content = c.content /\ new.revision = old.revision + 1
    BY <2>3 DEF Profiles
  <2>13. new \in Profiles
    <3>1. PICK n \in Nat : n = old.revision + 1 BY <2>3
    <3>2. new = [old EXCEPT !.content = c.content, !.state = "active", !.revision = n]
      BY <3>1
    <3> HIDE DEF new
    <3> QED BY <2>2, <2>3, <3>2 DEF Profiles
  <2> HIDE DEF new
  <2>5. /\ c.content \in dsContents
        /\ ContentCards[c.content] \subseteq DeckCards[old.deck] BY <2>2 DEF Earned
  <2>6. dsHistory' = [dsHistory EXCEPT !.updates[c.profile] = m] BY <2>1
  <2>7. /\ dsHistory' \in Histories /\ dsHistory'.created = dsHistory.created
        /\ dsHistory'.updates = [dsHistory.updates EXCEPT ![c.profile] = m]
    <3> SUFFICES ASSUME NEW h, h = dsHistory, NEW u, u = [h.updates EXCEPT ![c.profile] = m],
                        NEW x, x = dsHistory'
                 PROVE  x \in Histories /\ x.created = h.created /\ x.updates = u
      OBVIOUS
    <3>1. x = [h EXCEPT !.updates = u] BY <2>6
    <3>2. h \in Histories /\ c.profile \in 1 .. Len(h.updates) /\ h.updates \in Seq(Nat)
      BY <2>3 DEF Histories
    <3>3. u \in Seq(Nat) BY <2>11, <3>2
    <3> QED BY <3>1, <3>2, <3>3 DEF Histories
  <2>8. new.revision = 1 + m BY <2>11, <2>12
  <2>14. /\ new.deck = dsProfiles[c.profile].deck /\ new.content \in dsContents
         /\ ContentCards[new.content] \subseteq DeckCards[new.deck] BY <2>5, <2>12
  <2>9. CatalogOK' /\ JobsOK' /\ ServiceGrows
    BY <1>1, <2>1, <2>2, <2>7, <2>8, <2>11, <2>13, <2>14, RecordReplaced
  <2>10. Earned(q)' BY <1>1, <2>9, LastEarned
  <2> QED BY <1>1, <2>1, <2>9, <2>10, ServiceGoes
<1>3. CASE ~Editable(t)
  <2>1. Goes(t, Fail(t)) /\ UNCHANGED <<dsDecks, dsProfiles, dsContents, dsFiles, dsJobs, dsHistory>>
    BY <1>3 DEF UpdateProfile
  <2> QED BY <1>1, <2>1, OnlyGoes, ServiceGoes
<1> QED BY <1>2, <1>3

LEMMA ArchiveStep ==
  ASSUME DsInv, NEW t \in Calls, ArchiveProfile(t)
  PROVE  DsInv'
<1> SUFFICES ASSUME NEW c, c = dsCalls[t], NEW q, q = Proceed(t),
                    NEW old, old = dsProfiles[c.profile],
                    NEW m, m = dsHistory.updates[c.profile]
             PROVE  DsInv' OBVIOUS
<1> DEFINE new == [old EXCEPT !.state = "archived"]
<1>1. At(t, "archive") /\ UNCHANGED <<dsDecks, dsContents, dsFiles, dsJobs, dsHistory>>
  BY DEF ArchiveProfile
<1>2. dsProfiles' = [dsProfiles EXCEPT ![c.profile] = new] /\ Goes(t, q)
  BY DEF ArchiveProfile
<1>3. c.profile \in 1 .. Len(dsProfiles) BY <1>1, Where
<1>4. /\ old \in Profiles /\ m \in Nat /\ dsHistory \in Histories
      /\ c.profile \in 1 .. Len(dsHistory.updates) /\ dsHistory.updates \in Seq(Nat)
      /\ old.revision = 1 + m /\ old.content \in dsContents
      /\ ContentCards[old.content] \subseteq DeckCards[old.deck] BY <1>3, ProfileFacts
<1>5. /\ new.deck = old.deck /\ new.content = old.content /\ new.revision = old.revision
      /\ new \in Profiles BY <1>4 DEF Profiles
<1> HIDE DEF new
<1>6. dsHistory.updates = [dsHistory.updates EXCEPT ![c.profile] = m] BY <1>4, SMTT(30)
<1>9. /\ dsHistory' \in Histories /\ dsHistory'.created = dsHistory.created
      /\ dsHistory'.updates = [dsHistory.updates EXCEPT ![c.profile] = m]
  BY <1>1, <1>4, <1>6
<1>10. /\ new.deck = dsProfiles[c.profile].deck /\ new.content \in dsContents
       /\ ContentCards[new.content] \subseteq DeckCards[new.deck]
       /\ new.revision = 1 + m /\ new \in Profiles /\ m \in Nat BY <1>4, <1>5
<1>11. UNCHANGED <<dsDecks, dsContents, dsFiles, dsJobs>> BY <1>1
<1>7. CatalogOK' /\ JobsOK' /\ ServiceGrows
  BY <1>2, <1>3, <1>9, <1>10, <1>11, RecordReplaced
<1>8. Earned(q)' BY <1>1, <1>7, LastEarned
<1> QED BY <1>1, <1>2, <1>7, <1>8, ServiceGoes

-----------------------------------------------------------------------------
(* The experiment files and the jobs. *)

LEMMA ComposeStep ==
  ASSUME DsInv, NEW t \in Calls, Compose(t)
  PROVE  DsInv'
<1> SUFFICES ASSUME NEW c, c = dsCalls[t], NEW r, r = Proceed(t), NEW q, q = dsCalls'[t],
                    NEW x, x = dsProfiles[c.profile].content
             PROVE  DsInv' OBVIOUS
<1>1. /\ At(t, "compose")
      /\ UNCHANGED <<dsDecks, dsProfiles, dsContents, dsFiles, dsJobs, dsHistory>>
  BY DEF Compose
<1>2. q \in {Fail(t), [r EXCEPT !.content = x]} /\ Goes(t, q)
  BY DEF Compose, Goes, DsInv
<1>3. CASE q = Fail(t) BY <1>1, <1>2, <1>3, OnlyGoes, ServiceGoes
<1>4. CASE q = [r EXCEPT !.content = x]
  <2>1. /\ c.method = "enqueue" /\ c.step = 1 /\ Len(Steps[c.method]) = 6
        /\ c.key = t /\ c.profile \in 1 .. Len(dsProfiles) /\ c.deck \in DeckIds
        /\ c.profile \in Nat BY <1>1, Where, StepPlaces, StepCount
  <2>2. /\ r \in CallStates /\ r.method = "enqueue" /\ r.deck = c.deck
        /\ r.profile = c.profile /\ r.key = c.key /\ r.step = 2
    <3>1. 1 # Len(Steps[c.method]) BY <2>1
    <3>2. r.step = IF c.step = Len(Steps[c.method]) THEN c.step ELSE c.step + 1
      BY <1>1, ProceedForm
    <3> QED BY <1>1, <2>1, <3>1, <3>2, ProceedForm
  <2>3. x \in Contents BY <2>1, ProfileFacts DEF Profiles
  <2>4. /\ q \in CallStates /\ q.method = "enqueue" /\ q.deck = c.deck
        /\ q.profile = c.profile /\ q.key = c.key /\ q.step = 2 /\ q.content = x
    BY <1>4, <2>2, <2>3 DEF CallStates
  <2>5. 2 \in 1 .. Len(Steps[c.method]) BY <2>1
  <2>6. Asked(t, q)' BY <1>1, <2>1, <2>3, <2>4, <2>5 DEF Asked
  <2>7. Earned(q)' BY <2>4 DEF Earned
  <2> QED BY <1>1, <1>2, <2>4, <2>6, <2>7, OnlyGoes, ServiceMoves DEF Goes
<1> QED BY <1>2, <1>3, <1>4

LEMMA EnqueueAt ==
  ASSUME DsInv, NEW t \in Calls, NEW name, At(t, name),
         name \in {"exists", "open", "write", "replace", "job"},
         NEW c, c = dsCalls[t], NEW q, q = Proceed(t)
  PROVE  /\ c.method = "enqueue" /\ Len(Steps[c.method]) = 6 /\ c.content \in Contents
         /\ q.method = "enqueue" /\ q.content = c.content
         /\ name = "exists" => q.step = 3
         /\ name = "open" => q.step = 4
         /\ name = "write" => q.step = 5
         /\ name = "replace" => q.step = 6
<1>1. /\ c.method = "enqueue" /\ Len(Steps[c.method]) = 6 /\ c.content \in Contents
      /\ name = "exists" => c.step = 2
      /\ name = "open" => c.step = 3
      /\ name = "write" => c.step = 4
      /\ name = "replace" => c.step = 5 BY Where, StepPlaces, StepCount
<1>2. /\ q.method = c.method /\ q.content = c.content
      /\ q.step = IF c.step = Len(Steps[c.method]) THEN c.step ELSE c.step + 1
  BY ProceedForm
<1> QED BY <1>1, <1>2

LEMMA ExistsStep ==
  ASSUME DsInv, NEW t \in Calls, ExperimentExists(t)
  PROVE  DsInv'
<1> SUFFICES ASSUME NEW c, c = dsCalls[t], NEW q, q = dsCalls'[t] PROVE DsInv' OBVIOUS
<1>1. /\ At(t, "exists")
      /\ UNCHANGED <<dsDecks, dsProfiles, dsContents, dsFiles, dsJobs, dsHistory>>
  BY DEF ExperimentExists
<1>2. /\ Goes(t, q)
      /\ q = IF dsFiles[c.content].final = Absent THEN Proceed(t)
             ELSE [c EXCEPT !.step = Len(Steps["enqueue"])]
  BY DEF ExperimentExists, Goes, DsInv
<1>3. CASE dsFiles[c.content].final = Absent
  <2>1. q = Proceed(t) BY <1>2, <1>3
  <2>2. q.method = "enqueue" /\ q.step = 3 BY <1>1, <2>1, EnqueueAt
  <2>3. Earned(q)' BY <2>2 DEF Earned
  <2> QED BY <1>1, <1>2, <2>1, <2>3, OnlyGoes, ServiceGoes
<1>4. CASE dsFiles[c.content].final # Absent
  <2>1. Len(Steps["enqueue"]) = 6 BY StepsOf
  <2>2. q = [c EXCEPT !.step = 6] BY <1>2, <1>4, <2>1
  <2>3. /\ c \in CallStates /\ Asked(t, c) BY <1>1, Where
  <2>4. c.method = "enqueue" /\ Len(Steps[c.method]) = 6 /\ c.content \in Contents
    BY <1>1, EnqueueAt
  <2>5. /\ q \in CallStates /\ q.method = c.method /\ q.deck = c.deck
        /\ q.profile = c.profile /\ q.key = c.key /\ q.step = 6 /\ q.content = c.content
    <3>1. q \in CallStates
      <4>1. PICK n \in Nat : n = 6 /\ q = [c EXCEPT !.step = n] BY <2>2
      <4> QED BY <2>3, <4>1 DEF CallStates
    <3>2. /\ q.method = c.method /\ q.deck = c.deck
          /\ q.profile = c.profile /\ q.key = c.key /\ q.step = 6 /\ q.content = c.content
      BY <2>2, <2>3 DEF CallStates
    <3> QED BY <3>1, <3>2
  <2>6. 6 \in 1 .. Len(Steps[c.method]) BY <2>4
  <2>7. Asked(t, q)' BY <1>1, <2>3, <2>4, <2>5, <2>6 DEF Asked
  <2>8. dsFiles[c.content].final = Complete
    BY <1>4, <2>4, ServiceFacts DEF JobsOK, FileOK
  <2>9. Earned(q)' BY <1>1, <2>4, <2>5, <2>8 DEF Earned
  <2> QED BY <1>1, <1>2, <2>5, <2>7, <2>9, OnlyGoes, ServiceMoves DEF Goes
<1> QED BY <1>3, <1>4

\* A step on one experiment file: a file that is whole stays so.
LEMMA FileStep ==
  ASSUME DsInv, NEW x \in Contents, NEW g \in ExperimentFiles, FileOK(g),
         dsFiles' = [dsFiles EXCEPT ![x] = g],
         dsFiles[x].final = Complete => g.final = Complete,
         UNCHANGED <<dsDecks, dsProfiles, dsContents, dsJobs, dsHistory>>
  PROVE  CatalogOK' /\ JobsOK' /\ ServiceGrows
<1>1. /\ dsFiles \in [Contents -> ExperimentFiles] /\ \A y \in Contents : FileOK(dsFiles[y])
      /\ \A k \in DOMAIN dsJobs : dsJobs[k] \in Contents /\ dsFiles[dsJobs[k]].final = Complete
  BY ServiceFacts DEF JobsOK
<1>2. /\ dsFiles' \in [Contents -> ExperimentFiles] /\ dsFiles'[x] = g
      /\ \A y \in Contents : y # x => dsFiles'[y] = dsFiles[y] BY <1>1
<1>3. \A y \in Contents : FileOK(dsFiles'[y]) BY <1>1, <1>2
<1>4. \A y \in Contents : dsFiles[y].final = Complete => dsFiles'[y].final = Complete
  BY <1>2
<1>5. CatalogOK' BY ServiceFacts, CatalogStays DEF CatalogOK
<1>6. JobsOK' BY <1>1, <1>2, <1>3, <1>4, ServiceFacts DEF JobsOK
<1>7. ServiceGrows BY <1>4, ServiceFacts DEF ServiceGrows
<1> QED BY <1>5, <1>6, <1>7

LEMMA OpenStep ==
  ASSUME DsInv, NEW t \in Calls, OpenExperiment(t)
  PROVE  DsInv'
<1> SUFFICES ASSUME NEW c, c = dsCalls[t], NEW q, q = Proceed(t), NEW f, f = dsFiles[c.content]
             PROVE  DsInv' OBVIOUS
<1> DEFINE g == [f EXCEPT !.temporary = Partial, !.open = @ \cup {t}]
<1>1. /\ At(t, "open") /\ Goes(t, q)
      /\ UNCHANGED <<dsDecks, dsProfiles, dsContents, dsJobs, dsHistory>>
  BY DEF OpenExperiment
<1>2. dsFiles' = [dsFiles EXCEPT ![c.content] = g] BY DEF OpenExperiment, WriteTarget
<1>3. c.content \in Contents /\ q.method = "enqueue" /\ q.step = 4 BY <1>1, EnqueueAt
<1>4. f \in ExperimentFiles /\ FileOK(f) BY <1>3, ServiceFacts DEF JobsOK
<1>5. g \in ExperimentFiles BY <1>4 DEF ExperimentFiles, FileStates
<1>6. g.final = f.final /\ g.open # {} BY <1>4 DEF ExperimentFiles
<1> HIDE DEF g
<1>7. FileOK(g) BY <1>4, <1>6 DEF FileOK
<1>8. CatalogOK' /\ JobsOK' /\ ServiceGrows
  BY <1>1, <1>2, <1>3, <1>5, <1>6, <1>7, FileStep
<1>9. Earned(q)' BY <1>3 DEF Earned
<1> QED BY <1>1, <1>8, <1>9, ServiceGoes

LEMMA WriteStep ==
  ASSUME DsInv, NEW t \in Calls, WriteExperiment(t)
  PROVE  DsInv'
<1> SUFFICES ASSUME NEW c, c = dsCalls[t], NEW q, q = Proceed(t), NEW f, f = dsFiles[c.content]
             PROVE  DsInv' OBVIOUS
<1> DEFINE g == [f EXCEPT !.temporary = Complete, !.open = @ \ {t}]
<1>1. /\ At(t, "write") /\ Goes(t, q)
      /\ UNCHANGED <<dsDecks, dsProfiles, dsContents, dsJobs, dsHistory>>
  BY DEF WriteExperiment
<1>2. dsFiles' = [dsFiles EXCEPT ![c.content] = g] BY DEF WriteExperiment, WriteTarget
<1>3. c.content \in Contents /\ q.method = "enqueue" /\ q.step = 5 BY <1>1, EnqueueAt
<1>4. f \in ExperimentFiles /\ FileOK(f) BY <1>3, ServiceFacts DEF JobsOK
<1>5. g \in ExperimentFiles BY <1>4 DEF ExperimentFiles, FileStates
<1>6. g.final = f.final /\ g.temporary = Complete BY <1>4 DEF ExperimentFiles
<1> HIDE DEF g
<1>7. FileOK(g) BY <1>4, <1>6 DEF FileOK, Partial, Complete
<1>8. CatalogOK' /\ JobsOK' /\ ServiceGrows
  BY <1>1, <1>2, <1>3, <1>5, <1>6, <1>7, FileStep
<1>9. Earned(q)' BY <1>3 DEF Earned
<1> QED BY <1>1, <1>8, <1>9, ServiceGoes

LEMMA ReplaceFileStep ==
  ASSUME DsInv, NEW t \in Calls, ReplaceExperiment(t)
  PROVE  DsInv'
<1> SUFFICES ASSUME NEW c, c = dsCalls[t], NEW q, q = Proceed(t), NEW f, f = dsFiles[c.content]
             PROVE  DsInv' OBVIOUS
<1> DEFINE g == [final |-> f.temporary, temporary |-> Absent, open |-> {}]
<1>1. /\ At(t, "replace")
      /\ UNCHANGED <<dsDecks, dsProfiles, dsContents, dsJobs, dsHistory>>
  BY DEF ReplaceExperiment
<1>3. /\ c.content \in Contents /\ q.method = "enqueue" /\ q.step = 6 /\ q.content = c.content
  BY <1>1, EnqueueAt
<1>4. f \in ExperimentFiles /\ FileOK(f) BY <1>3, ServiceFacts DEF JobsOK
<1>2. CASE f.temporary # Absent /\ f.open = {}
  <2>1. dsFiles' = [dsFiles EXCEPT ![c.content] = g] /\ Goes(t, q)
    BY <1>2 DEF ReplaceExperiment, WriteTarget
  <2>2. f.temporary = Complete BY <1>2, <1>4 DEF FileOK, ExperimentFiles, FileStates
  <2>3. g \in ExperimentFiles /\ g.final = Complete /\ FileOK(g)
    BY <2>2 DEF ExperimentFiles, FileStates, FileOK, Partial, Absent
  <2> HIDE DEF g
  <2>4. CatalogOK' /\ JobsOK' /\ ServiceGrows BY <1>1, <1>3, <2>1, <2>3, FileStep
  <2>5. dsFiles'[q.content].final = Complete
    BY <1>3, <2>1, <2>3, ServiceFacts DEF JobsOK
  <2>6. Earned(q)' BY <1>3, <2>5 DEF Earned
  <2> QED BY <1>1, <2>1, <2>4, <2>6, ServiceGoes
<1>5. CASE ~(f.temporary # Absent /\ f.open = {})
  <2>1. UNCHANGED dsFiles /\ Goes(t, Fail(t))
    BY <1>5 DEF ReplaceExperiment, WriteTarget
  <2>2. UNCHANGED <<dsDecks, dsProfiles, dsContents, dsFiles, dsJobs, dsHistory>>
    BY <1>1, <2>1
  <2> QED BY <1>1, <2>1, <2>2, OnlyGoes, ServiceGoes
<1> QED BY <1>2, <1>5

LEMMA EnqueueStep ==
  ASSUME DsInv, NEW t \in Calls, EnqueueSearch(t)
  PROVE  DsInv'
<1> SUFFICES ASSUME NEW c, c = dsCalls[t], NEW q, q = dsCalls'[t], NEW key, key = <<t, 0>>
             PROVE  DsInv' OBVIOUS
<1>1. At(t, "job") /\ UNCHANGED <<dsDecks, dsProfiles, dsContents, dsFiles>>
  BY DEF EnqueueSearch
<1>2. /\ c.method = "enqueue" /\ c.step = 6 /\ c.content \in Contents /\ Earned(c) /\ c.key = t
  BY <1>1, Where, StepPlaces
<1>3. q \in {Fail(t), Proceed(t)} /\ Goes(t, q) BY DEF EnqueueSearch, Goes, DsInv
<1>4. dsFiles[c.content].final = Complete BY <1>2 DEF Earned
<1>5. JobKey(c) = key BY <1>2 DEF JobKey
<1>6. ServiceGrows BY <1>1, NothingGrows
<1>7. CASE key \in DOMAIN dsJobs
  <2>1. UNCHANGED <<dsJobs, dsHistory>> BY <1>5, <1>7 DEF EnqueueSearch
  <2>2. UNCHANGED <<dsDecks, dsProfiles, dsContents, dsFiles, dsJobs, dsHistory>>
    BY <1>1, <2>1
  <2>3. q = Proceed(t) => Earned(q)' BY <1>1, <1>6, LastEarned
  <2> QED BY <1>1, <1>3, <2>2, <2>3, OnlyGoes, ServiceGoes
<1>8. CASE key \notin DOMAIN dsJobs
  <2>1. /\ dsJobs' = [k \in DOMAIN dsJobs \cup {key} |-> IF k = key THEN c.content ELSE dsJobs[k]]
        /\ dsHistory' = [dsHistory EXCEPT !.created[t] = @ + 1]
    BY <1>5, <1>8 DEF EnqueueSearch
  <2>2. /\ dsHistory \in Histories /\ dsHistory.created \in [Calls -> Nat]
        /\ \A u \in Calls : dsHistory.created[u] <= 1
                            /\ (dsHistory.created[u] # 0 => <<u, 0>> \in DOMAIN dsJobs)
    BY ServiceFacts DEF CatalogOK, JobsOK, Histories
  <2>3. dsHistory.created[t] = 0 BY <1>8, <2>2
  <2>4. dsHistory' = [dsHistory EXCEPT !.created[t] = 1] BY <2>1, <2>3
  <2>5. /\ dsHistory' \in Histories /\ dsHistory'.updates = dsHistory.updates
        /\ dsHistory'.created = [dsHistory.created EXCEPT ![t] = 1]
    BY <2>2, <2>4 DEF Histories
  <2>6. CatalogOK' BY <1>1, <2>5, ServiceFacts, CatalogStays DEF Histories
  <2>7. \A k \in DOMAIN dsJobs' : dsJobs'[k] \in Contents /\ dsFiles[dsJobs'[k]].final = Complete
    BY <1>2, <1>4, <2>1, ServiceFacts DEF JobsOK
  <2>8. \A u \in Calls : dsHistory'.created[u] <= 1
                         /\ (dsHistory'.created[u] # 0 => <<u, 0>> \in DOMAIN dsJobs')
    <3> SUFFICES ASSUME NEW u \in Calls
                 PROVE  dsHistory'.created[u] <= 1
                        /\ (dsHistory'.created[u] # 0 => <<u, 0>> \in DOMAIN dsJobs')
      OBVIOUS
    <3>1. DOMAIN dsJobs' = DOMAIN dsJobs \cup {key} BY <2>1
    <3>2. CASE u = t
      <4>1. dsHistory'.created[u] = 1 BY <2>2, <2>5, <3>2
      <4> QED BY <3>1, <3>2, <4>1
    <3>3. CASE u # t
      <4>1. dsHistory'.created[u] = dsHistory.created[u] BY <2>2, <2>5, <3>3
      <4> QED BY <2>2, <3>1, <4>1
    <3> QED BY <3>2, <3>3
  <2>9. JobsOK'
    <3>1. dsHistory'.created \in [Calls -> Nat] BY <2>2, <2>5 DEF Histories
    <3> QED BY <1>1, <2>7, <2>8, <3>1, ServiceFacts DEF JobsOK
  <2>10. q = Proceed(t) => Earned(q)' BY <1>1, <1>6, LastEarned
  <2> QED BY <1>1, <1>3, <1>6, <2>6, <2>9, <2>10, ServiceGoes
<1> QED BY <1>7, <1>8

LEMMA AnswerLostStep ==
  ASSUME DsInv, NEW t \in Calls, AnswerLost(t)
  PROVE  DsInv'
<1> SUFFICES ASSUME NEW c, c = dsCalls[t], NEW q, q = dsCalls'[t] PROVE DsInv' OBVIOUS
<1>1. /\ c.method = "enqueue"
      /\ UNCHANGED <<dsDecks, dsProfiles, dsContents, dsFiles, dsJobs, dsHistory>>
  BY DEF AnswerLost
<1>2. c \in CallStates /\ Asked(t, c) BY DEF DsInv
<1>3. q = [c EXCEPT !.outcome = "", !.step = 1, !.tries = c.tries + 1] /\ Goes(t, q)
  BY DEF AnswerLost, Goes, DsInv
<1>4. q \in CallStates
  <2>3. c.tries \in Nat BY <1>2 DEF CallStates
  <2>2. c.tries + 1 \in Nat BY <2>3
  <2>1. PICK n \in Nat, m \in Nat : q = [c EXCEPT !.outcome = "", !.step = n, !.tries = m]
    BY <1>3, <2>2
  <2> QED BY <1>2, <2>1 DEF CallStates
<1>5. /\ q.method = c.method /\ q.deck = c.deck /\ q.profile = c.profile /\ q.key = c.key
      /\ q.step = 1 /\ q.content = c.content BY <1>2, <1>3 DEF CallStates
<1>6. c.method \in Methods /\ 1 \in 1 .. Len(Steps[c.method])
  <2>1. c.method \in Methods BY <1>1 DEF Methods
  <2>2. Len(Steps[c.method]) = 6 BY <1>1, <2>1, StepCount
  <2> QED BY <2>1, <2>2
<1>7. Asked(t, q)' BY <1>1, <1>2, <1>5, <1>6 DEF Asked
<1>8. Earned(q)' BY <1>1, <1>5 DEF Earned
<1> QED BY <1>1, <1>3, <1>4, <1>7, <1>8, OnlyGoes, ServiceMoves DEF Goes

LEMMA ServiceStart ==
  ASSUME DsInit
  PROVE  DsInv
<1> DEFINE deck == CHOOSE d \in DeckIds : \A e \in DeckIds : Cardinality(DeckCards[d]) >= Cardinality(DeckCards[e])
           content == CHOOSE c \in Contents : ContentCards[c] \subseteq DeckCards[deck]
<1>1. deck \in DeckIds /\ \A e \in DeckIds : Cardinality(DeckCards[deck]) >= Cardinality(DeckCards[e])
  BY ServiceAssumption
<1>2. /\ dsDecks = {deck} /\ dsProfiles = <<Profile(deck, content)>> /\ dsContents = {content}
      /\ dsFiles = [c \in Contents |-> [final |-> Absent, temporary |-> Absent, open |-> {}]]
      /\ dsJobs = <<>>
      /\ dsCalls = [t \in Calls |-> IdleCall]
      /\ dsHistory = [updates |-> <<0>>, created |-> [t \in Calls |-> 0]] BY DEF DsInit
<1>3. \E c \in Contents : ContentCards[c] \subseteq DeckCards[deck]
  <2> HIDE DEF deck
  <2> QED BY <1>1, ServiceAssumption
<1> HIDE DEF deck
<1>4. content \in Contents /\ ContentCards[content] \subseteq DeckCards[deck] BY <1>3
<1> HIDE DEF content
<1>5. /\ IsFiniteSet(dsDecks) /\ Cardinality(dsDecks) <= MaxDecks
  <2>1. IsFiniteSet({deck}) /\ Cardinality({deck}) = 1 BY FS_Singleton
  <2> QED BY <1>2, <2>1, ServiceAssumption
<1>6. /\ Profile(deck, content) \in Profiles /\ Profile(deck, content).deck = deck
      /\ Profile(deck, content).content = content /\ Profile(deck, content).revision = 1
  BY <1>1, <1>4 DEF Profile, Profiles
<1>7. /\ dsProfiles \in Seq(Profiles) /\ Len(dsProfiles) = 1 /\ DOMAIN dsProfiles = 1 .. 1
      /\ dsProfiles[1] = Profile(deck, content) BY <1>2, <1>6
<1>8. /\ dsHistory \in [updates : Seq(Nat), created : [Calls -> Nat]]
      /\ dsHistory.updates = <<0>> /\ dsHistory.created = [t \in Calls |-> 0]
      /\ Len(dsHistory.updates) = 1 /\ dsHistory.updates[1] = 0
  <2>1. <<0>> \in Seq(Nat) /\ Len(<<0>>) = 1 /\ <<0>>[1] = 0 OBVIOUS
  <2> QED BY <1>2, <2>1
<1>9. RevisionsCount /\ ProfilesReadable /\ RulesOfOwnDeck
  BY <1>2, <1>4, <1>6, <1>7, <1>8 DEF RevisionsCount, ProfilesReadable, RulesOfOwnDeck
<1>10. CatalogOK BY <1>1, <1>2, <1>4, <1>5, <1>7, <1>8, <1>9 DEF CatalogOK
<1>11. JobsOK
  <2>1. DOMAIN dsJobs = {} BY <1>2
  <2>2. /\ dsFiles \in [Contents -> ExperimentFiles] /\ \A x \in Contents : FileOK(dsFiles[x])
    BY <1>2 DEF ExperimentFiles, FileStates, FileOK, Absent, Partial
  <2> QED BY <1>8, <2>1, <2>2 DEF JobsOK
<1>12. IdleCall \in CallStates /\ IdleCall.method = "" /\ IdleCall.step = 0
  BY DEF IdleCall, CallStates
<1>13. dsCalls \in [Calls -> CallStates] BY <1>2, <1>12
<1>14. \A t \in Calls, c \in CallStates : c = dsCalls[t] => Asked(t, c) /\ Earned(c)
  BY <1>2, <1>12 DEF Asked, Earned
<1> QED BY <1>10, <1>11, <1>13, <1>14 DEF DsInv

LEMMA ServiceStutters ==
  ASSUME DsInv, UNCHANGED dsVars
  PROVE  DsInv'
<1>1. UNCHANGED <<dsDecks, dsProfiles, dsContents, dsFiles, dsJobs, dsHistory, dsCalls>>
  BY DEF dsVars
<1>2. CatalogOK' /\ JobsOK' /\ ServiceGrows BY <1>1, OnlyGoes
<1>3. \A t \in Calls, c \in CallStates : c = dsCalls'[t] => Asked(t, c)' /\ Earned(c)'
  BY <1>1, <1>2, CallKept DEF DsInv
<1> QED BY <1>1, <1>2, <1>3 DEF DsInv

LEMMA ServiceSteps ==
  ASSUME DsInv, DsNext
  PROVE  DsInv'
<1>1. PICK t \in Calls :
         \/ Request(t) \/ RegisterDeck(t) \/ CheckProfile(t) \/ PutContent(t) \/ CreateProfile(t)
         \/ UpdateProfile(t) \/ ArchiveProfile(t) \/ Compose(t) \/ ExperimentExists(t) \/ OpenExperiment(t)
         \/ WriteExperiment(t) \/ ReplaceExperiment(t) \/ EnqueueSearch(t) \/ AnswerLost(t)
  BY DEF DsNext
<1>2. CASE Request(t) BY <1>2, RequestStep
<1>3. CASE RegisterDeck(t) BY <1>3, RegisterStep
<1>4. CASE CheckProfile(t) BY <1>4, CheckStep
<1>5. CASE PutContent(t) BY <1>5, PutStep
<1>6. CASE CreateProfile(t) BY <1>6, CreateStep
<1>7. CASE UpdateProfile(t) BY <1>7, UpdateStep
<1>8. CASE ArchiveProfile(t) BY <1>8, ArchiveStep
<1>9. CASE Compose(t) BY <1>9, ComposeStep
<1>10. CASE ExperimentExists(t) BY <1>10, ExistsStep
<1>11. CASE OpenExperiment(t) BY <1>11, OpenStep
<1>12. CASE WriteExperiment(t) BY <1>12, WriteStep
<1>13. CASE ReplaceExperiment(t) BY <1>13, ReplaceFileStep
<1>14. CASE EnqueueSearch(t) BY <1>14, EnqueueStep
<1>15. CASE AnswerLost(t) BY <1>15, AnswerLostStep
<1> QED
  BY <1>1, <1>2, <1>3, <1>4, <1>5, <1>6, <1>7, <1>8, <1>9, <1>10, <1>11, <1>12, <1>13,
    <1>14, <1>15

\* Only an active profile is edited; an archived one is archived again or kept.
LEMMA FrozenStep ==
  ASSUME DsInv, DsNext
  PROVE  ArchivedFrozen
<1> SUFFICES ASSUME NEW p \in DOMAIN dsProfiles, NEW old, old = dsProfiles[p],
                    old.state = "archived"
             PROVE  dsProfiles'[p] = old BY DEF ArchivedFrozen
<1>1. /\ dsProfiles \in Seq(Profiles) /\ Len(dsProfiles) \in Nat /\ p \in 1 .. Len(dsProfiles)
      /\ old \in Profiles BY ServiceFacts
<1>2. PICK t \in Calls :
         \/ UNCHANGED dsProfiles \/ CreateProfile(t) \/ UpdateProfile(t) \/ ArchiveProfile(t)
  BY DEF DsNext, Request, RegisterDeck, CheckProfile, PutContent, Compose,
    ExperimentExists, OpenExperiment, WriteExperiment, ReplaceExperiment, EnqueueSearch,
    AnswerLost
<1>3. CASE UNCHANGED dsProfiles BY <1>3
<1>4. CASE CreateProfile(t)
  <2>1. PICK x : dsProfiles' = Append(dsProfiles, x) BY <1>4 DEF CreateProfile
  <2> QED BY <1>1, <2>1
<1>5. CASE UpdateProfile(t)
  <2>1. \/ UNCHANGED dsProfiles
        \/ /\ dsProfiles[dsCalls[t].profile].state = "active"
           /\ \E x : dsProfiles' = [dsProfiles EXCEPT ![dsCalls[t].profile] = x]
    BY <1>5 DEF UpdateProfile, Editable
  <2>2. CASE UNCHANGED dsProfiles BY <2>2
  <2>3. CASE /\ dsProfiles[dsCalls[t].profile].state = "active"
             /\ \E x : dsProfiles' = [dsProfiles EXCEPT ![dsCalls[t].profile] = x]
    <3>1. dsCalls[t].profile # p BY <2>3
    <3> QED BY <1>1, <2>3, <3>1
  <2> QED BY <2>1, <2>2, <2>3
<1>6. CASE ArchiveProfile(t)
  <2>1. dsProfiles' = [dsProfiles EXCEPT ![dsCalls[t].profile] =
                         [dsProfiles[dsCalls[t].profile] EXCEPT !.state = "archived"]]
    BY <1>6 DEF ArchiveProfile
  <2>2. CASE dsCalls[t].profile = p
    <3>1. dsProfiles'[p] = [old EXCEPT !.state = "archived"] BY <1>1, <2>1, <2>2
    <3>2. [old EXCEPT !.state = "archived"] = old BY <1>1 DEF Profiles
    <3> QED BY <3>1, <3>2
  <2>3. CASE dsCalls[t].profile # p BY <1>1, <2>1, <2>3
  <2> QED BY <2>2, <2>3
<1> QED BY <1>2, <1>3, <1>4, <1>5, <1>6

-----------------------------------------------------------------------------
(* The shells. *)

Names == {"search", "export"}
Inside == {"locked", "search", "window", "stop_export", "stop_search", "leaving"}

\* The supervisors that may run in a stage although none of them failed to stop.
Supervised(next) ==
  IF next \in {"window", "stop_export"} THEN Names
  ELSE IF next \in {"search", "stop_search"} THEN {"search"} ELSE {}

ShInv ==
  /\ shStage \in [Shells -> Inside \cup {"idle", "exited"}]
  /\ \A p \in Shells : shStage[p] \in Inside => shLock = {p}
  /\ shRunning \subseteq Shells \X Names
  /\ \A p \in Shells, n \in Names :
       <<p, n>> \in shRunning \ shFailed => n \in Supervised(shStage[p])

\* A step of one shell.
LEMMA ShellMoves ==
  ASSUME ShInv, NEW p \in Shells, NEW next \in Inside \cup {"idle", "exited"},
         shStage' = [shStage EXCEPT ![p] = next],
         \/ shStage[p] \in Inside /\ next \in Inside /\ UNCHANGED shLock
         \/ shStage[p] \notin Inside /\ next \notin Inside /\ UNCHANGED shLock
         \/ shLock = {} /\ shLock' = {p}
         \/ shStage[p] \in Inside /\ next \notin Inside /\ shLock' = {},
         shRunning' \subseteq Shells \X Names, shFailed \subseteq shFailed',
         \A r \in Shells, n \in Names :
           r # p /\ <<r, n>> \in shRunning' => <<r, n>> \in shRunning,
         \A n \in Names : <<p, n>> \in shRunning' \ shFailed' => n \in Supervised(next)
  PROVE  ShInv'
<1>1. shStage' \in [Shells -> Inside \cup {"idle", "exited"}] BY DEF ShInv
<1>2. ASSUME NEW r \in Shells, shStage'[r] \in Inside PROVE shLock' = {r}
  <2>1. CASE r = p
    <3>1. next \in Inside BY <1>2, <2>1 DEF ShInv
    <3> QED BY <2>1, <3>1 DEF ShInv
  <2>2. CASE r # p
    <3>1. shStage[r] \in Inside BY <1>2, <2>2 DEF ShInv
    <3>2. shLock = {r} BY <3>1 DEF ShInv
    <3>3. shStage[p] \notin Inside BY <2>2, <3>2 DEF ShInv
    <3> QED BY <3>2, <3>3
  <2> QED BY <2>1, <2>2
<1>3. ASSUME NEW r \in Shells, NEW n \in Names, <<r, n>> \in shRunning' \ shFailed'
      PROVE  n \in Supervised(shStage'[r])
  <2>1. CASE r = p BY <1>3, <2>1 DEF ShInv
  <2>2. CASE r # p
    <3>1. <<r, n>> \in shRunning \ shFailed /\ shStage'[r] = shStage[r]
      BY <1>3, <2>2 DEF ShInv
    <3> QED BY <3>1 DEF ShInv
  <2> QED BY <2>1, <2>2
<1> QED BY <1>1, <1>2, <1>3 DEF ShInv

LEMMA ShellSteps ==
  ASSUME ShInv, ShNext
  PROVE  ShInv'
<1>1. PICK p \in Shells :
         \/ AcquireLock(p) \/ StartSearch(p) \/ StartExport(p) \/ LeaveWindow(p)
         \/ StopSupervisor(p, "export") \/ StopSupervisor(p, "search") \/ ReleaseLock(p)
  BY DEF ShNext
<1>2. /\ shRunning \subseteq Shells \X Names
      /\ \A n \in Names : <<p, n>> \in shRunning \ shFailed => n \in Supervised(shStage[p])
      /\ <<p, "search">> \in Shells \X Names /\ <<p, "export">> \in Shells \X Names
  BY DEF ShInv, Names
<1>3. CASE AcquireLock(p)
  <2>1. PICK next \in {"locked", "exited"} :
           /\ shStage' = [shStage EXCEPT ![p] = next]
           /\ \/ shLock = {} /\ shLock' = {p}
              \/ next = "exited" /\ UNCHANGED shLock BY <1>3 DEF AcquireLock
  <2>2. shStage[p] = "idle" /\ UNCHANGED <<shRunning, shFailed>>
    BY <1>3 DEF AcquireLock
  <2>3. \A n \in Names : <<p, n>> \in shRunning' \ shFailed' => n \in Supervised(next)
    BY <1>2, <2>1, <2>2 DEF Supervised
  <2>4. next \in Inside \cup {"idle", "exited"} /\ "idle" \notin Inside /\ "exited" \notin Inside
    BY DEF Inside
  <2> QED BY <1>2, <2>1, <2>2, <2>3, <2>4, ShellMoves
<1>4. CASE StartSearch(p)
  <2>1. PICK next \in {"search", "leaving"} :
           /\ shStage' = [shStage EXCEPT ![p] = next]
           /\ \/ next = "search" /\ shRunning' = shRunning \cup {<<p, "search">>}
              \/ next = "leaving" /\ UNCHANGED shRunning BY <1>4 DEF StartSearch
  <2>2. shStage[p] = "locked" /\ UNCHANGED <<shLock, shFailed>> BY <1>4 DEF StartSearch
  <2>3. \A n \in Names : <<p, n>> \in shRunning' \ shFailed' => n \in Supervised(next)
    BY <1>2, <2>1, <2>2 DEF Supervised
  <2>4. next \in Inside \cup {"idle", "exited"} /\ next \in Inside /\ shStage[p] \in Inside
    BY <2>2 DEF Inside
  <2>5. shRunning' \subseteq Shells \X Names BY <1>2, <2>1
  <2>6. \A r \in Shells, n \in Names : r # p /\ <<r, n>> \in shRunning' => <<r, n>> \in shRunning
    BY <2>1
  <2> QED BY <2>1, <2>2, <2>3, <2>4, <2>5, <2>6, ShellMoves
<1>5. CASE StartExport(p)
  <2>1. PICK next \in {"window", "stop_search"} :
           /\ shStage' = [shStage EXCEPT ![p] = next]
           /\ \/ next = "window" /\ shRunning' = shRunning \cup {<<p, "export">>}
              \/ next = "stop_search" /\ UNCHANGED shRunning BY <1>5 DEF StartExport
  <2>2. shStage[p] = "search" /\ UNCHANGED <<shLock, shFailed>> BY <1>5 DEF StartExport
  <2>3. \A n \in Names : <<p, n>> \in shRunning' \ shFailed' => n \in Supervised(next)
    BY <1>2, <2>1, <2>2 DEF Supervised
  <2>4. next \in Inside \cup {"idle", "exited"} /\ next \in Inside /\ shStage[p] \in Inside
    BY <2>2 DEF Inside
  <2>5. shRunning' \subseteq Shells \X Names BY <1>2, <2>1
  <2>6. \A r \in Shells, n \in Names : r # p /\ <<r, n>> \in shRunning' => <<r, n>> \in shRunning
    BY <2>1
  <2> QED BY <2>1, <2>2, <2>3, <2>4, <2>5, <2>6, ShellMoves
<1>6. CASE LeaveWindow(p)
  <2>1. /\ shStage[p] = "window" /\ shStage' = [shStage EXCEPT ![p] = "stop_export"]
        /\ UNCHANGED <<shLock, shRunning, shFailed>> BY <1>6 DEF LeaveWindow
  <2>2. Supervised("stop_export") = Supervised("window") BY DEF Supervised
  <2>3. "stop_export" \in Inside /\ "window" \in Inside BY DEF Inside
  <2> QED BY <1>2, <2>1, <2>2, <2>3, ShellMoves
<1>7. CASE StopSupervisor(p, "export")
  <2>1. /\ shStage[p] = "stop_export" /\ shStage' = [shStage EXCEPT ![p] = "stop_search"]
        /\ UNCHANGED shLock
        /\ \/ shRunning' = shRunning \ {<<p, "export">>} /\ shFailed' = shFailed
           \/ shRunning' = shRunning /\ shFailed' = shFailed \cup {<<p, "export">>}
    BY <1>7 DEF StopSupervisor, AfterStop
  <2>2. \A n \in Names : <<p, n>> \in shRunning' \ shFailed' => n \in Supervised("stop_search")
    BY <1>2, <2>1 DEF Supervised, Names
  <2>3. "stop_export" \in Inside /\ "stop_search" \in Inside BY DEF Inside
  <2> QED BY <1>2, <2>1, <2>2, <2>3, ShellMoves
<1>8. CASE StopSupervisor(p, "search")
  <2>1. /\ shStage[p] = "stop_search" /\ shStage' = [shStage EXCEPT ![p] = "leaving"]
        /\ UNCHANGED shLock
        /\ \/ shRunning' = shRunning \ {<<p, "search">>} /\ shFailed' = shFailed
           \/ shRunning' = shRunning /\ shFailed' = shFailed \cup {<<p, "search">>}
    BY <1>8 DEF StopSupervisor, AfterStop
  <2>2. \A n \in Names : <<p, n>> \in shRunning' \ shFailed' => n \in Supervised("leaving")
    BY <1>2, <2>1 DEF Supervised, Names
  <2>3. "leaving" \in Inside /\ "stop_search" \in Inside BY DEF Inside
  <2> QED BY <1>2, <2>1, <2>2, <2>3, ShellMoves
<1>9. CASE ReleaseLock(p)
  <2>1. /\ shStage[p] = "leaving" /\ shStage' = [shStage EXCEPT ![p] = "exited"]
        /\ shLock' = {} /\ UNCHANGED <<shRunning, shFailed>> BY <1>9 DEF ReleaseLock
  <2>2. Supervised("exited") = Supervised("leaving") BY DEF Supervised
  <2>3. "leaving" \in Inside /\ "exited" \notin Inside BY DEF Inside
  <2> QED BY <1>2, <2>1, <2>2, <2>3, ShellMoves
<1> QED BY <1>1, <1>3, <1>4, <1>5, <1>6, <1>7, <1>8, <1>9

LEMMA ShellExclusive ==
  ASSUME ShInv
  PROVE  WritersExclusive
<1> SUFFICES ASSUME NEW a \in shRunning, NEW b \in shRunning,
                    a \notin shFailed, b \notin shFailed
             PROVE  a[1] = b[1] BY DEF WritersExclusive
<1>1. ASSUME NEW x \in shRunning, x \notin shFailed
      PROVE  x[1] \in Shells /\ shStage[x[1]] \in Inside
  <2>1. PICK p \in Shells, n \in Names : x = <<p, n>> BY <1>1 DEF ShInv
  <2>2. n \in Supervised(shStage[p]) BY <1>1, <2>1 DEF ShInv
  <2> QED BY <2>1, <2>2 DEF Supervised, Inside
<1>2. shLock = {a[1]} /\ shLock = {b[1]} BY <1>1 DEF ShInv
<1> QED BY <1>2

-----------------------------------------------------------------------------
\* Two windows, a repeated request or a failure between two writes of the
\* desktop service leave every profile, deck, experiment and job whole, an
\* archived profile is never edited, and one process at a time has workers.
THEOREM ServiceSafety == ServiceSpec => DesktopIntact
<1> DEFINE Next == (DsNext /\ UNCHANGED shVars) \/ (ShNext /\ UNCHANGED dsVars)
           Inv == DsInv /\ ShInv
<1>1. DsInit /\ ShInit => Inv
  <2>1. ShInit => ShInv BY DEF ShInit, ShInv, Inside
  <2> QED BY <2>1, ServiceStart
<1>2. ASSUME Inv, [Next]_<<dsVars, shVars>> PROVE Inv'
  <2>1. CASE DsNext /\ UNCHANGED shVars BY <1>2, <2>1, ServiceSteps DEF shVars, ShInv
  <2>2. CASE ShNext /\ UNCHANGED dsVars BY <1>2, <2>2, ShellSteps, ServiceStutters
  <2>3. CASE UNCHANGED <<dsVars, shVars>>
    BY <1>2, <2>3, ServiceStutters DEF shVars, ShInv
  <2> QED BY <1>2, <2>1, <2>2, <2>3
<1>3. Inv => /\ RevisionsCount /\ ProfilesReadable /\ RulesOfOwnDeck /\ CatalogReadable
             /\ ExperimentIntact /\ JobsOncePerRequest /\ WritersExclusive
  BY ShellExclusive DEF DsInv, CatalogOK, JobsOK, CatalogReadable, ExperimentIntact,
    JobsOncePerRequest
<1>4. ASSUME Inv, [Next]_<<dsVars, shVars>> PROVE [ArchivedFrozen]_<<dsVars, shVars>>
  <2>1. CASE DsNext BY <1>4, <2>1, FrozenStep
  <2>2. CASE UNCHANGED dsVars BY <2>2 DEF dsVars, ArchivedFrozen
  <2> QED BY <1>4, <2>1, <2>2
<1> DEFINE Kept == /\ RevisionsCount'
                   /\ ArchivedFrozen
                   /\ ProfilesReadable'
                   /\ RulesOfOwnDeck'
                   /\ CatalogReadable'
                   /\ ExperimentIntact'
                   /\ JobsOncePerRequest'
                   /\ WritersExclusive'
<1>5. Inv /\ Inv' /\ [Next]_<<dsVars, shVars>> => [Kept]_<<dsVars, shVars>>
  <2>1. Inv' => /\ RevisionsCount' /\ ProfilesReadable' /\ RulesOfOwnDeck' /\ CatalogReadable'
                /\ ExperimentIntact' /\ JobsOncePerRequest' /\ WritersExclusive'
    BY <1>3, PTL
  <2> HIDE DEF Inv, Next
  <2> QED BY <1>4, <2>1
<1>6. ServiceSpec => [][Kept]_<<dsVars, shVars>>
  <2> HIDE DEF Inv, Kept
  <2>1. ServiceSpec <=> DsInit /\ ShInit /\ [][Next]_<<dsVars, shVars>>
    BY DEF ServiceSpec
  <2> HIDE DEF Next
  <2> QED BY <1>1, <1>2, <1>5, <2>1, PTL
<1> QED BY <1>6 DEF DesktopIntact

-----------------------------------------------------------------------------
(* The order of the rows of a snapshot. *)

\* A row whose id and whose sort tokens can be compared.
Comparable(row) ==
  /\ row.id \in Int
  /\ \A f \in Fields : Sortable(f) => SortToken(row.values[f]) \in Int \X Int

\* The sort of a request that is not refused.
SortOK(sorts) ==
  /\ sorts \in Seq({sorts[i] : i \in DOMAIN sorts})
  /\ \A i \in DOMAIN sorts : sorts[i].field \in Fields /\ Sortable(sorts[i].field)

\* The token of a row at a sort field, and the order of two rows at it.
TokenAt(row, sorts, i) == SortToken(row.values[sorts[i].field])
LessAt(a, b, sorts, i) ==
  IF sorts[i].direction = "asc" THEN TokenLess(TokenAt(a, sorts, i), TokenAt(b, sorts, i))
  ELSE TokenLess(TokenAt(b, sorts, i), TokenAt(a, sorts, i))

LEMMA LeastIndex ==
  ASSUME NEW S \in SUBSET Nat, S # {}
  PROVE  \E x \in S : \A y \in S : x <= y
<1> DEFINE R == {ss \in Nat \X Nat : ss[1] < ss[2]}
<1>1. IsWellFoundedOn(R, Nat) BY NatLessThanWellFounded DEF OpToRel
<1>2. PICK x \in S : \A y \in S : ~ (<<y, x>> \in R)
  <2> HIDE DEF R
  <2> QED BY <1>1, WFMin
<1>3. ASSUME NEW y \in S PROVE x <= y
  <2>1. <<y, x>> \in Nat \X Nat => ~ (y < x) BY <1>2
  <2> QED BY <2>1
<1> QED BY <1>3

\* One sort field compares any two rows whose tokens at it differ, one way.
LEMMA LessAtOrders ==
  ASSUME NEW a, NEW b, NEW c, Comparable(a), Comparable(b), Comparable(c),
         NEW sorts, SortOK(sorts), NEW i \in DOMAIN sorts
  PROVE  /\ ~ LessAt(a, a, sorts, i)
         /\ LessAt(a, b, sorts, i) => TokenAt(a, sorts, i) # TokenAt(b, sorts, i)
         /\ LessAt(a, b, sorts, i) /\ LessAt(b, c, sorts, i) => LessAt(a, c, sorts, i)
         /\ TokenAt(a, sorts, i) # TokenAt(b, sorts, i)
              => LessAt(a, b, sorts, i) \/ LessAt(b, a, sorts, i)
<1>1. /\ TokenAt(a, sorts, i) \in Int \X Int
      /\ TokenAt(b, sorts, i) \in Int \X Int
      /\ TokenAt(c, sorts, i) \in Int \X Int BY DEF Comparable, SortOK, TokenAt
<1> QED BY <1>1 DEF LessAt, TokenLess

\* A row is before another when some sort field puts it there and those
\* before it do not tell them apart, or none tells and the ids do.
LEMMA BeforeForm ==
  ASSUME NEW a, NEW b, NEW sorts, SortOK(sorts), Comparable(a), Comparable(b)
  PROVE  RowBefore(a, b, sorts) <=>
           \/ /\ \A i \in DOMAIN sorts : TokenAt(a, sorts, i) = TokenAt(b, sorts, i)
              /\ a.id < b.id
           \/ \E i \in DOMAIN sorts :
                /\ \A j \in 1..(i - 1) : TokenAt(a, sorts, j) = TokenAt(b, sorts, j)
                /\ LessAt(a, b, sorts, i)
<1> DEFINE differ == {i \in DOMAIN sorts : TokenAt(a, sorts, i) # TokenAt(b, sorts, i)}
<1>1. PICK n \in Nat : DOMAIN sorts = 1..n BY DEF SortOK
<1>2. RowBefore(a, b, sorts) <=>
        \/ differ = {} /\ a.id < b.id
        \/ \E i \in differ : (\A j \in differ : i <= j) /\ LessAt(a, b, sorts, i)
  BY DEF RowBefore, TokenAt, LessAt
<1>3. ASSUME NEW i \in DOMAIN sorts, LessAt(a, b, sorts, i) PROVE i \in differ
  BY <1>3, LessAtOrders
<1>4. ASSUME NEW i \in differ
      PROVE  (\A j \in differ : i <= j) <=>
               \A j \in 1..(i - 1) : TokenAt(a, sorts, j) = TokenAt(b, sorts, j)
  BY <1>1
<1> QED BY <1>2, <1>3, <1>4

\* Of two rows with different ids one is before the other, and never both.
LEMMA BeforeOrders ==
  ASSUME NEW a, NEW b, NEW c, Comparable(a), Comparable(b), Comparable(c),
         NEW sorts, SortOK(sorts)
  PROVE  /\ ~ RowBefore(a, a, sorts)
         /\ RowBefore(a, b, sorts) /\ RowBefore(b, c, sorts) => RowBefore(a, c, sorts)
         /\ a.id # b.id => RowBefore(a, b, sorts) \/ RowBefore(b, a, sorts)
<1>1. PICK n \in Nat : DOMAIN sorts = 1..n BY DEF SortOK
<1>2. ~ RowBefore(a, a, sorts)
  <2>1. ~ (a.id < a.id) BY DEF Comparable
  <2>2. \A i \in DOMAIN sorts : ~ LessAt(a, a, sorts, i) BY LessAtOrders
  <2> QED BY <2>1, <2>2, BeforeForm
<1>3. ASSUME a.id # b.id PROVE RowBefore(a, b, sorts) \/ RowBefore(b, a, sorts)
  <2> DEFINE differ == {i \in DOMAIN sorts : TokenAt(a, sorts, i) # TokenAt(b, sorts, i)}
  <2>1. CASE differ = {}
    <3>1. \A i \in DOMAIN sorts : TokenAt(a, sorts, i) = TokenAt(b, sorts, i) BY <2>1
    <3>2. a.id < b.id \/ b.id < a.id BY <1>3 DEF Comparable
    <3> QED BY <3>1, <3>2, BeforeForm
  <2>2. CASE differ # {}
    <3>0. differ \in SUBSET Nat BY <1>1
    <3>1. PICK i \in differ : \A j \in differ : i <= j
      <4> HIDE DEF differ
      <4> QED BY <2>2, <3>0, LeastIndex
    <3>2. \A j \in 1..(i - 1) : TokenAt(a, sorts, j) = TokenAt(b, sorts, j)
      BY <1>1, <3>1
    <3>3. LessAt(a, b, sorts, i) \/ LessAt(b, a, sorts, i) BY <3>1, LessAtOrders
    <3> QED BY <3>2, <3>3, BeforeForm
  <2> QED BY <2>1, <2>2
<1>4. ASSUME RowBefore(a, b, sorts), RowBefore(b, c, sorts) PROVE RowBefore(a, c, sorts)
  <2> DEFINE same(x, y) == \A i \in DOMAIN sorts : TokenAt(x, sorts, i) = TokenAt(y, sorts, i)
             at(x, y, i) ==
               /\ \A j \in 1..(i - 1) : TokenAt(x, sorts, j) = TokenAt(y, sorts, j)
               /\ LessAt(x, y, sorts, i)
  <2>1. \/ same(a, b) /\ a.id < b.id
        \/ \E i \in DOMAIN sorts : at(a, b, i) BY <1>4, BeforeForm
  <2>2. \/ same(b, c) /\ b.id < c.id
        \/ \E i \in DOMAIN sorts : at(b, c, i) BY <1>4, BeforeForm
  <2>3. ASSUME same(a, b), same(b, c), a.id < b.id, b.id < c.id PROVE RowBefore(a, c, sorts)
    <3>1. same(a, c) /\ a.id < c.id BY <2>3 DEF Comparable
    <3> QED BY <3>1, BeforeForm
  <2>4. ASSUME same(a, b), NEW i \in DOMAIN sorts, at(b, c, i) PROVE at(a, c, i)
    BY <1>1, <2>4 DEF LessAt
  <2>5. ASSUME same(b, c), NEW i \in DOMAIN sorts, at(a, b, i) PROVE at(a, c, i)
    BY <1>1, <2>5 DEF LessAt
  <2>6. ASSUME NEW i \in DOMAIN sorts, at(a, b, i), NEW k \in DOMAIN sorts, at(b, c, k)
        PROVE  \E j \in DOMAIN sorts : at(a, c, j)
    <3>1. CASE i < k
      <4>1. TokenAt(b, sorts, i) = TokenAt(c, sorts, i) BY <1>1, <2>6, <3>1
      <4>2. \A j \in 1..(i - 1) : TokenAt(b, sorts, j) = TokenAt(c, sorts, j)
        BY <1>1, <2>6, <3>1
      <4> QED BY <2>6, <4>1, <4>2 DEF LessAt
    <3>2. CASE k < i
      <4>1. TokenAt(a, sorts, k) = TokenAt(b, sorts, k) BY <1>1, <2>6, <3>2
      <4>2. \A j \in 1..(k - 1) : TokenAt(a, sorts, j) = TokenAt(b, sorts, j)
        BY <1>1, <2>6, <3>2
      <4> QED BY <2>6, <4>1, <4>2 DEF LessAt
    <3>3. CASE i = k BY <2>6, <3>3, LessAtOrders
    <3> QED BY <1>1, <3>1, <3>2, <3>3
  <2> HIDE DEF at, same
  <2>7. (\E j \in DOMAIN sorts : at(a, c, j)) => RowBefore(a, c, sorts)
    BY BeforeForm DEF at
  <2> QED BY <2>1, <2>2, <2>3, <2>4, <2>5, <2>6, <2>7
<1> QED BY <1>2, <1>3, <1>4

\* The rows of a snapshot: finitely many, comparable, no two with one id.
RowsOK(rows) ==
  /\ IsFiniteSet(rows)
  /\ \A row \in rows : Comparable(row)
  /\ \A row, other \in rows : row.id = other.id => row = other

LEMMA RankRises ==
  ASSUME NEW F, RowsOK(F), NEW sorts, SortOK(sorts), NEW x \in F
  PROVE  /\ Rank(x, F, sorts) \in 0..(Cardinality(F) - 1)
         /\ \A y \in F : RowBefore(x, y, sorts) => Rank(x, F, sorts) < Rank(y, F, sorts)
<1> DEFINE below(y) == {other \in F : RowBefore(other, y, sorts)}
<1>1. Cardinality(F) \in Nat BY FS_CardinalityType DEF RowsOK
<1>2. ASSUME NEW y \in F PROVE IsFiniteSet(below(y)) /\ Cardinality(below(y)) \in Nat
  <2>1. IsFiniteSet(F) /\ below(y) \in SUBSET F BY DEF RowsOK
  <2> HIDE DEF below
  <2> QED BY <2>1, FS_Subset, FS_CardinalityType
<1>3. ASSUME NEW y \in F, NEW S \in SUBSET F, below(y) \subseteq S, y \in S
      PROVE  Cardinality(below(y)) < Cardinality(S)
  <2>1. y \notin below(y) BY BeforeOrders DEF RowsOK
  <2>2. IsFiniteSet(S) /\ Cardinality(S) \in Nat
    BY FS_Subset, FS_CardinalityType DEF RowsOK
  <2> HIDE DEF below
  <2>3. below(y) \in SUBSET S BY <1>3
  <2>4. Cardinality(below(y)) <= Cardinality(S) /\ Cardinality(below(y)) # Cardinality(S)
    BY <1>3, <2>1, <2>2, <2>3, FS_Subset
  <2> QED BY <1>2, <2>2, <2>4
<1>4. Cardinality(below(x)) < Cardinality(F)
  <2>1. below(x) \subseteq F OBVIOUS
  <2> HIDE DEF below
  <2> QED BY <1>3, <2>1
<1>5. ASSUME NEW y \in F, RowBefore(x, y, sorts)
      PROVE  Cardinality(below(x)) < Cardinality(below(y))
  <2>1. x \in below(y) /\ below(y) \in SUBSET F BY <1>5
  <2>2. below(x) \subseteq below(y) BY <1>5, BeforeOrders DEF RowsOK
  <2> HIDE DEF below
  <2> QED BY <1>3, <2>1, <2>2
<1> HIDE DEF below
<1>6. \A y : Rank(y, F, sorts) = Cardinality(below(y)) BY DEF Rank, below
<1> QED BY <1>1, <1>2, <1>4, <1>5, <1>6

\* Each place from the first to the last is that of one row.
LEMMA RankPlaces ==
  ASSUME NEW F, RowsOK(F), NEW sorts, SortOK(sorts)
  PROVE  /\ \A x, y \in F : Rank(x, F, sorts) = Rank(y, F, sorts) => x = y
         /\ \A i \in 1..Cardinality(F) : \E x \in F : Rank(x, F, sorts) = i - 1
<1> DEFINE n == Cardinality(F)
           f == [x \in F |-> Rank(x, F, sorts) + 1]
<1>1. n \in Nat /\ IsFiniteSet(F) BY FS_CardinalityType DEF RowsOK
<1>2. ASSUME NEW x \in F, NEW y \in F, x # y PROVE Rank(x, F, sorts) # Rank(y, F, sorts)
  <2>1. Comparable(x) /\ Comparable(y) /\ x.id # y.id BY <1>2 DEF RowsOK
  <2>2. RowBefore(x, y, sorts) \/ RowBefore(y, x, sorts) BY <2>1, BeforeOrders
  <2>3. Rank(x, F, sorts) < Rank(y, F, sorts) \/ Rank(y, F, sorts) < Rank(x, F, sorts)
    BY <2>2, RankRises
  <2>4. Rank(x, F, sorts) \in 0..(n - 1) /\ Rank(y, F, sorts) \in 0..(n - 1)
    BY RankRises
  <2> QED BY <2>3, <2>4
<1>3. \A x \in F : Rank(x, F, sorts) \in 0..(n - 1) BY RankRises
<1>4. f \in [F -> 1..n] /\ \A x, y \in F : f[x] = f[y] => x = y
  <2> HIDE DEF n
  <2> QED BY <1>1, <1>2, <1>3
<1>5. f \in Injection(F, 1..n)
  <2> HIDE DEF f, n
  <2> QED BY <1>4 DEF Injection, IsInjective
<1>6. IsFiniteSet(1..n) /\ Cardinality(1..n) = n BY <1>1, FS_Interval
<1>7. f \in Surjection(F, 1..n)
  <2> HIDE DEF f
  <2> QED BY <1>1, <1>5, <1>6, FS_Injection
<1>8. \A i \in 1..n : \E x \in F : f[x] = i
  <2> HIDE DEF f, n
  <2> QED BY <1>7 DEF Surjection
<1>9. ASSUME NEW i \in 1..n PROVE \E x \in F : Rank(x, F, sorts) = i - 1
  <2>1. PICK x \in F : f[x] = i BY <1>8
  <2> QED BY <1>1, <1>3, <2>1
<1> QED BY <1>2, <1>9

\* A selection has every row that matches, once, in the order asked for.
LEMMA SelectionIs ==
  ASSUME NEW snapshot, RowsOK(snapshot.rows), NEW request, SortOK(request.sort)
  PROVE  LET all == SelectRows(snapshot, request)
             found == Selected(snapshot.rows, request) IN
         /\ all \in Seq(found)
         /\ {all[i] : i \in DOMAIN all} = found
         /\ \A i, j \in DOMAIN all : all[i].id = all[j].id => i = j
         /\ \A i, j \in DOMAIN all : RowBefore(all[j], all[i], request.sort) => j < i
<1> DEFINE found == Selected(snapshot.rows, request)
           all == SelectRows(snapshot, request)
           n == Cardinality(found)
           sorts == request.sort
           rank(x) == Rank(x, found, sorts)
<1>1. found \in SUBSET snapshot.rows BY DEF Selected
<1>2. RowsOK(found)
  <2>1. IsFiniteSet(found)
    <3> HIDE DEF found
    <3> QED BY <1>1, FS_Subset DEF RowsOK
  <2> HIDE DEF found
  <2> QED BY <1>1, <2>1 DEF RowsOK
<1>3. n \in Nat BY <1>2, FS_CardinalityType DEF RowsOK
<1>4. all = [i \in 1..n |-> CHOOSE row \in found : rank(row) = i - 1] BY DEF SelectRows
<1> HIDE DEF found, all, n
<1>5. ASSUME NEW i \in 1..n PROVE all[i] \in found /\ rank(all[i]) = i - 1
  <2>1. \E x \in found : rank(x) = i - 1 BY <1>2, RankPlaces DEF n
  <2> QED BY <1>4, <2>1
<1>6. all \in Seq(found) /\ DOMAIN all = 1..n /\ Len(all) = n
  <2>1. all \in [1..n -> found] BY <1>4, <1>5
  <2> QED BY <1>3, <2>1
<1>7. ASSUME NEW x \in found PROVE \E i \in 1..n : all[i] = x
  <2>1. rank(x) \in 0..(n - 1) BY <1>2, RankRises DEF n
  <2>2. rank(x) + 1 \in 1..n /\ (rank(x) + 1) - 1 = rank(x) BY <1>3, <2>1
  <2>3. all[rank(x) + 1] \in found /\ rank(all[rank(x) + 1]) = rank(x) BY <1>5, <2>2
  <2>4. all[rank(x) + 1] = x BY <1>2, <2>3, RankPlaces
  <2> QED BY <2>2, <2>4
<1>8. ASSUME NEW i \in 1..n, NEW j \in 1..n, all[i].id = all[j].id PROVE i = j
  <2>1. all[i] \in found /\ all[j] \in found /\ rank(all[i]) = i - 1 /\ rank(all[j]) = j - 1
    BY <1>5
  <2>2. all[i] = all[j] BY <1>2, <1>8, <2>1 DEF RowsOK
  <2>3. i - 1 = j - 1 BY <2>1, <2>2
  <2> QED BY <2>3
<1>9. ASSUME NEW i \in 1..n, NEW j \in 1..n, RowBefore(all[j], all[i], sorts) PROVE j < i
  <2>1. all[i] \in found /\ all[j] \in found /\ rank(all[i]) = i - 1 /\ rank(all[j]) = j - 1
    BY <1>5
  <2>2. rank(all[j]) < rank(all[i]) BY <1>2, <1>9, <2>1, RankRises
  <2> QED BY <2>1, <2>2
<1>10. {all[i] : i \in DOMAIN all} = found BY <1>5, <1>6, <1>7
<1> QED BY <1>6, <1>8, <1>9, <1>10 DEF all, found

-----------------------------------------------------------------------------
(* Pages and exports. *)

SnapshotKnown(snapshot) == snapshot # NoSnapshot /\ RowsOK(snapshot.rows)

\* What a series of pages or an export is bound to.
Bound(x, known) ==
  x.snapshot \in known /\ RequestOK(x.request) /\ x.request \in QRequests

Chosen(x) == SelectRows(x.snapshot, x.request)

\* A client that has a cursor has read a part of the selection up to it.
ClientOK(me, known) ==
  /\ DOMAIN me = {"phase", "request", "cursor", "got", "snapshot", "calls"}
  /\ me.phase \in {"idle", "paging", "done"}
  /\ me.phase = "idle" => me.cursor = NoCursor /\ me.got = <<>>
  /\ me.phase # "idle" => Bound(me, known)
  /\ me.phase = "paging" =>
       /\ Cardinality(me.snapshot.rows) <= MaxSyncRows
       /\ \E n \in 1..(Len(Chosen(me)) - 1) :
            /\ me.got = SubSeq(Chosen(me), 1, n)
            /\ me.cursor = EncodeCursor(Chosen(me)[n], me.request, me.snapshot)
  /\ me.phase = "done" => me.got = Chosen(me)

ExportOK(x, known) ==
  /\ DOMAIN x = {"phase", "request", "snapshot", "rows"}
  /\ x.phase \in {"bound", "done"} => Bound(x, known)
  /\ x.phase = "done" => x.rows = Chosen(x)

QInv ==
  /\ \A snapshot \in qstore.registered : SnapshotKnown(snapshot)
  /\ qstore.current \in qstore.registered \cup {NoSnapshot}
  /\ DOMAIN qclient = QClients /\ DOMAIN qexport = QExports
  /\ \A c \in QClients : ClientOK(qclient[c], qstore.registered)
  /\ \A e \in QExports : ExportOK(qexport[e], qstore.registered)

LEMMA SortOfRequest ==
  ASSUME NEW r \in QRequests, RequestOK(r)
  PROVE  SortOK(r.sort) /\ r.limit \in Nat \ {0}
<1>1. r.sort \in Seq({r.sort[i] : i \in DOMAIN r.sort}) BY DocumentAssumption
<1>2. r.limit \in Nat \ {0} BY QueryAssumption DEF RequestOK
<1> QED BY <1>1, <1>2 DEF RequestOK, SortOK

LEMMA ChosenIs ==
  ASSUME NEW x, NEW known, \A snapshot \in known : SnapshotKnown(snapshot), Bound(x, known)
  PROVE  LET all == Chosen(x)
             found == Selected(x.snapshot.rows, x.request) IN
         /\ all \in Seq(found)
         /\ {all[i] : i \in DOMAIN all} = found
         /\ \A i, j \in DOMAIN all : all[i].id = all[j].id => i = j
         /\ \A i, j \in DOMAIN all : RowBefore(all[j], all[i], x.request.sort) => j < i
BY SortOfRequest, SelectionIs DEF Bound, SnapshotKnown, Chosen

\* A page continues the rows before it.
LEMMA PageContinues ==
  ASSUME NEW S, NEW all \in Seq(S), NEW a \in 0..Len(all), NEW b \in a..Len(all)
  PROVE  /\ SubSeq(all, 1, a) \o SubSeq(all, a + 1, b) = SubSeq(all, 1, b)
         /\ Len(SubSeq(all, a + 1, b)) = b - a
         /\ SubSeq(all, 1, 0) = <<>> /\ SubSeq(all, 1, Len(all)) = all
         /\ Len(SubSeq(all, 1, b)) = b
<1>0. a \in Int /\ b \in Int OBVIOUS
<1>1. \A m \in 1..(Len(all) + 1), n \in 0..Len(all) : m <= n + 1 =>
        /\ SubSeq(all, m, n) \in Seq(S) /\ Len(SubSeq(all, m, n)) = n + 1 - m
        /\ \A i \in 1..(n + 1 - m) : SubSeq(all, m, n)[i] = all[m + i - 1] OBVIOUS
<1> DEFINE l == SubSeq(all, 1, a)
           r == SubSeq(all, a + 1, b)
           t == SubSeq(all, 1, b)
<1>2. /\ l \in Seq(S) /\ Len(l) = a /\ \A i \in 1..a : l[i] = all[i]
      /\ r \in Seq(S) /\ Len(r) = b - a /\ \A i \in 1..(b - a) : r[i] = all[a + i]
      /\ t \in Seq(S) /\ Len(t) = b /\ \A i \in 1..b : t[i] = all[i] BY <1>1
<1> HIDE DEF l, r, t
<1>3. l \o r \in Seq(S) /\ Len(l \o r) = b BY <1>2
<1>4. ASSUME NEW i \in 1..b PROVE (l \o r)[i] = t[i]
  <2>1. CASE i <= a BY <1>2, <2>1
  <2>2. CASE i > a
    <3>1. (l \o r)[i] = r[i - a] /\ i - a \in 1..(b - a) /\ a + (i - a) = i
      BY <1>2, <2>2
    <3> QED BY <1>2, <3>1
  <2>3. i \in Int /\ (i <= a \/ i > a) BY <1>0
  <2> QED BY <2>1, <2>2, <2>3
<1>5. l \o r = t
  <2>1. Len(l \o r) = Len(t) /\ l \o r \in Seq(S) /\ t \in Seq(S) BY <1>2, <1>3
  <2>2. \A i \in 1..Len(t) : (l \o r)[i] = t[i] BY <1>2, <1>4
  <2> QED BY <2>1, <2>2, SeqEqual
<1>6. SubSeq(all, 1, 0) = <<>> OBVIOUS
<1>7. SubSeq(all, 1, Len(all)) = all
  <2> DEFINE u == SubSeq(all, 1, Len(all))
  <2>1. u \in Seq(S) /\ Len(u) = Len(all) /\ \A i \in 1..Len(all) : u[i] = all[i]
    BY <1>1
  <2> HIDE DEF u
  <2>2. u = all
    <3>1. u \in [1..Len(all) -> S] /\ all \in [1..Len(all) -> S] BY <2>1
    <3> QED BY <2>1, <3>1
  <2> QED BY <2>2 DEF u
<1> QED BY <1>2, <1>5, <1>6, <1>7 DEF l, r, t

\* An answer continues the first rows of a selection, up to a row a cursor is
\* for or to the last.
Continues(answer, all, start, request, snapshot) ==
  \E to \in start..Len(all) :
    /\ SubSeq(all, 1, start) \o answer.rows = SubSeq(all, 1, to)
    /\ to < Len(all) => to \in 1..(Len(all) - 1)
                        /\ answer.next = EncodeCursor(all[to], request, snapshot)
    /\ to = Len(all) => answer.next = NoCursor

LEMMA PageIs ==
  ASSUME NEW snapshot, SnapshotKnown(snapshot),
         NEW request \in QRequests, RequestOK(request),
         NEW all, all = SelectRows(snapshot, request), NEW start \in 0..Len(all),
         NEW answer, answer = Page(request, snapshot, start)
  PROVE  /\ answer.error = "none" /\ answer.snapshot = snapshot
         /\ Continues(answer, all, start, request, snapshot)
<1> DEFINE to == IF start + request.limit < Len(all) THEN start + request.limit ELSE Len(all)
           page == SubSeq(all, start + 1, to)
           found == Selected(snapshot.rows, request)
<1>1. SortOK(request.sort) /\ request.limit \in Nat \ {0} BY SortOfRequest
<1>2. all \in Seq(found) BY <1>1, SelectionIs DEF SnapshotKnown
<1>3. answer =
        [error |-> "none", rows |-> page, snapshot |-> snapshot,
         next |-> IF to < Len(all) /\ page # <<>>
                  THEN EncodeCursor(all[to], request, snapshot) ELSE NoCursor]
  BY DEF Page
<1> HIDE DEF found
<1>4. start \in 0..Len(all) /\ Len(all) \in Nat BY <1>2
<1>5. to \in start..Len(all) /\ (to < Len(all) => to > start /\ to \in 1..(Len(all) - 1))
  BY <1>1, <1>4
<1> HIDE DEF to
<1>6. SubSeq(all, 1, start) \o page = SubSeq(all, 1, to) /\ Len(page) = to - start
  BY <1>2, <1>4, <1>5, PageContinues
<1>7. to < Len(all) => page # <<>>
  <2>1. page = <<>> => to - start = 0 BY <1>6
  <2> QED BY <1>4, <1>5, <2>1
<1> HIDE DEF page
<1> QED BY <1>3, <1>5, <1>6, <1>7 DEF Continues

LEMMA StoreResolves ==
  ASSUME QInv, NEW sid
  PROVE  /\ ResolveSnapshot(sid) \in qstore.registered \cup {NoSnapshot}
         /\ sid \in qstore.registered => ResolveSnapshot(sid) = sid
BY DEF QInv, ResolveSnapshot, SnapshotKnown

\* A request without a cursor is refused or answered with the first page.
LEMMA FirstAnswer ==
  ASSUME QInv, NEW request, NEW sid
  PROVE  LET answer == Execute(request, sid, NoCursor) IN
         answer.error = "none" =>
           \E snapshot \in qstore.registered :
             /\ Cardinality(snapshot.rows) <= MaxSyncRows
             /\ answer = Page(request, snapshot, 0)
<1>1. ResolveSnapshot(sid) \in qstore.registered \cup {NoSnapshot} BY StoreResolves
<1>2. ASSUME NEW snapshot \in qstore.registered
      PROVE  Cardinality(snapshot.rows) \in Nat /\ MaxSyncRows \in Nat
  BY FS_CardinalityType, QueryAssumption DEF QInv, SnapshotKnown, RowsOK
<1>3. \A code : Refused(code).error = code BY DEF Refused
<1> DEFINE answer == Execute(request, sid, NoCursor)
           chosen == ResolveSnapshot(sid)
<1>4. answer = IF chosen = NoSnapshot THEN Refused("snapshot_unavailable")
               ELSE IF Cardinality(chosen.rows) > MaxSyncRows
               THEN Refused("sync_scan_limit_exceeded")
               ELSE Page(request, chosen, 0) BY DEF Execute
<1> SUFFICES ASSUME answer.error = "none"
             PROVE  \E snapshot \in qstore.registered :
                      /\ Cardinality(snapshot.rows) <= MaxSyncRows
                      /\ answer = Page(request, snapshot, 0) OBVIOUS
<1> HIDE DEF answer, chosen
<1>5. chosen # NoSnapshot BY <1>3, <1>4
<1>6. chosen \in qstore.registered BY <1>1, <1>5 DEF chosen
<1>7. ~ (Cardinality(chosen.rows) > MaxSyncRows) BY <1>3, <1>4, <1>5
<1>8. answer = Page(request, chosen, 0) BY <1>4, <1>5, <1>7
<1> QED BY <1>2, <1>6, <1>7, <1>8

\* The cursor after a row leads to the row that follows it.
LEMMA CursorLeads ==
  ASSUME NEW snapshot, SnapshotKnown(snapshot),
         NEW request \in QRequests, RequestOK(request),
         NEW n \in 1..Len(SelectRows(snapshot, request))
  PROVE  CursorStart(SelectRows(snapshot, request), request,
                     EncodeCursor(SelectRows(snapshot, request)[n], request, snapshot))
           = [error |-> "none", start |-> n]
<1> DEFINE all == SelectRows(snapshot, request)
           found == Selected(snapshot.rows, request)
           cursor == EncodeCursor(all[n], request, snapshot)
           here == {i \in DOMAIN all : all[i].id = cursor.last}
<1>1. SortOK(request.sort) BY SortOfRequest
<1>2. all \in Seq(found) /\ \A i, j \in DOMAIN all : all[i].id = all[j].id => i = j
  BY <1>1, SelectionIs DEF SnapshotKnown
<1>3. /\ cursor.last = all[n].id
      /\ cursor.sort_values = SortValues(all[n], request) BY DEF EncodeCursor
<1>4. n \in DOMAIN all /\ n \in Nat
  <2>1. DOMAIN all = 1..Len(all) /\ Len(all) \in Nat
    <3> HIDE DEF all
    <3> QED BY <1>2
  <2> QED BY <2>1
<1> HIDE DEF all, cursor
<1>5. here = {n} BY <1>2, <1>3, <1>4
<1>6. (CHOOSE i \in here : \A j \in here : i <= j) = n BY <1>4, <1>5
<1>7. Len(SortValues(all[n], request)) = Len(request.sort)
  <2> DEFINE k == Len(request.sort)
             values == SortValues(all[n], request)
  <2>1. k \in Nat /\ DOMAIN request.sort = 1..k BY <1>1 DEF SortOK
  <2>2. values \in [1..k -> {values[i] : i \in 1..k}] BY <2>1 DEF SortValues
  <2> HIDE DEF k, values
  <2>3. Len(values) = k BY <2>1, <2>2
  <2> QED BY <2>3 DEF k, values
<1>8. CursorStart(all, request, cursor) = [error |-> "none", start |-> n]
  BY <1>3, <1>5, <1>6, <1>7 DEF CursorStart
<1> QED BY <1>8 DEF all, cursor

\* With the cursor of a series only the query of that series is answered, by
\* the page after it; a damaged cursor is refused.
LEMMA NextAnswer ==
  ASSUME QInv, NEW snapshot \in qstore.registered,
         Cardinality(snapshot.rows) <= MaxSyncRows,
         NEW request \in QRequests, RequestOK(request),
         NEW n \in 1..Len(SelectRows(snapshot, request)),
         NEW asked, NEW sid,
         NEW cursor, cursor = EncodeCursor(SelectRows(snapshot, request)[n], request, snapshot)
  PROVE  /\ Execute(asked, sid, cursor).error = "none" =>
              /\ asked = request
              /\ Execute(asked, sid, cursor) = Page(request, snapshot, n)
         /\ Execute(request, NoSnapshot, cursor) = Page(request, snapshot, n)
         /\ Execute(asked, sid, [cursor EXCEPT !.intact = FALSE]).error # "none"
<1>1. /\ cursor.fingerprint = request /\ cursor.snapshot = snapshot /\ cursor.intact = TRUE
      /\ cursor # NoCursor /\ [cursor EXCEPT !.intact = FALSE] # NoCursor
      /\ [cursor EXCEPT !.intact = FALSE].intact = FALSE
  <2>1. DOMAIN cursor = {"last", "fingerprint", "snapshot", "sort_values", "intact"}
    BY DEF EncodeCursor
  <2>2. DOMAIN [cursor EXCEPT !.intact = FALSE] = DOMAIN cursor OBVIOUS
  <2>3. DOMAIN NoCursor = {"last"} BY DEF NoCursor
  <2> QED BY <2>1, <2>2, <2>3 DEF EncodeCursor
<1>2. \A code : Refused(code).error = code BY DEF Refused
<1>3. snapshot # NoSnapshot /\ RowsOK(snapshot.rows) /\ ResolveSnapshot(snapshot) = snapshot
  BY StoreResolves DEF QInv, SnapshotKnown
<1>4. ~ (Cardinality(snapshot.rows) > MaxSyncRows)
  <2>1. Cardinality(snapshot.rows) \in Nat /\ MaxSyncRows \in Nat
    BY <1>3, FS_CardinalityType, QueryAssumption DEF RowsOK
  <2> QED BY <2>1
<1>5. CursorStart(SelectRows(snapshot, request), request, cursor) = [error |-> "none", start |-> n]
  BY CursorLeads DEF QInv
<1>6. Execute(asked, sid, [cursor EXCEPT !.intact = FALSE]) = Refused("invalid_cursor")
  BY <1>1 DEF Execute, Decoded
<1>7. Execute(request, NoSnapshot, cursor) = Page(request, snapshot, n)
  BY <1>1, <1>3, <1>4, <1>5 DEF Execute, Decoded
<1>8. CASE sid # NoSnapshot /\ sid # snapshot
  <2>1. Execute(asked, sid, cursor) = Refused("cursor_snapshot_mismatch")
    BY <1>1, <1>8 DEF Execute, Decoded
  <2> QED BY <1>2, <1>6, <1>7, <2>1
<1>9. CASE sid \in {NoSnapshot, snapshot}
  <2>1. CASE asked # request
    <3>1. Execute(asked, sid, cursor) = Refused("cursor_query_mismatch")
      BY <1>1, <1>3, <1>9, <2>1 DEF Execute, Decoded
    <3> QED BY <1>2, <1>6, <1>7, <3>1
  <2>2. CASE asked = request
    <3>1. Execute(asked, sid, cursor) = Page(request, snapshot, n)
      BY <1>1, <1>3, <1>4, <1>5, <1>9, <2>2 DEF Execute, Decoded
    <3> QED BY <1>2, <1>6, <1>7, <2>2, <3>1
  <2> QED BY <2>1, <2>2
<1> QED BY <1>8, <1>9

\* A page that is received leaves a client at the row its cursor is for.
LEMMA PageReceived ==
  ASSUME QInv, NEW snapshot \in qstore.registered,
         Cardinality(snapshot.rows) <= MaxSyncRows,
         NEW request \in QRequests, RequestOK(request),
         NEW start \in 0..Len(SelectRows(snapshot, request)),
         NEW answer, answer = Page(request, snapshot, start), NEW calls
  PROVE  ClientOK([phase |-> IF answer.next = NoCursor THEN "done" ELSE "paging",
                   request |-> request, cursor |-> answer.next,
                   got |-> SubSeq(SelectRows(snapshot, request), 1, start) \o answer.rows,
                   snapshot |-> answer.snapshot, calls |-> calls], qstore.registered)
<1> DEFINE all == SelectRows(snapshot, request)
           got == SubSeq(all, 1, start) \o answer.rows
           me == [phase |-> IF answer.next = NoCursor THEN "done" ELSE "paging",
                  request |-> request, cursor |-> answer.next, got |-> got,
                  snapshot |-> answer.snapshot, calls |-> calls]
<1>1. all \in Seq(Selected(snapshot.rows, request))
  BY SortOfRequest, SelectionIs DEF QInv, SnapshotKnown
<1> HIDE DEF all
<1>2. PICK to \in start..Len(all) :
        /\ got = SubSeq(all, 1, to)
        /\ to < Len(all) => to \in 1..(Len(all) - 1)
                            /\ answer.next = EncodeCursor(all[to], request, snapshot)
        /\ to = Len(all) => answer.next = NoCursor
  <2>1. /\ SnapshotKnown(snapshot) /\ request \in QRequests /\ RequestOK(request)
        /\ start \in 0..Len(SelectRows(snapshot, request))
        /\ answer = Page(request, snapshot, start) /\ all = SelectRows(snapshot, request)
    BY DEF QInv, all
  <2>2. Continues(answer, all, start, request, snapshot) BY ONLY <2>1, PageIs
  <2> QED BY <2>2 DEF Continues
<1>3. answer.snapshot = snapshot BY PageIs DEF QInv
<1>4. \A row : EncodeCursor(row, request, snapshot) # NoCursor
  <2>1. \A row : "intact" \in DOMAIN EncodeCursor(row, request, snapshot)
    BY DEF EncodeCursor
  <2>2. "intact" \notin DOMAIN NoCursor BY DEF NoCursor
  <2> QED BY ONLY <2>1, <2>2
<1>5. SubSeq(all, 1, Len(all)) = all
  <2>1. 0 \in 0..Len(all) BY <1>1
  <2> QED BY <1>1, <2>1, PageContinues
<1>6. Bound(me, qstore.registered) /\ Chosen(me) = all /\ me.snapshot = snapshot
      /\ me.request = request BY <1>3 DEF Bound, Chosen, all
<1>7. /\ DOMAIN me = {"phase", "request", "cursor", "got", "snapshot", "calls"}
      /\ me.got = got /\ me.cursor = answer.next
      /\ me.phase = IF answer.next = NoCursor THEN "done" ELSE "paging" OBVIOUS
<1> HIDE DEF me, got
<1>8. to < Len(all) \/ to = Len(all) BY <1>1
<1>9. ClientOK(me, qstore.registered)
  <2>1. me.phase \in {"paging", "done"} /\ (me.phase = "done" <=> answer.next = NoCursor)
    BY <1>7
  <2>2. CASE to < Len(all)
    <3>1. me.phase = "paging" /\ to \in 1..(Len(all) - 1)
          /\ me.cursor = EncodeCursor(all[to], request, snapshot) /\ me.got = SubSeq(all, 1, to)
      BY <1>2, <1>4, <1>7, <2>1, <2>2
    <3> QED BY <1>6, <1>7, <3>1 DEF ClientOK
  <2>3. CASE to = Len(all)
    <3>1. me.phase = "done" /\ me.got = all BY <1>2, <1>5, <1>7, <2>1, <2>3
    <3> QED BY <1>6, <1>7, <3>1 DEF ClientOK
  <2> QED BY <1>8, <2>2, <2>3
<1> QED BY <1>9 DEF me, got, all

LEMMA ClientKept ==
  ASSUME NEW me, NEW known, NEW more, ClientOK(me, known), known \subseteq more, NEW n
  PROVE  ClientOK(me, more) /\ ClientOK([me EXCEPT !.calls = n], known)
<1> DEFINE you == [me EXCEPT !.calls = n]
<1>1. /\ DOMAIN you = DOMAIN me /\ you.phase = me.phase /\ you.cursor = me.cursor
      /\ you.got = me.got /\ you.request = me.request /\ you.snapshot = me.snapshot
  BY DEF ClientOK
<1> HIDE DEF you
<1>2. ClientOK(you, known) BY <1>1 DEF ClientOK, Bound, Chosen
<1> QED BY <1>2 DEF you, ClientOK, Bound

LEMMA AskStep ==
  ASSUME QInv, NEW c \in QClients, NEW request \in QRequests, NEW sid, Ask(c, request, sid)
  PROVE  QInv'
<1> DEFINE me == qclient[c]
           known == qstore.registered
           held == IF me.cursor = NoCursor THEN {NoCursor}
                   ELSE {me.cursor, [me.cursor EXCEPT !.intact = FALSE]}
           counted == [me EXCEPT !.calls = @ + 1]
           received(answer) ==
             [phase |-> IF answer.next = NoCursor THEN "done" ELSE "paging",
              request |-> request, cursor |-> answer.next, got |-> me.got \o answer.rows,
              snapshot |-> answer.snapshot, calls |-> me.calls + 1]
<1>1. ClientOK(me, known) BY DEF QInv
<1>2. PICK cursor \in held, lost \in BOOLEAN :
        qclient' = [qclient EXCEPT ![c] =
          IF lost \/ Execute(request, sid, cursor).error # "none" THEN counted
          ELSE received(Execute(request, sid, cursor))] BY DEF Ask
<1> DEFINE answer == Execute(request, sid, cursor)
<1>3. RequestOK(request) /\ me.phase # "done" /\ UNCHANGED <<qstore, qexport>>
  BY DEF Ask
<1>4. ClientOK(counted, known) BY <1>1, ClientKept
<1>5. ASSUME answer.error = "none" PROVE ClientOK(received(answer), known)
  <2>1. CASE me.phase = "idle"
    <3>1. cursor = NoCursor /\ me.got = <<>> BY <1>1, <2>1 DEF ClientOK
    <3>2. PICK snapshot \in known :
            Cardinality(snapshot.rows) <= MaxSyncRows /\ answer = Page(request, snapshot, 0)
      BY <1>5, <3>1, FirstAnswer
    <3>3. SelectRows(snapshot, request) \in Seq(Selected(snapshot.rows, request))
      BY <1>3, SortOfRequest, SelectionIs DEF QInv, SnapshotKnown
    <3> DEFINE all == SelectRows(snapshot, request)
    <3>4. 0 \in 0..Len(all) /\ me.got = SubSeq(all, 1, 0)
      <4> HIDE DEF all, me
      <4>1. 0 \in 0..Len(all) BY <3>3 DEF all
      <4> QED BY <3>1, <3>3, <4>1, PageContinues DEF all
    <3> HIDE DEF me, answer
    <3> QED BY <1>3, <3>2, <3>4, PageReceived
  <2>2. CASE me.phase = "paging"
    <3> DEFINE snapshot == me.snapshot
               all == SelectRows(snapshot, me.request)
    <3>1. /\ snapshot \in known /\ me.request \in QRequests /\ RequestOK(me.request)
          /\ Cardinality(snapshot.rows) <= MaxSyncRows
      BY <1>1, <2>2 DEF ClientOK, Bound
    <3>2. PICK n \in 1..(Len(all) - 1) :
            /\ me.got = SubSeq(all, 1, n)
            /\ me.cursor = EncodeCursor(all[n], me.request, snapshot)
      BY <1>1, <2>2 DEF ClientOK, Chosen
    <3>3. Len(all) \in Nat
      <4>1. all \in Seq(Selected(snapshot.rows, me.request))
        BY <3>1, SortOfRequest, SelectionIs DEF QInv, SnapshotKnown
      <4> HIDE DEF all
      <4> QED BY <4>1
    <3>4. n \in 1..Len(all) /\ n \in 0..Len(all)
      <4> HIDE DEF all
      <4> QED BY <3>2, <3>3
    <3>5. /\ Execute(request, sid, me.cursor).error = "none" =>
               request = me.request
               /\ Execute(request, sid, me.cursor) = Page(me.request, snapshot, n)
          /\ Execute(request, sid, [me.cursor EXCEPT !.intact = FALSE]).error # "none"
      <4> DEFINE cur == me.cursor
                 req == me.request
      <4>1. /\ snapshot \in qstore.registered /\ req \in QRequests /\ RequestOK(req)
            /\ Cardinality(snapshot.rows) <= MaxSyncRows
            /\ n \in 1..Len(SelectRows(snapshot, req))
            /\ cur = EncodeCursor(SelectRows(snapshot, req)[n], req, snapshot)
        BY <3>1, <3>2, <3>4
      <4> HIDE DEF snapshot, cur, req, me, answer, held, all
      <4>2. /\ Execute(request, sid, cur).error = "none" =>
                 request = req /\ Execute(request, sid, cur) = Page(req, snapshot, n)
            /\ Execute(request, sid, [cur EXCEPT !.intact = FALSE]).error # "none"
        BY ONLY QInv, <4>1, NextAnswer
      <4> QED BY <4>2 DEF snapshot, cur, req
    <3>6. cursor = me.cursor \/ cursor = [me.cursor EXCEPT !.intact = FALSE] OBVIOUS
    <3>7. request = me.request /\ answer = Page(me.request, snapshot, n)
      BY <1>5, <3>5, <3>6
    <3> HIDE DEF me, answer
    <3> QED BY <3>1, <3>2, <3>4, <3>7, PageReceived
  <2> QED BY <1>1, <1>3, <2>1, <2>2 DEF ClientOK
<1> HIDE DEF me, received, answer, counted
<1>6. /\ DOMAIN qclient' = QClients
      /\ \A x \in QClients : qclient'[x] = qclient[x] \/ ClientOK(qclient'[x], known)
  <2>1. DOMAIN qclient = QClients BY DEF QInv
  <2>2. \A x \in QClients : x # c => qclient'[x] = qclient[x] BY <1>2, <2>1
  <2>3. ClientOK(qclient'[c], known) BY <1>2, <1>4, <1>5, <2>1 DEF answer
  <2> QED BY <1>2, <2>1, <2>2, <2>3
<1> QED BY <1>3, <1>6 DEF QInv

\* What ingest builds of documents can be ordered.
LEMMA SourceComparable ==
  ASSUME NEW source \in QSources, NEW s \in source, RowOK(FromAggregation(s))
  PROVE  Comparable(FromAggregation(s))
<1> DEFINE row == FromAggregation(s)
<1>1. row.id = s.id /\ s.id \in Int BY DocumentAssumption DEF FromAggregation, BuildRow
<1>2. ASSUME NEW f \in Fields, Sortable(f) PROVE SortToken(row.values[f]) \in Int \X Int
  <2> DEFINE v == row.values[f]
  <2>1. \/ \E i \in 1..7 : v = Without(AnalyticsValueState[i])
        \/ \E x : JsonOK(x) /\ v.raw = x /\ v.state = (IF x \in Blank THEN "empty" ELSE "value")
    <3> DEFINE supplied == [field \in Protected \cup DOMAIN s.dimensions |->
                 IF field \notin Protected THEN s.dimensions[field]
                 ELSE IF s.record[field] = <<"null", 0>> THEN <<"state", "missing">>
                 ELSE s.record[field]]
    <3>0. AnalyticsValueState[3] = "missing" /\ 3 \in 1..7 BY DEF AnalyticsValueState
    <3>1. v = IF f \in DOMAIN supplied THEN Wrapped(supplied[f]) ELSE Without("missing")
      BY DEF FromAggregation, BuildRow
    <3>2. ASSUME f \in DOMAIN supplied PROVE JsonOK(supplied[f])
      <4>1. JsonOK(<<"state", "missing">>) BY <3>0 DEF JsonOK
      <4> QED BY <3>2, <4>1, DocumentAssumption
    <3> HIDE DEF supplied
    <3>3. CASE f \notin DOMAIN supplied BY <3>0, <3>1, <3>3
    <3>4. CASE f \in DOMAIN supplied /\ supplied[f][1] = "state"
      BY <3>1, <3>2, <3>4 DEF JsonOK, Wrapped
    <3>5. CASE f \in DOMAIN supplied /\ supplied[f][1] # "state"
      <4>1. v = [state |-> IF supplied[f] \in Blank THEN "empty" ELSE "value",
                 raw |-> supplied[f]] BY <3>1, <3>5 DEF Wrapped
      <4> HIDE DEF v
      <4>2. v.raw = supplied[f] /\ v.state = (IF supplied[f] \in Blank THEN "empty" ELSE "value")
        BY <4>1
      <4> QED BY <3>2, <3>5, <4>2 DEF v
    <3> QED BY <3>3, <3>4, <3>5
  <2>2. FieldValueOK(f, v) BY DEF RowOK
  <2> HIDE DEF v
  <2>3. FieldType[f] \in {"string", "boolean", "number", "timestamp"}
    BY <1>2 DEF Sortable, Fields, FieldType
  <2>4. ASSUME NEW i \in 1..7, v.state = AnalyticsValueState[i] PROVE StateOrder(v.state) \in Int
    BY <2>4 DEF StateOrder
  <2>5. CASE \E i \in 1..7 : v = Without(AnalyticsValueState[i])
    <3>1. PICK i \in 1..7 : v = Without(AnalyticsValueState[i]) BY <2>5
    <3>2. v.state = AnalyticsValueState[i] /\ v.raw = <<"null", 0>> BY <3>1 DEF Without
    <3>3. SortToken(v) = <<StateOrder(v.state), 0>> BY <3>2 DEF SortToken
    <3>4. StateOrder(v.state) \in Int BY <2>4, <3>2
    <3> QED BY <3>3, <3>4 DEF v
  <2>6. ASSUME NEW x, JsonOK(x), v.raw = x, v.state = (IF x \in Blank THEN "empty" ELSE "value")
        PROVE  SortToken(v) \in Int \X Int
    <3>0. AnalyticsValueState[1] = "value" /\ AnalyticsValueState[2] = "empty" /\ 1 \in 1..7 /\ 2 \in 1..7
      BY DEF AnalyticsValueState
    <3>1. StateOrder(v.state) \in Int BY <2>4, <2>6, <3>0
    <3>2. x[1] \in {"string", "date", "number", "boolean"}
      <4>1. CASE v.state = "value"
        <5>1. ScalarOK(f, x) BY <2>2, <2>3, <2>6, <4>1 DEF FieldValueOK
        <5> QED BY <2>3, <5>1 DEF ScalarOK
      <4>2. CASE v.state = "empty"
        <5>1. x = <<"string", 0>> BY <2>2, <2>3, <2>6, <4>2 DEF FieldValueOK
        <5> QED BY <5>1
      <4> QED BY <2>6, <4>1, <4>2
    <3>3. x[1] # "boolean" => x[2] \in Int BY <2>6, <3>2 DEF JsonOK
    <3> QED BY <2>6, <3>1, <3>3 DEF SortToken
  <2> QED BY <2>1, <2>5, <2>6 DEF v
<1> QED BY <1>1, <1>2 DEF Comparable

LEMMA RegisterSnapshotStep ==
  ASSUME QInv, NEW source \in QSources, NEW makeCurrent, Register(source, makeCurrent)
  PROVE  QInv'
<1> DEFINE rows == {FromAggregation(s) : s \in source}
           snapshot == [rows |-> rows]
           known == qstore.registered
<1>1. SnapshotOK(rows) BY DEF Register
<1>2. IsFiniteSet(rows)
  <2> DEFINE f == [s \in source |-> FromAggregation(s)]
  <2>1. IsFiniteSet(source) BY DocumentAssumption
  <2>2. f \in Surjection(source, rows) BY DEF Surjection
  <2> HIDE DEF f, rows
  <2> QED BY <2>1, <2>2, FS_Surjection
<1>3. RowsOK(rows) BY <1>1, <1>2, SourceComparable DEF RowsOK, SnapshotOK
<1>4. SnapshotKnown(snapshot)
  <2>1. DOMAIN snapshot = {"rows"} /\ DOMAIN NoSnapshot = {"none"} /\ snapshot.rows = rows
    BY DEF NoSnapshot
  <2> HIDE DEF snapshot, rows
  <2> QED BY <1>3, <2>1 DEF SnapshotKnown
<1>5. /\ qstore' = [registered |-> known \cup {snapshot},
                   current |-> IF makeCurrent THEN snapshot ELSE qstore.current]
      /\ UNCHANGED <<qclient, qexport>> BY DEF Register
<1> HIDE DEF snapshot
<1>6. /\ qstore'.registered = known \cup {snapshot}
      /\ qstore'.current \in {snapshot, qstore.current} BY <1>5
<1> HIDE DEF known
<1>7. \A c \in QClients : ClientOK(qclient'[c], qstore'.registered)
  BY <1>5, <1>6, ClientKept DEF QInv, known
<1>8. \A e \in QExports : ExportOK(qexport'[e], qstore'.registered)
  BY <1>5, <1>6 DEF QInv, ExportOK, Bound, known
<1> QED BY <1>4, <1>5, <1>6, <1>7, <1>8 DEF QInv, known

\* An export changed in one place.
LEMMA ExportChanged ==
  ASSUME QInv, NEW e \in QExports, NEW x, ExportOK(x, qstore.registered),
         qexport' = [qexport EXCEPT ![e] = x], UNCHANGED <<qstore, qclient>>
  PROVE  QInv'
<1>1. DOMAIN qexport' = QExports
      /\ \A y \in QExports : ExportOK(qexport'[y], qstore.registered) BY DEF QInv
<1> QED BY <1>1 DEF QInv

LEMMA BindStep ==
  ASSUME QInv, NEW e \in QExports, NEW request \in QRequests, NEW sid, BindSnapshot(e, request, sid)
  PROVE  QInv'
<1> DEFINE me == qexport[e]
           snapshot == ResolveSnapshot(sid)
           refused == [me EXCEPT !.phase = "refused"]
           bound == [me EXCEPT !.phase = "bound", !.request = request, !.snapshot = snapshot]
<1>1. ExportOK(me, qstore.registered) /\ snapshot \in qstore.registered \cup {NoSnapshot}
  BY StoreResolves DEF QInv
<1>2. RequestOK(request) /\ UNCHANGED <<qstore, qclient>> BY DEF BindSnapshot
<1>3. qexport' = [qexport EXCEPT ![e] = IF snapshot = NoSnapshot THEN refused ELSE bound]
  BY DEF BindSnapshot
<1>4. ExportOK(refused, qstore.registered) BY <1>1 DEF ExportOK
<1>5. snapshot # NoSnapshot => ExportOK(bound, qstore.registered)
  <2>1. /\ DOMAIN bound = DOMAIN me /\ bound.phase = "bound"
        /\ bound.request = request /\ bound.snapshot = snapshot BY <1>1 DEF ExportOK
  <2> HIDE DEF bound
  <2> QED BY <1>1, <1>2, <2>1 DEF ExportOK, Bound
<1> HIDE DEF bound, refused, snapshot
<1> QED BY <1>2, <1>3, <1>4, <1>5, ExportChanged

LEMMA SelectStep ==
  ASSUME QInv, NEW e \in QExports, NEW cancelled, SelectForExport(e, cancelled)
  PROVE  QInv'
<1> DEFINE me == qexport[e]
           snapshot == ResolveSnapshot(me.snapshot)
           rows == SelectRows(snapshot, me.request)
           refused == [me EXCEPT !.phase = "refused"]
           done == [me EXCEPT !.phase = "done", !.rows = rows]
<1>1. ExportOK(me, qstore.registered) /\ me.phase = "bound" /\ UNCHANGED <<qstore, qclient>>
  BY DEF QInv, SelectForExport
<1>2. Bound(me, qstore.registered) /\ rows = Chosen(me)
  BY <1>1, StoreResolves DEF ExportOK, Bound, Chosen
<1>3. \E x \in {refused, done} : qexport' = [qexport EXCEPT ![e] = x]
  BY DEF SelectForExport
<1>4. ExportOK(refused, qstore.registered) BY <1>1 DEF ExportOK
<1>5. ExportOK(done, qstore.registered)
  <2> HIDE DEF rows
  <2>1. /\ DOMAIN done = DOMAIN me /\ done.phase = "done" /\ done.rows = rows
        /\ done.request = me.request /\ done.snapshot = me.snapshot
    BY <1>1 DEF ExportOK
  <2> HIDE DEF done
  <2> QED BY <1>1, <1>2, <2>1 DEF ExportOK, Bound, Chosen
<1> HIDE DEF refused, done, me
<1> QED BY <1>1, <1>3, <1>4, <1>5, ExportChanged

LEMMA QInductive == QSpec => []QInv
<1>1. QInit => QInv BY DEF QInit, QInv, ClientOK, ExportOK
<1>2. QInv /\ [QNext]_qVars => QInv'
  <2> SUFFICES ASSUME QInv, [QNext]_qVars PROVE QInv' OBVIOUS
  <2>1. CASE UNCHANGED qVars BY <2>1 DEF qVars, QInv
  <2>2. ASSUME NEW source \in QSources, NEW cur, Register(source, cur) PROVE QInv'
    BY <2>2, RegisterSnapshotStep
  <2>3. ASSUME NEW c \in QClients, NEW r \in QRequests, NEW s, Ask(c, r, s) PROVE QInv'
    BY <2>3, AskStep
  <2>4. ASSUME NEW e \in QExports, NEW r \in QRequests, NEW s, BindSnapshot(e, r, s) PROVE QInv'
    BY <2>4, BindStep
  <2>5. ASSUME NEW e \in QExports, NEW cancelled, SelectForExport(e, cancelled) PROVE QInv'
    BY <2>5, SelectStep
  <2> QED BY <2>1, <2>2, <2>3, <2>4, <2>5 DEF QNext
<1> QED BY <1>1, <1>2, PTL DEF QSpec

\* Whatever is ingested between two pages, damaged, lost or asked again, the
\* pages of a series are the head of its selection, all of it at the end, as an
\* export bound to the same snapshot has it; the selection is in the order
\* asked for; and a cursor a client holds is always answered.
THEOREM PagesSafety == QSpec => [](PagesAreExport /\ SelectionOrdered /\ CursorStaysUsable)
<1>1. QInv => PagesAreExport
  <2> SUFFICES ASSUME QInv PROVE PagesAreExport OBVIOUS
  <2>1. ASSUME NEW c \in QClients, qclient[c].phase # "idle"
        PROVE  LET me == qclient[c]
                   all == SelectRows(me.snapshot, me.request) IN
               /\ Len(me.got) <= Len(all) /\ me.got = SubSeq(all, 1, Len(me.got))
               /\ me.phase = "done" => me.got = all
    <3> DEFINE me == qclient[c]
               all == SelectRows(me.snapshot, me.request)
    <3>1. ClientOK(me, qstore.registered) /\ me.phase # "idle" BY <2>1 DEF QInv
    <3>2. all \in Seq(Selected(me.snapshot.rows, me.request)) /\ all = Chosen(me)
      BY <3>1, ChosenIs DEF ClientOK, Chosen, QInv
    <3> HIDE DEF me, all
    <3>3. CASE me.phase = "done"
      <4>1. me.got = all BY <3>1, <3>2, <3>3 DEF ClientOK
      <4>2. 0 \in 0..Len(all) /\ Len(all) \in Nat BY <3>2
      <4> QED BY <3>2, <4>1, <4>2, PageContinues DEF me, all
    <3>4. CASE me.phase = "paging"
      <4>1. PICK n \in 1..(Len(all) - 1) : me.got = SubSeq(all, 1, n)
        BY <3>1, <3>2, <3>4 DEF ClientOK
      <4>2. n \in 0..Len(all) /\ n \in n..Len(all) /\ n <= Len(all) BY <3>2, <4>1
      <4>3. Len(SubSeq(all, 1, n)) = n BY <3>2, <4>2, PageContinues
      <4> QED BY <3>4, <4>1, <4>2, <4>3 DEF me, all
    <3> QED BY <3>1, <3>3, <3>4 DEF ClientOK
  <2>2. ASSUME NEW c \in QClients, NEW e \in QExports,
               qclient[c].phase = "done", qexport[e].phase = "done",
               qexport[e].snapshot = qclient[c].snapshot,
               qexport[e].request = qclient[c].request
        PROVE  qexport[e].rows = qclient[c].got
    BY <2>2 DEF QInv, ClientOK, ExportOK, Chosen
  <2> QED BY <2>1, <2>2 DEF PagesAreExport
<1>2. QInv => SelectionOrdered
  <2> SUFFICES ASSUME QInv, NEW c \in QClients, qclient[c].phase = "done"
               PROVE  LET me == qclient[c] IN
                      /\ {me.got[i] : i \in DOMAIN me.got} = Selected(me.snapshot.rows, me.request)
                      /\ \A i, j \in DOMAIN me.got :
                           RowBefore(me.got[j], me.got[i], me.request.sort) => j < i
    BY DEF SelectionOrdered
  <2> DEFINE me == qclient[c]
  <2>1. Bound(me, qstore.registered) /\ me.got = Chosen(me) BY DEF QInv, ClientOK
  <2>2. \A snapshot \in qstore.registered : SnapshotKnown(snapshot) BY DEF QInv
  <2> HIDE DEF me
  <2>3. LET all == Chosen(me) IN
        /\ {all[i] : i \in DOMAIN all} = Selected(me.snapshot.rows, me.request)
        /\ \A i, j \in DOMAIN all : RowBefore(all[j], all[i], me.request.sort) => j < i
    BY <2>1, <2>2, ChosenIs
  <2> QED BY <2>1, <2>3 DEF me
<1>3. QInv => CursorStaysUsable
  <2> SUFFICES ASSUME QInv, NEW c \in QClients, qclient[c].phase = "paging"
               PROVE  Execute(qclient[c].request, NoSnapshot, qclient[c].cursor).error = "none"
    BY DEF CursorStaysUsable
  <2> DEFINE me == qclient[c]
             snapshot == me.snapshot
             request == me.request
             cursor == me.cursor
             all == SelectRows(snapshot, request)
  <2>1. ClientOK(me, qstore.registered) /\ Bound(me, qstore.registered)
    BY DEF QInv, ClientOK
  <2>2. PICK n \in 1..(Len(all) - 1) : cursor = EncodeCursor(all[n], request, snapshot)
    BY <2>1 DEF ClientOK, Chosen
  <2>3. /\ snapshot \in qstore.registered /\ SnapshotKnown(snapshot)
        /\ Cardinality(snapshot.rows) <= MaxSyncRows
        /\ request \in QRequests /\ RequestOK(request)
    BY <2>1 DEF ClientOK, Bound, QInv
  <2>4. all \in Seq(Selected(snapshot.rows, request))
    BY <2>3, SortOfRequest, SelectionIs DEF SnapshotKnown
  <2> HIDE DEF me, snapshot, request, cursor, all
  <2>5. n \in 1..Len(all) /\ n \in 0..Len(all) BY <2>4
  <2>6. /\ Execute(request, NoSnapshot, cursor) = Page(request, snapshot, n)
        /\ Execute(request, NoSnapshot, [cursor EXCEPT !.intact = FALSE]).error # "none"
    BY ONLY QInv, <2>2, <2>3, <2>5, NextAnswer DEF all
  <2>7. Page(request, snapshot, n).error = "none" BY ONLY <2>3, <2>5, PageIs DEF all
  <2> QED BY <2>6, <2>7 DEF request, cursor, me
<1> QED BY <1>1, <1>2, <1>3, QInductive, PTL

-----------------------------------------------------------------------------
(* Sums over finite sets. *)

Pick(s) == CHOOSE x \in s : TRUE

\* h has the sum of f over each subset of D.
SumAt(h, f, s) == IF s = {} THEN 0 ELSE f[Pick(s)] + h[s \ {Pick(s)}]
SumsOver(h, f, D) == h = [s \in SUBSET D |-> SumAt(h, f, s)]
Sums(f, D) == CHOOSE h : SumsOver(h, f, D)

LEMMA SumForm ==
  ASSUME NEW f
  PROVE  SumFunction(f) = Sums(f, DOMAIN f)[DOMAIN f]
BY DEF SumFunction, SumFunctionOnSet, FoldFunctionOnSet, MapThenFoldSet, Sums, SumsOver,
  SumAt, Pick

\* A set that with all the smaller ones holds a subset of D holds them all.
LEMMA SubsetsInduct ==
  ASSUME NEW D, IsFiniteSet(D), NEW P,
         ASSUME NEW s \in SUBSET D, \A r \in SUBSET s : r # s => r \in P PROVE s \in P
  PROVE  \A s \in SUBSET D : s \in P
<1> DEFINE T == {s \in SUBSET D : s \notin P}
           card == {Cardinality(s) : s \in T}
<1> SUFFICES ASSUME T # {} PROVE FALSE OBVIOUS
<1>1. \A s \in SUBSET D : IsFiniteSet(s) /\ Cardinality(s) \in Nat
  BY FS_Subset, FS_CardinalityType
<1>2. PICK n \in card : \A k \in card : n <= k
  <2>1. card \in SUBSET Nat /\ card # {} BY <1>1
  <2> HIDE DEF card
  <2> QED BY <2>1, LeastIndex
<1>3. PICK s \in T : Cardinality(s) = n OBVIOUS
<1>4. ASSUME NEW r \in SUBSET s, r # s PROVE r \in P
  <2>1. Cardinality(r) <= Cardinality(s) /\ Cardinality(r) # Cardinality(s)
    BY <1>1, <1>4, FS_Subset
  <2>2. Cardinality(r) \in Nat /\ Cardinality(s) \in Nat /\ r \in SUBSET D BY <1>1
  <2>3. ~ (n <= Cardinality(r)) BY <1>3, <2>1, <2>2
  <2> QED BY <1>2, <2>2, <2>3
<1>5. s \in P BY <1>4
<1> QED BY <1>5

LEMMA PickIs == \A s : s # {} => Pick(s) \in s
BY DEF Pick

LEMMA SumsExist ==
  ASSUME NEW D, IsFiniteSet(D), NEW f \in [D -> Int]
  PROVE  \E h \in [SUBSET D -> Int] : SumsOver(h, f, D)
<1> DEFINE upTo(h, n) == \A s \in SUBSET D : Cardinality(s) <= n => h[s] = SumAt(h, f, s)
           m == Cardinality(D)
           bad == {n \in 0..m : ~ \E h \in [SUBSET D -> Int] : upTo(h, n)}
<1>1. \A s \in SUBSET D : IsFiniteSet(s) /\ Cardinality(s) \in Nat /\ Cardinality(s) <= m
  BY FS_Subset, FS_CardinalityType
<1>2. m \in Nat BY FS_CardinalityType
<1>3. bad = {}
  <2> SUFFICES ASSUME bad # {} PROVE FALSE OBVIOUS
  <2>1. PICK n \in bad : \A k \in bad : n <= k
    <3>1. bad \in SUBSET Nat BY <1>2
    <3> HIDE DEF bad
    <3> QED BY <3>1, LeastIndex
  <2>2. n # 0
    <3> DEFINE h == [s \in SUBSET D |-> 0]
    <3>1. h \in [SUBSET D -> Int] OBVIOUS
    <3>2. ASSUME NEW s \in SUBSET D, Cardinality(s) <= 0 PROVE h[s] = SumAt(h, f, s)
      <4>1. s = {} BY <1>1, <3>2, FS_EmptySet
      <4> QED BY <4>1 DEF SumAt
    <3> HIDE DEF h
    <3>3. upTo(h, 0) BY <3>2
    <3> QED BY <2>1, <3>1, <3>3
  <2>3. n - 1 \in 0..m /\ n - 1 \notin bad
    <3>1. n \in 0..m BY <2>1
    <3>2. n - 1 \in 0..m /\ ~ (n <= n - 1) BY <1>2, <2>2, <3>1
    <3> HIDE DEF bad
    <3> QED BY <2>1, <3>2
  <2>4. PICK h \in [SUBSET D -> Int] : upTo(h, n - 1) BY <2>3
  <2> DEFINE g == [s \in SUBSET D |-> IF Cardinality(s) <= n - 1 THEN h[s] ELSE SumAt(h, f, s)]
  <2>5. ASSUME NEW s \in SUBSET D PROVE SumAt(h, f, s) \in Int
    <3>1. s # {} => Pick(s) \in s /\ s \ {Pick(s)} \in SUBSET D BY PickIs
    <3> QED BY <3>1 DEF SumAt
  <2>6. g \in [SUBSET D -> Int] BY <2>5
  <2>7. ASSUME NEW s \in SUBSET D, Cardinality(s) <= n PROVE g[s] = SumAt(g, f, s)
    <3>1. g[s] = SumAt(h, f, s)
      <4>1. Cardinality(s) <= n - 1 => h[s] = SumAt(h, f, s) BY <2>4
      <4> QED BY <4>1
    <3>2. CASE s = {} BY <3>1, <3>2 DEF SumAt
    <3>3. CASE s # {}
      <4> DEFINE r == s \ {Pick(s)}
      <4>1. Pick(s) \in s /\ r \in SUBSET D BY <3>3, PickIs
      <4>2. Cardinality(r) = Cardinality(s) - 1 BY <1>1, <4>1, FS_RemoveElement
      <4>3. Cardinality(r) <= n - 1 BY <1>1, <1>2, <2>1, <2>7, <4>2
      <4>4. g[r] = h[r] BY <4>1, <4>3
      <4> HIDE DEF g
      <4> QED BY <3>1, <3>3, <4>4 DEF SumAt
    <3> QED BY <3>2, <3>3
  <2> HIDE DEF g
  <2>8. upTo(g, n) BY <2>7
  <2> QED BY <2>1, <2>6, <2>8
<1>4. PICK h \in [SUBSET D -> Int] : upTo(h, m)
  <2>1. m \in 0..m BY <1>2
  <2> QED BY <1>3, <2>1
<1>5. \A s \in SUBSET D : h[s] = SumAt(h, f, s) BY <1>1, <1>4
<1>6. SumsOver(h, f, D) BY <1>5 DEF SumsOver
<1> QED BY <1>6

LEMMA SumsAre ==
  ASSUME NEW D, IsFiniteSet(D), NEW f \in [D -> Int]
  PROVE  /\ \A s \in SUBSET D : Sums(f, D)[s] \in Int
         /\ Sums(f, D)[{}] = 0
         /\ \A s \in SUBSET D : \A x \in s :
              Sums(f, D)[s] = f[x] + Sums(f, D)[s \ {x}]
<1> DEFINE h == Sums(f, D)
<1>1. SumsOver(h, f, D) BY SumsExist DEF Sums
<1> HIDE DEF h
<1>2. ASSUME NEW s \in SUBSET D PROVE h[s] = SumAt(h, f, s) BY <1>1 DEF SumsOver
<1>3. h[{}] = 0 BY <1>2 DEF SumAt
<1>4. ASSUME NEW s \in SUBSET D, s # {}
      PROVE  Pick(s) \in s /\ h[s] = f[Pick(s)] + h[s \ {Pick(s)}]
  BY <1>2, <1>4, PickIs DEF SumAt
<1> DEFINE P == {s \in SUBSET D : h[s] \in Int}
           Q == {s \in SUBSET D : \A x \in s : h[s] = f[x] + h[s \ {x}]}
<1>5. \A s \in SUBSET D : s \in P
  <2>1. ASSUME NEW s \in SUBSET D, \A r \in SUBSET s : r # s => r \in P PROVE s \in P
    <3>1. CASE s = {} BY <1>3, <3>1
    <3>2. CASE s # {}
      <4>1. Pick(s) \in s /\ h[s] = f[Pick(s)] + h[s \ {Pick(s)}] BY <1>4, <3>2
      <4>2. s \ {Pick(s)} \in P BY <2>1, <4>1
      <4> QED BY <4>1, <4>2
    <3> QED BY <3>1, <3>2
  <2> HIDE DEF P
  <2> QED BY <2>1, SubsetsInduct
<1>6. \A s \in SUBSET D : s \in Q
  <2>1. ASSUME NEW s \in SUBSET D, \A r \in SUBSET s : r # s => r \in Q PROVE s \in Q
    <3> SUFFICES ASSUME NEW x \in s PROVE h[s] = f[x] + h[s \ {x}] OBVIOUS
    <3> DEFINE p == Pick(s)
               t == s \ {p, x}
    <3>1. p \in s /\ h[s] = f[p] + h[s \ {p}] BY <1>4
    <3> HIDE DEF p
    <3>2. CASE x = p BY <3>1, <3>2
    <3>3. CASE x # p
      <4>1. s \ {p} \in Q /\ x \in s \ {p} /\ (s \ {p}) \ {x} = t BY <2>1, <3>1, <3>3
      <4>2. s \ {x} \in Q /\ p \in s \ {x} /\ (s \ {x}) \ {p} = t BY <2>1, <3>1, <3>3
      <4>3. h[s \ {p}] = f[x] + h[t] BY <4>1
      <4>4. h[s \ {x}] = f[p] + h[t] BY <4>2
      <4>5. h[t] \in Int /\ f[x] \in Int /\ f[p] \in Int BY <1>5, <3>1
      <4> QED BY <3>1, <4>3, <4>4, <4>5
    <3> QED BY <3>2, <3>3
  <2> HIDE DEF Q
  <2> QED BY <2>1, SubsetsInduct
<1> QED BY <1>3, <1>5, <1>6 DEF h

\* The same values at other places have the same sum.
LEMMA SumMoved ==
  ASSUME NEW D, IsFiniteSet(D), NEW f \in [D -> Int],
         NEW E, IsFiniteSet(E), NEW g \in [E -> Int],
         NEW b \in [D -> E], \A x, y \in D : b[x] = b[y] => x = y,
         \A e \in E : \E x \in D : b[x] = e,
         \A x \in D : f[x] = g[b[x]]
  PROVE  SumFunction(f) = SumFunction(g)
<1> DEFINE F == Sums(f, D)
           G == Sums(g, E)
           image(s) == {b[x] : x \in s}
           P == {s \in SUBSET D : F[s] = G[image(s)]}
<1>0. IsFiniteSet(D) /\ f \in [D -> Int] /\ IsFiniteSet(E) /\ g \in [E -> Int] OBVIOUS
<1>1. /\ \A s \in SUBSET D : F[s] \in Int
      /\ F[{}] = 0 /\ \A s \in SUBSET D : \A x \in s : F[s] = f[x] + F[s \ {x}]
  BY ONLY <1>0, SumsAre
<1>2. /\ \A s \in SUBSET E : G[s] \in Int
      /\ G[{}] = 0 /\ \A s \in SUBSET E : \A x \in s : G[s] = g[x] + G[s \ {x}]
  BY ONLY <1>0, SumsAre
<1> HIDE DEF F, G
<1>3. ASSUME NEW s \in SUBSET D, \A r \in SUBSET s : r # s => r \in P PROVE s \in P
  <2>1. CASE s = {}
    <3>1. image(s) = {} BY <2>1
    <3> HIDE DEF image
    <3> QED BY <1>1, <1>2, <2>1, <3>1
  <2>2. CASE s # {}
    <3>1. PICK x \in s : TRUE BY <2>2
    <3> DEFINE r == s \ {x}
    <3>2. r \in P /\ r \in SUBSET D BY <1>3, <3>1
    <3>3. image(r) = image(s) \ {b[x]} /\ b[x] \in image(s) /\ image(s) \in SUBSET E
      BY <3>1
    <3>4. F[s] = f[x] + F[r] /\ F[r] = G[image(r)] BY <1>1, <3>2
    <3> HIDE DEF image, r
    <3>5. G[image(s)] = g[b[x]] + G[image(r)] BY <1>2, <3>3
    <3> QED BY <3>4, <3>5
  <2> QED BY <2>1, <2>2
<1>4. \A s \in SUBSET D : s \in P
  <2> HIDE DEF P
  <2> QED BY <1>3, SubsetsInduct
<1>5. image(D) = E OBVIOUS
<1>6. F[D] = G[E] BY <1>4, <1>5
<1>7. SumFunction(f) = F[D] /\ SumFunction(g) = G[E]
  <2>1. DOMAIN f = D /\ DOMAIN g = E OBVIOUS
  <2> QED BY <2>1, SumForm DEF F, G
<1> QED BY <1>6, <1>7

\* The sum of differences is the difference of the sums.
LEMMA SumDifference ==
  ASSUME NEW D, IsFiniteSet(D), NEW f \in [D -> Int], NEW g \in [D -> Int],
         NEW d \in [D -> Int], \A x \in D : d[x] = g[x] - f[x]
  PROVE  SumFunction(d) = SumFunction(g) - SumFunction(f)
<1> DEFINE F == Sums(f, D)
           G == Sums(g, D)
           H == Sums(d, D)
           P == {s \in SUBSET D : H[s] = G[s] - F[s]}
<1>0. /\ IsFiniteSet(D) /\ f \in [D -> Int] /\ g \in [D -> Int] /\ d \in [D -> Int]
  OBVIOUS
<1>1. /\ \A s \in SUBSET D : F[s] \in Int
      /\ F[{}] = 0 /\ \A s \in SUBSET D : \A x \in s : F[s] = f[x] + F[s \ {x}]
  BY ONLY <1>0, SumsAre
<1>2. /\ \A s \in SUBSET D : G[s] \in Int
      /\ G[{}] = 0 /\ \A s \in SUBSET D : \A x \in s : G[s] = g[x] + G[s \ {x}]
  BY ONLY <1>0, SumsAre
<1>3. /\ \A s \in SUBSET D : H[s] \in Int
      /\ H[{}] = 0 /\ \A s \in SUBSET D : \A x \in s : H[s] = d[x] + H[s \ {x}]
  BY ONLY <1>0, SumsAre
<1> HIDE DEF F, G, H
<1>4. ASSUME NEW s \in SUBSET D, \A r \in SUBSET s : r # s => r \in P PROVE s \in P
  <2>1. CASE s = {} BY <1>1, <1>2, <1>3, <2>1
  <2>2. CASE s # {}
    <3>1. PICK x \in s : TRUE BY <2>2
    <3> DEFINE r == s \ {x}
    <3>2. r \in SUBSET D /\ H[r] = G[r] - F[r] BY <1>4, <3>1
    <3>3. F[s] = f[x] + F[r] /\ G[s] = g[x] + G[r] /\ H[s] = d[x] + H[r]
      BY <1>1, <1>2, <1>3
    <3>4. F[r] \in Int /\ G[r] \in Int /\ f[x] \in Int /\ g[x] \in Int /\ d[x] = g[x] - f[x]
      BY <1>1, <1>2, <3>2
    <3> HIDE DEF r
    <3> QED BY <3>2, <3>3, <3>4
  <2> QED BY <2>1, <2>2
<1>5. \A s \in SUBSET D : s \in P
  <2> HIDE DEF P
  <2> QED BY <1>4, SubsetsInduct
<1>6. H[D] = G[D] - F[D] BY <1>5
<1>7. DOMAIN f = D /\ DOMAIN g = D /\ DOMAIN d = D OBVIOUS
<1> QED BY <1>6, <1>7, SumForm DEF F, G, H

-----------------------------------------------------------------------------
(* Comparison reports. *)

Observations == {FromQueryRow(o) : o \in {x \in CmpOffers : ObservationOK(x)}}

\* The observations at hand, those of a lineage, an arm's of a lineage.
AllOf(obs) == {obs[i] : i \in DOMAIN obs}
ArmsOf(obs, k) ==
  [a \in {o.arm : o \in {x \in AllOf(obs) : x.key = k}} |->
     CHOOSE o \in {x \in AllOf(obs) : x.key = k} : o.arm = a]
PairsOf(obs, metrics, ev) ==
  [k \in {o.key : o \in AllOf(obs)} |-> PairDocument(ArmsOf(obs, k), metrics, ev)]

\* No arm of a lineage is observed twice.
OncePerArm(obs) ==
  \A o, x \in AllOf(obs) : o.key = x.key /\ o.arm = x.arm => o = x

LEMMA ObservedNumber ==
  ASSUME NEW o \in Observations, NEW m, ValueFor(o, m).state = "value"
  PROVE  ValueFor(o, m).raw[2] \in Int
<1>1. PICK x \in CmpOffers : ObservationOK(x) /\ o = FromQueryRow(x)
  BY DEF Observations
<1>2. CASE m = "success"
  <2>1. ValueFor(o, m) = Present(<<"number", IF o.success.raw[2] THEN 1 ELSE 0>>)
    BY <1>2 DEF ValueFor
  <2>2. ValueFor(o, m).raw = <<"number", IF o.success.raw[2] THEN 1 ELSE 0>>
    BY <2>1 DEF Present
  <2> QED BY <2>2
<1>3. CASE m \in {"score", "resource_consumption"}
  <2> DEFINE v == x.row.values[m]
  <2>1. ValueFor(o, m) = v BY <1>1, <1>3 DEF ValueFor, FromQueryRow
  <2>2. m \in Fields /\ FieldType[m] = "number" BY <1>3 DEF Fields, FieldType
  <2>3. FieldValueOK(m, v) /\ JsonOK(v.raw)
    BY <1>1, <2>2, OfferAssumption DEF ObservationOK, RowOK
  <2> HIDE DEF v
  <2>4. ScalarOK(m, v.raw) BY <2>1, <2>2, <2>3 DEF FieldValueOK
  <2>5. v.raw[1] = "number" BY <2>2, <2>4 DEF ScalarOK
  <2> QED BY <2>1, <2>3, <2>5 DEF JsonOK
<1>4. CASE m \notin {"success", "score", "resource_consumption"}
  <2>1. ValueFor(o, m) = Without("missing") BY <1>1, <1>4 DEF ValueFor, FromQueryRow
  <2> QED BY <2>1 DEF Without
<1> QED BY <1>2, <1>3, <1>4

LEMMA ArmsAre ==
  ASSUME NEW obs, NEW k
  PROVE  /\ \A a \in DOMAIN ArmsOf(obs, k) :
              /\ ArmsOf(obs, k)[a] \in AllOf(obs)
              /\ ArmsOf(obs, k)[a].key = k /\ ArmsOf(obs, k)[a].arm = a
         /\ \A o \in AllOf(obs) : o.key = k => o.arm \in DOMAIN ArmsOf(obs, k)
<1> DEFINE of == {x \in AllOf(obs) : x.key = k}
<1>1. ArmsOf(obs, k) = [a \in {o.arm : o \in of} |-> CHOOSE o \in of : o.arm = a]
  BY DEF ArmsOf
<1>2. ASSUME NEW a \in {o.arm : o \in of}
      PROVE  (CHOOSE o \in of : o.arm = a) \in of /\ (CHOOSE o \in of : o.arm = a).arm = a
  OBVIOUS
<1> QED BY <1>1, <1>2

\* Why a delta is missing is never an observed value.
LEMMA DeltaWithheld ==
  ASSUME NEW status, NEW states PROVE UnavailableDelta(status, states).state # "value"
<1> DEFINE worst == <<"quarantined", "redacted", "unknown", "missing", "not_applicable">>
           met == {i \in 1..5 : worst[i] \in states}
<1>1. met # {} => Min(met) \in 1..5
  <2>1. met \in SUBSET Nat /\ met \subseteq 1..5 OBVIOUS
  <2> HIDE DEF met
  <2>2. ASSUME met # {} PROVE \E x \in met : \A y \in met : x <= y
    BY <2>1, <2>2, LeastIndex
  <2> QED BY <2>1, <2>2 DEF Min
<1>2. \A i \in 1..5 : worst[i] # "value" OBVIOUS
<1>3. (IF met = {} THEN "unknown" ELSE worst[Min(met)]) # "value"
  <2> HIDE DEF worst, met
  <2> QED BY <1>1, <1>2
<1>4. UnavailableDelta(status, states) =
        CASE status = "unavailable_missing_arm" -> Without("missing")
          [] status = "unavailable_censored" -> Without("unknown")
          [] status = "unavailable_value_state" ->
               Without(IF met = {} THEN "unknown" ELSE worst[Min(met)])
          [] OTHER -> Without("not_applicable") BY DEF UnavailableDelta
<1> HIDE DEF met, worst
<1> QED BY <1>3, <1>4 DEF Without

\* Two arms can be compared when both are there, neither is censored, and
\* contexts and budgets agree.
LEMMA ComparableArms ==
  ASSUME NEW arms, NEW t, NEW ev
  PROVE  /\ ComparisonStatus(arms, t, ev) = "available" =>
              /\ t[1] \in DOMAIN arms /\ t[2] \in DOMAIN arms
              /\ ~ Censored(arms[t[1]]) /\ ~ Censored(arms[t[2]])
         /\ ComparisonStatus(arms, t, ev) \in
              {"available", "unavailable_missing_arm", "unavailable_censored",
               "unavailable_incomparable_context", "unavailable_unrecorded_budget",
               "unavailable_incomparable_budget"}
         /\ ComparisonStatus(arms, t, ev) = "unavailable_missing_arm" =>
              ~ ({t[1], t[2]} \subseteq DOMAIN arms)
         /\ ComparisonStatus(arms, t, ev) = "unavailable_censored" =>
              /\ t[1] \in DOMAIN arms /\ t[2] \in DOMAIN arms
              /\ Censored(arms[t[1]]) \/ Censored(arms[t[2]])
BY DEF ComparisonStatus

\* A delta is the difference of two observed values of uncensored arms.
LEMMA DeltaIs ==
  ASSUME NEW arms, NEW t, NEW m, NEW ev
  PROVE  LET c == MetricComparison(arms, t, m, ev) IN
         /\ c.absolute.state = "value" <=> c.status = "available"
         /\ c.relative.state = "value" => c.status = "available"
         /\ c.status = "available" =>
              /\ ComparisonStatus(arms, t, ev) = "available"
              /\ ValueFor(arms[t[1]], m).state = "value"
              /\ ValueFor(arms[t[2]], m).state = "value"
              /\ c.absolute.raw[2] = ValueFor(arms[t[2]], m).raw[2] - ValueFor(arms[t[1]], m).raw[2]
         /\ c.status \in {"unavailable_value_state", ComparisonStatus(arms, t, ev)}
<1> DEFINE value(arm) == IF arm \in DOMAIN arms THEN ValueFor(arms[arm], m) ELSE Without("missing")
           states == {value(t[1]).state, value(t[2]).state}
           comparable == ComparisonStatus(arms, t, ev)
           status == IF comparable = "available" /\ states # {"value"}
                     THEN "unavailable_value_state" ELSE comparable
           before == value(t[1]).raw[2]
           delta == value(t[2]).raw[2] - before
           none == UnavailableDelta(status, states)
           c == MetricComparison(arms, t, m, ev)
<1>1. c = IF status # "available"
          THEN [status |-> status, absolute |-> none, relative |-> none]
          ELSE [status |-> status, absolute |-> Present(<<"number", delta>>),
                relative |-> IF before = 0 THEN Without("not_applicable")
                             ELSE Present(<<"ratio", <<delta, Magnitude(before)>>>>)]
  BY DEF MetricComparison
<1>2. none.state # "value" BY DeltaWithheld
<1>3. status = "available" =>
        /\ comparable = "available" /\ states = {"value"}
        /\ value(t[1]) = ValueFor(arms[t[1]], m) /\ value(t[2]) = ValueFor(arms[t[2]], m)
  <2>1. status = "available" => comparable = "available" /\ states = {"value"}
    <3> HIDE DEF states, comparable
    <3> QED OBVIOUS
  <2>2. comparable = "available" => t[1] \in DOMAIN arms /\ t[2] \in DOMAIN arms
    BY ComparableArms
  <2> QED BY <2>1, <2>2
<1>4. status = "available" => value(t[1]).state = "value" /\ value(t[2]).state = "value"
  <2> HIDE DEF value, status
  <2> QED BY <1>3
<1>5. status \in {"unavailable_value_state", comparable}
  <2> HIDE DEF comparable, states
  <2> QED OBVIOUS
<1>6. \A x : Present(x).state = "value" /\ Present(x).raw = x BY DEF Present
<1> HIDE DEF status, none, comparable, states, delta, c, value
<1>7. CASE status # "available"
  <2>1. c.status = status /\ c.absolute = none /\ c.relative = none BY <1>1, <1>7
  <2> QED BY <1>2, <1>5, <1>7, <2>1 DEF c, comparable
<1>8. CASE status = "available"
  <2>1. c.status = status /\ c.absolute = Present(<<"number", delta>>) BY <1>1, <1>8
  <2>2. c.absolute.state = "value" /\ c.absolute.raw[2] = delta BY <1>6, <2>1
  <2>3. delta = ValueFor(arms[t[2]], m).raw[2] - ValueFor(arms[t[1]], m).raw[2]
    BY <1>3, <1>8 DEF delta
  <2> QED BY <1>3, <1>4, <1>5, <1>8, <2>1, <2>2, <2>3 DEF c, comparable
<1> QED BY <1>7, <1>8

\* The parts of a report over observations that each occur once.
BuiltOf(r, obs, metrics, method, ev) ==
  /\ obs \in Seq(Observations) /\ OncePerArm(obs)
  /\ r.pairs = PairsOf(obs, metrics, ev)
  /\ r.metric_summaries = [t \in Transitions |-> [m \in metrics |->
       Aggregate(r.pairs, t, m, method)]]
  /\ r.arm_statistics = [a \in ComparisonArm |-> [m \in metrics |->
       ArmStatistics(AllOf(obs), a, m)]]
  /\ r.status_counts = [s \in {"complete", "incomplete", "censored", "incomparable"} |->
       Cardinality({k \in DOMAIN r.pairs : r.pairs[k].status = s})]

\* What a report is built of.
LEMMA ReportIs ==
  ASSUME NEW request, NEW evidence, observed \in Seq(Observations),
         NEW r, r = BuildReport(request, evidence), r.error = "none"
  PROVE  \E ev : BuiltOf(r, observed, request.metrics, request.confidence, ev)
<1> DEFINE ev == {{evidence[i].left, evidence[i].right} : i \in DOMAIN evidence}
           all == AllOf(observed)
           pairs == PairsOf(observed, request.metrics, ev)
           method == request.confidence
           twice == \E i, j \in DOMAIN observed :
                      /\ i # j /\ observed[i].key = observed[j].key
                      /\ observed[i].arm = observed[j].arm
           other == \E o \in all : o.snapshot # request.snapshot
           built ==
             [error |-> "none", of |-> all, pairs |-> pairs,
              metric_summaries |-> [t \in Transitions |-> [m \in request.metrics |->
                Aggregate(pairs, t, m, method)]],
              arm_statistics |-> [a \in ComparisonArm |-> [m \in request.metrics |->
                ArmStatistics(all, a, m)]],
              status_counts |->
                [s \in {"complete", "incomplete", "censored", "incomparable"} |->
                   Cardinality({k \in DOMAIN pairs : pairs[k].status = s})],
              pruned |-> Cardinality({k \in DOMAIN pairs : pairs[k].pruned}),
              partial |-> Cardinality({k \in DOMAIN pairs : pairs[k].partial})]
<1>1. r = IF all = {} THEN [error |-> "no observation"]
          ELSE IF other THEN [error |-> "another snapshot"]
          ELSE IF Cardinality(ev) # Len(evidence) THEN [error |-> "duplicate evidence"]
          ELSE IF twice THEN [error |-> "duplicate observation"] ELSE built
  BY DEF BuildReport, AllOf, ArmsOf, PairsOf
<1> HIDE DEF built, other, all, ev
<1>2. r = built /\ ~ twice
  <2> DEFINE failed(code) == [error |-> code]
  <2>1. \A code : failed(code).error = code OBVIOUS
  <2>2. r = IF all = {} THEN failed("no observation")
            ELSE IF other THEN failed("another snapshot")
            ELSE IF Cardinality(ev) # Len(evidence) THEN failed("duplicate evidence")
            ELSE IF twice THEN failed("duplicate observation") ELSE built BY <1>1
  <2>3. /\ r # failed("no observation") /\ r # failed("another snapshot")
        /\ r # failed("duplicate evidence") /\ r # failed("duplicate observation")
    <3>1. \A code : r = failed(code) => code = "none" OBVIOUS
    <3> HIDE DEF failed
    <3> QED BY ONLY <3>1
  <2> HIDE DEF twice, failed
  <2>4. all # {} /\ ~ other /\ ~ (Cardinality(ev) # Len(evidence)) /\ ~ twice
    BY ONLY <2>2, <2>3
  <2> QED BY ONLY <2>2, <2>4
<1>3. OncePerArm(observed) BY <1>2 DEF OncePerArm, AllOf
<1> HIDE DEF pairs
<1>4. /\ r.pairs = pairs
      /\ r.metric_summaries = [t \in Transitions |-> [m \in request.metrics |->
           Aggregate(pairs, t, m, method)]]
      /\ r.arm_statistics = [a \in ComparisonArm |-> [m \in request.metrics |->
           ArmStatistics(all, a, m)]]
      /\ r.status_counts = [s \in {"complete", "incomplete", "censored", "incomparable"} |->
           Cardinality({k \in DOMAIN pairs : pairs[k].status = s})] BY <1>2 DEF built
<1>5. BuiltOf(r, observed, request.metrics, method, ev)
  BY <1>3, <1>4 DEF pairs, all, BuiltOf
<1> QED BY <1>5

LEMMA ObservedFinite ==
  ASSUME NEW obs \in Seq(Observations)
  PROVE  /\ IsFiniteSet(AllOf(obs)) /\ AllOf(obs) \subseteq Observations
         /\ IsFiniteSet({o.key : o \in AllOf(obs)})
<1>1. Len(obs) \in Nat /\ DOMAIN obs = 1..Len(obs) /\ obs \in [1..Len(obs) -> Observations]
  BY LenProperties
<1>2. IsFiniteSet(1..Len(obs)) BY <1>1, FS_Interval
<1>3. obs \in Surjection(1..Len(obs), AllOf(obs)) /\ AllOf(obs) \subseteq Observations
  BY <1>1 DEF Surjection, AllOf
<1>4. IsFiniteSet(AllOf(obs)) BY <1>2, <1>3, FS_Surjection
<1> DEFINE keys == {o.key : o \in AllOf(obs)}
           f == [o \in AllOf(obs) |-> o.key]
<1>5. f \in Surjection(AllOf(obs), keys) BY DEF Surjection
<1> HIDE DEF f, keys
<1>6. IsFiniteSet(keys) BY <1>4, <1>5, FS_Surjection
<1> QED BY <1>3, <1>4, <1>6 DEF keys

\* A delta is that of two values that the statistics of the arms show.
DeltaShown(c, t, m, arms, obs, k) ==
  /\ c.relative.state = "value" => c.absolute.state = "value"
  /\ c.absolute.state = "value" =>
       /\ \A a \in {t[1], t[2]} :
            /\ a \in DOMAIN arms /\ arms[a] \in AllOf(obs)
            /\ arms[a].key = k /\ arms[a].arm = a /\ ~ Censored(arms[a])
            /\ ValueFor(arms[a], m).state = "value"
            /\ ValueFor(arms[a], m).raw[2] \in Int
       /\ c.absolute.raw[2]
            = ValueFor(arms[t[2]], m).raw[2] - ValueFor(arms[t[1]], m).raw[2]

\* A lineage with a delta shows both its values in the statistics of the arms.
LEMMA AvailableIs ==
  ASSUME NEW obs \in Seq(Observations), NEW metrics, NEW ev,
         NEW k \in {o.key : o \in AllOf(obs)}, NEW t \in Transitions, NEW m \in metrics,
         NEW c, c = PairsOf(obs, metrics, ev)[k].transitions[t][m],
         NEW arms, arms = ArmsOf(obs, k)
  PROVE  /\ c = MetricComparison(arms, t, m, ev)
         /\ DeltaShown(c, t, m, arms, obs, k)
<1>1. c = MetricComparison(arms, t, m, ev) BY DEF PairsOf, PairDocument
<1>2. c.relative.state = "value" => c.absolute.state = "value" BY <1>1, DeltaIs
<1>3. ASSUME c.absolute.state = "value"
      PROVE  /\ \A a \in {t[1], t[2]} :
                  /\ a \in DOMAIN arms /\ arms[a] \in AllOf(obs)
                  /\ arms[a].key = k /\ arms[a].arm = a /\ ~ Censored(arms[a])
                  /\ ValueFor(arms[a], m).state = "value"
                  /\ ValueFor(arms[a], m).raw[2] \in Int
             /\ c.absolute.raw[2]
                  = ValueFor(arms[t[2]], m).raw[2] - ValueFor(arms[t[1]], m).raw[2]
  <2>1. /\ ComparisonStatus(arms, t, ev) = "available"
        /\ ValueFor(arms[t[1]], m).state = "value" /\ ValueFor(arms[t[2]], m).state = "value"
        /\ c.absolute.raw[2]
             = ValueFor(arms[t[2]], m).raw[2] - ValueFor(arms[t[1]], m).raw[2]
    BY <1>1, <1>3, DeltaIs
  <2>2. /\ t[1] \in DOMAIN arms /\ t[2] \in DOMAIN arms
        /\ ~ Censored(arms[t[1]]) /\ ~ Censored(arms[t[2]]) BY <2>1, ComparableArms
  <2>3. ASSUME NEW a \in {t[1], t[2]}
        PROVE  /\ a \in DOMAIN arms /\ arms[a] \in AllOf(obs)
               /\ arms[a].key = k /\ arms[a].arm = a /\ ~ Censored(arms[a])
               /\ ValueFor(arms[a], m).state = "value"
               /\ ValueFor(arms[a], m).raw[2] \in Int
    <3>1. a \in DOMAIN arms /\ ~ Censored(arms[a]) /\ ValueFor(arms[a], m).state = "value"
      BY <2>1, <2>2
    <3>2. arms[a] \in AllOf(obs) /\ arms[a].key = k /\ arms[a].arm = a BY <3>1, ArmsAre
    <3>3. arms[a] \in Observations BY <3>2, ObservedFinite
    <3> QED BY <3>1, <3>2, <3>3, ObservedNumber
  <2> QED BY <2>1, <2>3
<1> QED BY <1>1, <1>2, <1>3 DEF DeltaShown

LEMMA TransitionArms == \A t \in Transitions : t[1] \in ComparisonArm /\ t[2] \in ComparisonArm
BY DEF Transitions, ComparisonArm

\* The deltas of a transition, and the values of an arm, that are counted.
SummaryOf(summary, pairs, t, m) ==
  /\ summary.available =
       {k \in DOMAIN pairs : pairs[k].transitions[t][m].absolute.state = "value"}
  /\ summary.relative_pairs =
       {k \in DOMAIN pairs : pairs[k].transitions[t][m].relative.state = "value"}
  /\ summary.absolute =
       <<SumFunction([k \in summary.available |-> pairs[k].transitions[t][m].absolute.raw[2]]),
         Cardinality(summary.available)>>
  /\ summary.unavailable = Cardinality(DOMAIN pairs) - Cardinality(summary.available)

ShownBy(obs, a, m) ==
  {o \in AllOf(obs) : /\ o.arm = a /\ ~ Censored(o)
                     /\ ValueFor(o, m).state = "value"}
StatisticsOf(stats, shown, m) ==
  /\ stats.keys = {o.key : o \in shown}
  /\ stats.mean[1] = SumFunction([o \in shown |-> ValueFor(o, m).raw[2]])

\* What a summary of a report and the statistics of an arm are.
LEMMA SummaryIs ==
  ASSUME NEW r, NEW obs, NEW metrics, NEW method, NEW ev, BuiltOf(r, obs, metrics, method, ev),
         NEW t \in Transitions, NEW m \in metrics,
         NEW summary, summary = r.metric_summaries[t][m]
  PROVE  SummaryOf(summary, r.pairs, t, m)
<1>1. summary = Aggregate(r.pairs, t, m, method) BY DEF BuiltOf
<1> DEFINE available == {k \in DOMAIN r.pairs :
                          r.pairs[k].transitions[t][m].absolute.state = "value"}
           relative == {k \in DOMAIN r.pairs :
                          r.pairs[k].transitions[t][m].relative.state = "value"}
           number == [k \in available |-> r.pairs[k].transitions[t][m].absolute.raw[2]]
<1>2. summary =
        [absolute |-> Mean(number), available |-> available, relative_pairs |-> relative,
         unavailable |-> Cardinality(DOMAIN r.pairs) - Cardinality(available),
         confidence |-> Confidence(Cardinality(available), method)]
  BY <1>1 DEF Aggregate
<1>3. Mean(number) = <<SumFunction(number), Cardinality(available)>>
  <2>1. DOMAIN number = available OBVIOUS
  <2> HIDE DEF number, available
  <2> QED BY <2>1 DEF Mean
<1> HIDE DEF available, relative, number
<1>4. /\ summary.available = available /\ summary.relative_pairs = relative
      /\ summary.absolute = <<SumFunction(number), Cardinality(available)>>
      /\ summary.unavailable = Cardinality(DOMAIN r.pairs) - Cardinality(available)
  BY <1>2, <1>3
<1> QED BY <1>4 DEF available, relative, number, SummaryOf

LEMMA StatisticsAre ==
  ASSUME NEW r, NEW obs, NEW metrics, NEW method, NEW ev, BuiltOf(r, obs, metrics, method, ev),
         NEW a \in ComparisonArm, NEW m \in metrics,
         NEW stats, stats = r.arm_statistics[a][m]
  PROVE  StatisticsOf(stats, ShownBy(obs, a, m), m)
<1> DEFINE those == {o \in AllOf(obs) : o.arm = a /\ ~ Censored(o)}
           seen == {o \in those : ValueFor(o, m).state = "value"}
           number == [o \in seen |-> ValueFor(o, m).raw[2]]
<1>1. stats = ArmStatistics(AllOf(obs), a, m) BY DEF BuiltOf
<1>2. stats = [mean |-> Mean(number), keys |-> {o.key : o \in seen},
               observations |-> Cardinality(those)] BY <1>1 DEF ArmStatistics
<1>3. seen = ShownBy(obs, a, m) BY DEF ShownBy
<1>4. Mean(number)[1] = SumFunction(number)
  <2> HIDE DEF number
  <2> QED BY DEF Mean
<1> HIDE DEF those, number, seen
<1>5. stats.mean = Mean(number) /\ stats.keys = {o.key : o \in seen} BY <1>2
<1>6. number = [o \in ShownBy(obs, a, m) |-> ValueFor(o, m).raw[2]] BY <1>3 DEF number
<1> QED BY <1>3, <1>4, <1>5, <1>6 DEF StatisticsOf

LEMMA PairDomain ==
  ASSUME NEW r, NEW obs, NEW metrics, NEW method, NEW ev, BuiltOf(r, obs, metrics, method, ev)
  PROVE  DOMAIN r.pairs = {o.key : o \in AllOf(obs)} /\ IsFiniteSet(DOMAIN r.pairs)
BY ObservedFinite DEF BuiltOf, PairsOf

\* An available delta of a report is that of two observations shown by the arms.
LEMMA AvailableShown ==
  ASSUME NEW r, NEW obs, NEW metrics, NEW method, NEW ev, BuiltOf(r, obs, metrics, method, ev),
         NEW t \in Transitions, NEW m \in metrics, NEW k \in DOMAIN r.pairs,
         NEW c, c = r.pairs[k].transitions[t][m],
         NEW arms, arms = ArmsOf(obs, k)
  PROVE  DeltaShown(c, t, m, arms, obs, k)
<1>1. obs \in Seq(Observations) /\ r.pairs = PairsOf(obs, metrics, ev) BY DEF BuiltOf
<1>2. k \in {o.key : o \in AllOf(obs)} BY PairDomain
<1>3. c = PairsOf(obs, metrics, ev)[k].transitions[t][m] BY <1>1
<1> QED BY <1>1, <1>2, <1>3, AvailableIs

LEMMA DeltasStep ==
  ASSUME NEW r, NEW obs, NEW metrics, NEW method, NEW ev, BuiltOf(r, obs, metrics, method, ev)
  PROVE  /\ \A t \in Transitions : \A m \in DOMAIN r.metric_summaries[t] :
              LET summary == r.metric_summaries[t][m] IN
              /\ summary.available \subseteq r.arm_statistics[t[1]][m].keys
                                            \cap r.arm_statistics[t[2]][m].keys
              /\ summary.relative_pairs \subseteq summary.available
              /\ summary.absolute[2] + summary.unavailable = Cardinality(DOMAIN r.pairs)
         /\ \A k \in DOMAIN r.pairs : r.status_counts[r.pairs[k].status] > 0
<1>1. ASSUME NEW t \in Transitions, NEW m \in metrics, NEW summary, summary = r.metric_summaries[t][m]
      PROVE  /\ summary.available \subseteq r.arm_statistics[t[1]][m].keys
                                           \cap r.arm_statistics[t[2]][m].keys
             /\ summary.relative_pairs \subseteq summary.available
             /\ summary.absolute[2] + summary.unavailable = Cardinality(DOMAIN r.pairs)
  <2> DEFINE delta(k) == r.pairs[k].transitions[t][m]
  <2>1. /\ summary.available = {k \in DOMAIN r.pairs : delta(k).absolute.state = "value"}
        /\ summary.relative_pairs = {k \in DOMAIN r.pairs : delta(k).relative.state = "value"}
        /\ summary.absolute[2] = Cardinality(summary.available)
        /\ summary.unavailable = Cardinality(DOMAIN r.pairs) - Cardinality(summary.available)
    <3>1. SummaryOf(summary, r.pairs, t, m) BY <1>1, SummaryIs
    <3>2. summary.absolute[2] = Cardinality(summary.available)
      <4> DEFINE n == Cardinality(summary.available)
                 s == SumFunction([k \in summary.available |->
                                     r.pairs[k].transitions[t][m].absolute.raw[2]])
      <4>1. summary.absolute = <<s, n>> BY <3>1 DEF SummaryOf
      <4> HIDE DEF n, s
      <4>2. summary.absolute[2] = n BY <4>1
      <4> QED BY <4>2 DEF n
    <3>3. summary.available = {k \in DOMAIN r.pairs : delta(k).absolute.state = "value"}
      BY <3>1 DEF SummaryOf
    <3>4. summary.relative_pairs = {k \in DOMAIN r.pairs : delta(k).relative.state = "value"}
      BY <3>1 DEF SummaryOf
    <3>5. summary.unavailable = Cardinality(DOMAIN r.pairs) - Cardinality(summary.available)
      BY <3>1 DEF SummaryOf
    <3> QED BY <3>2, <3>3, <3>4, <3>5
  <2>2. ASSUME NEW k \in summary.available, NEW a \in {t[1], t[2]}
        PROVE  k \in r.arm_statistics[a][m].keys
    <3> DEFINE o == ArmsOf(obs, k)[a]
               stats == r.arm_statistics[a][m]
               shown == ShownBy(obs, a, m)
    <3>1. k \in DOMAIN r.pairs /\ delta(k).absolute.state = "value" BY <2>1
    <3>2. DeltaShown(delta(k), t, m, ArmsOf(obs, k), obs, k) BY <3>1, AvailableShown
    <3>3. o \in shown /\ o.key = k
      <4> HIDE DEF delta
      <4> QED BY <3>1, <3>2 DEF DeltaShown, ShownBy
    <3>4. a \in ComparisonArm BY TransitionArms
    <3>5. StatisticsOf(stats, shown, m) BY <3>4, StatisticsAre
    <3>6. k \in stats.keys
      <4> HIDE DEF shown, o, stats
      <4> QED BY <3>3, <3>5 DEF StatisticsOf
    <3> QED BY <3>6
  <2>3. summary.relative_pairs \subseteq summary.available
    <3>1. ASSUME NEW k \in DOMAIN r.pairs, delta(k).relative.state = "value"
          PROVE  delta(k).absolute.state = "value"
      BY <3>1, AvailableShown DEF DeltaShown
    <3> HIDE DEF delta
    <3> QED BY <2>1, <3>1
  <2>4. Cardinality(summary.available) \in Nat /\ Cardinality(DOMAIN r.pairs) \in Nat
    <3>1. IsFiniteSet(DOMAIN r.pairs) BY PairDomain
    <3>2. summary.available \in SUBSET (DOMAIN r.pairs) BY <2>1
    <3> QED BY <3>1, <3>2, FS_Subset, FS_CardinalityType
  <2> HIDE DEF delta
  <2> QED BY <2>1, <2>2, <2>3, <2>4
<1>2. ASSUME NEW t \in Transitions PROVE DOMAIN r.metric_summaries[t] = metrics
  BY DEF BuiltOf
<1>3. ASSUME NEW k \in DOMAIN r.pairs PROVE r.status_counts[r.pairs[k].status] > 0
  <2> DEFINE s == r.pairs[k].status
             those == {x \in DOMAIN r.pairs : r.pairs[x].status = s}
  <2>1. s \in {"complete", "incomplete", "censored", "incomparable"}
    BY PairDomain DEF BuiltOf, PairsOf, PairDocument
  <2>2. k \in those /\ IsFiniteSet(those)
    <3>1. IsFiniteSet(DOMAIN r.pairs) /\ those \in SUBSET (DOMAIN r.pairs)
      BY PairDomain
    <3>2. k \in those OBVIOUS
    <3> HIDE DEF those
    <3> QED BY <3>1, <3>2, FS_Subset
  <2>3. r.status_counts[s] = Cardinality(those) BY <2>1 DEF BuiltOf
  <2> HIDE DEF those, s
  <2>4. Cardinality(those) \in Nat /\ Cardinality(those) # 0
    BY <2>2, FS_CardinalityType, FS_EmptySet
  <2> QED BY <2>3, <2>4 DEF s
<1> QED BY <1>1, <1>2, <1>3

\* In a complete pair a delta is missing only with one of its values.
LEMMA CompleteIs ==
  ASSUME NEW arms, NEW metrics, NEW ev, NEW pair, pair = PairDocument(arms, metrics, ev),
         pair.status = "complete", NEW t \in Transitions, NEW m \in metrics
  PROVE  pair.transitions[t][m].status \in {"available", "unavailable_value_state"}
<1> DEFINE compared == [u \in Transitions |-> [n \in metrics |->
                          MetricComparison(arms, u, n, ev)]]
           statuses == {compared[u][n].status : u \in Transitions, n \in metrics}
           apart == {"unavailable_incomparable_context", "unavailable_incomparable_budget",
                     "unavailable_unrecorded_budget"}
           status == IF DOMAIN arms # ComparisonArm THEN "incomplete"
                     ELSE IF \E a \in ComparisonArm : Censored(arms[a]) THEN "censored"
                     ELSE IF statuses \cap apart # {} THEN "incomparable" ELSE "complete"
           c == compared[t][m]
<1>1. pair.status = status /\ pair.transitions = compared BY DEF PairDocument
<1>2. c = MetricComparison(arms, t, m, ev) /\ c.status \in statuses OBVIOUS
<1>3. c.status = "available" \/ c.status \in {"unavailable_value_state", ComparisonStatus(arms, t, ev)}
  BY <1>2, DeltaIs
<1> HIDE DEF compared, statuses, c
<1>4. /\ DOMAIN arms = ComparisonArm /\ \A a \in ComparisonArm : ~ Censored(arms[a])
      /\ statuses \cap apart = {} BY <1>1
<1>5. c.status \notin apart BY <1>2, <1>4
<1>6. t[1] \in ComparisonArm /\ t[2] \in ComparisonArm BY TransitionArms
<1>7. ComparisonStatus(arms, t, ev) \in apart \cup {"available"}
  <2>1. /\ ComparisonStatus(arms, t, ev) # "unavailable_missing_arm"
        /\ ComparisonStatus(arms, t, ev) # "unavailable_censored"
    BY <1>4, <1>6, ComparableArms
  <2> QED BY <2>1, ComparableArms
<1>8. c.status \in {"available", "unavailable_value_state"} BY <1>3, <1>5, <1>7
<1> QED BY <1>1, <1>8 DEF c

\* The deltas of a lineage add up along its arms.
CompleteIn(r) ==
  \A k \in DOMAIN r.pairs :
    LET pair == r.pairs[k] IN
    \A t \in Transitions : \A m \in DOMAIN pair.transitions[t] :
      /\ pair.status = "complete" =>
           pair.transitions[t][m].status \in {"available", "unavailable_value_state"}
      /\ LET delta(u) == pair.transitions[u][m].absolute
             all == {delta(u).state : u \in Transitions} IN
         all = {"value"} =>
           delta(<<"baseline", "recovery">>).raw[2]
             = delta(<<"baseline", "interrupted">>).raw[2]
               + delta(<<"interrupted", "recovery">>).raw[2]

LEMMA CompleteForm == CompletePairs <=> (report.error = "none" => CompleteIn(report))
BY Zenon DEF CompletePairs, CompleteIn

LEMMA CompleteStep ==
  ASSUME NEW r, NEW obs, NEW metrics, NEW method, NEW ev, BuiltOf(r, obs, metrics, method, ev)
  PROVE  CompleteIn(r)
<1> DEFINE delta(p, u, n) == p.transitions[u][n].absolute
           all(p, n) == {delta(p, u, n).state : u \in Transitions}
           added(p, n) == delta(p, <<"baseline", "recovery">>, n).raw[2]
                            = delta(p, <<"baseline", "interrupted">>, n).raw[2]
                              + delta(p, <<"interrupted", "recovery">>, n).raw[2]
<1> SUFFICES ASSUME NEW k \in DOMAIN r.pairs, NEW t \in Transitions,
                    NEW m \in DOMAIN r.pairs[k].transitions[t]
             PROVE  /\ r.pairs[k].status = "complete" =>
                         r.pairs[k].transitions[t][m].status
                           \in {"available", "unavailable_value_state"}
                    /\ all(r.pairs[k], m) = {"value"} => added(r.pairs[k], m)
  BY Zenon DEF CompleteIn
<1> DEFINE pair == r.pairs[k]
           arms == ArmsOf(obs, k)
<1>1. pair = PairDocument(arms, metrics, ev) BY PairDomain DEF BuiltOf, PairsOf
<1>2. m \in metrics BY <1>1 DEF PairDocument
<1>3. pair.status = "complete" =>
        pair.transitions[t][m].status \in {"available", "unavailable_value_state"}
  <2> HIDE DEF arms
  <2> QED BY <1>1, <1>2, CompleteIs
<1>4. ASSUME NEW u \in Transitions PROVE DeltaShown(pair.transitions[u][m], u, m, arms, obs, k)
  BY <1>2, AvailableShown
<1>5. ASSUME all(pair, m) = {"value"} PROVE added(pair, m)
  <2> DEFINE at(a) == ValueFor(arms[a], m).raw[2]
             change(u) == delta(pair, u, m).raw[2]
  <2>1. ASSUME NEW u \in Transitions
        PROVE  /\ at(u[1]) \in Int /\ at(u[2]) \in Int
               /\ change(u) = at(u[2]) - at(u[1])
    <3>1. DeltaShown(pair.transitions[u][m], u, m, arms, obs, k) BY <1>4
    <3>2. pair.transitions[u][m].absolute.state = "value"
      <4>1. delta(pair, u, m).state \in all(pair, m) OBVIOUS
      <4> QED BY <1>5, <4>1
    <3> HIDE DEF arms
    <3> QED BY <3>1, <3>2 DEF DeltaShown
  <2>2. /\ <<"baseline", "recovery">> \in Transitions
        /\ <<"baseline", "interrupted">> \in Transitions
        /\ <<"interrupted", "recovery">> \in Transitions BY DEF Transitions
  <2> HIDE DEF at, change
  <2>3. /\ at("baseline") \in Int /\ at("interrupted") \in Int /\ at("recovery") \in Int
        /\ change(<<"baseline", "recovery">>) = at("recovery") - at("baseline")
        /\ change(<<"baseline", "interrupted">>) = at("interrupted") - at("baseline")
        /\ change(<<"interrupted", "recovery">>) = at("recovery") - at("interrupted")
    BY <2>1, <2>2
  <2>4. change(<<"baseline", "recovery">>)
          = change(<<"baseline", "interrupted">>) + change(<<"interrupted", "recovery">>)
    BY <2>3
  <2> QED BY <2>4 DEF change
<1> QED BY <1>3, <1>5

\* The values of an arm are summed over its lineages as over its observations.
Lineages(obs, a, m) == {o.key : o \in ShownBy(obs, a, m)}
ValuesOf(obs, a, m, lineages) == [k \in lineages |-> ValueFor(ArmsOf(obs, k)[a], m).raw[2]]
TotalOf(obs, a, m) == SumFunction([o \in ShownBy(obs, a, m) |-> ValueFor(o, m).raw[2]])

LEMMA ArmSum ==
  ASSUME NEW obs \in Seq(Observations), OncePerArm(obs), NEW a, NEW m,
         NEW lineages, lineages = Lineages(obs, a, m)
  PROVE  /\ ValuesOf(obs, a, m, lineages) \in [lineages -> Int]
         /\ SumFunction(ValuesOf(obs, a, m, lineages)) = TotalOf(obs, a, m)
<1> USE DEF Lineages
<1> DEFINE f == ValuesOf(obs, a, m, lineages)
           shown == ShownBy(obs, a, m)
           g == [o \in shown |-> ValueFor(o, m).raw[2]]
           b == [k \in lineages |-> ArmsOf(obs, k)[a]]
<1>1. ASSUME NEW o \in shown
      PROVE  o \in AllOf(obs) /\ o.arm = a /\ o \in Observations /\ ValueFor(o, m).raw[2] \in Int
  <2>1. o \in AllOf(obs) /\ o.arm = a /\ ValueFor(o, m).state = "value" BY DEF ShownBy
  <2>2. o \in Observations BY <2>1, ObservedFinite
  <2> QED BY <2>1, <2>2, ObservedNumber
<1>2. ASSUME NEW o \in shown PROVE o.key \in lineages /\ b[o.key] = o
  <2>1. o.arm \in DOMAIN ArmsOf(obs, o.key) BY <1>1, ArmsAre
  <2>2. /\ ArmsOf(obs, o.key)[a] \in AllOf(obs)
        /\ ArmsOf(obs, o.key)[a].key = o.key /\ ArmsOf(obs, o.key)[a].arm = a
    BY <1>1, <2>1, ArmsAre
  <2>3. ArmsOf(obs, o.key)[a] = o BY <1>1, <2>2 DEF OncePerArm
  <2> QED BY <2>3
<1>3. ASSUME NEW k \in lineages PROVE b[k] \in shown /\ b[k].key = k /\ f[k] = g[b[k]]
  <2>1. PICK o \in shown : o.key = k OBVIOUS
  <2>2. b[k] = o BY <1>2, <2>1
  <2> QED BY <2>1, <2>2 DEF ValuesOf
<1>4. IsFiniteSet(shown) /\ IsFiniteSet(lineages)
  <2>1. shown \in SUBSET AllOf(obs) BY DEF ShownBy
  <2>2. IsFiniteSet(shown) BY <2>1, ObservedFinite, FS_Subset
  <2> DEFINE keys == [o \in shown |-> o.key]
  <2>3. keys \in Surjection(shown, lineages) BY DEF Surjection
  <2> QED BY <2>2, <2>3, FS_Surjection
<1>5. g \in [shown -> Int] BY <1>1
<1>6. f \in [lineages -> Int] /\ b \in [lineages -> shown] BY <1>1, <1>3 DEF ValuesOf
<1>7. \A k, l \in lineages : b[k] = b[l] => k = l BY <1>3
<1>8. \A o \in shown : \E k \in lineages : b[k] = o BY <1>2
<1>9. \A k \in lineages : f[k] = g[b[k]] BY <1>3
<1> HIDE DEF f, shown, g, b
<1>10. SumFunction(f) = SumFunction(g)
  BY ONLY SMTT(30), <1>4, <1>5, <1>6, <1>7, <1>8, <1>9, SumMoved
<1> QED BY <1>6, <1>10 DEF f, g, shown, TotalOf

LEMMA SummariesStep ==
  ASSUME NEW r, NEW obs, NEW metrics, NEW method, NEW ev, BuiltOf(r, obs, metrics, method, ev)
  PROVE  \A t \in Transitions : \A m \in DOMAIN r.metric_summaries[t] :
           LET summary == r.metric_summaries[t][m]
               before == r.arm_statistics[t[1]][m]
               after == r.arm_statistics[t[2]][m]
           IN before.keys = summary.available /\ after.keys = summary.available
                => summary.absolute[1] = after.mean[1] - before.mean[1]
<1> SUFFICES ASSUME NEW t \in Transitions, NEW m \in DOMAIN r.metric_summaries[t],
                    NEW summary, summary = r.metric_summaries[t][m],
                    NEW before, before = r.arm_statistics[t[1]][m],
                    NEW after, after = r.arm_statistics[t[2]][m],
                    before.keys = summary.available, after.keys = summary.available
             PROVE  summary.absolute[1] = after.mean[1] - before.mean[1] OBVIOUS
<1> DEFINE lineages == summary.available
           at(a) == ValuesOf(obs, a, m, lineages)
           delta == [k \in lineages |-> r.pairs[k].transitions[t][m].absolute.raw[2]]
<1>1. m \in metrics /\ obs \in Seq(Observations) /\ OncePerArm(obs) BY DEF BuiltOf
<1>2. t[1] \in ComparisonArm /\ t[2] \in ComparisonArm BY TransitionArms
<1>3. SummaryOf(summary, r.pairs, t, m) BY <1>1, SummaryIs
<1>4. /\ lineages = {k \in DOMAIN r.pairs : r.pairs[k].transitions[t][m].absolute.state = "value"}
      /\ summary.absolute[1] = SumFunction(delta)
  <2> DEFINE n == Cardinality(summary.available)
  <2>1. summary.absolute = <<SumFunction(delta), n>> BY <1>3 DEF SummaryOf
  <2> HIDE DEF n, delta
  <2>2. summary.absolute[1] = SumFunction(delta) BY <2>1
  <2> QED BY <1>3, <2>2 DEF SummaryOf
<1>5. IsFiniteSet(lineages)
  <2>1. IsFiniteSet(DOMAIN r.pairs) /\ lineages \in SUBSET (DOMAIN r.pairs)
    BY <1>4, PairDomain
  <2> QED BY <2>1, FS_Subset
<1>6. /\ StatisticsOf(before, ShownBy(obs, t[1], m), m)
      /\ StatisticsOf(after, ShownBy(obs, t[2], m), m) BY <1>1, <1>2, StatisticsAre
<1>7. /\ before.mean[1] = TotalOf(obs, t[1], m) /\ lineages = Lineages(obs, t[1], m)
      /\ after.mean[1] = TotalOf(obs, t[2], m) /\ lineages = Lineages(obs, t[2], m)
  BY <1>6 DEF StatisticsOf, Lineages, TotalOf
<1>8. at(t[1]) \in [lineages -> Int] /\ SumFunction(at(t[1])) = TotalOf(obs, t[1], m)
  BY <1>1, <1>7, ArmSum
<1>9. at(t[2]) \in [lineages -> Int] /\ SumFunction(at(t[2])) = TotalOf(obs, t[2], m)
  BY <1>1, <1>7, ArmSum
<1>10. ASSUME NEW k \in lineages
       PROVE  delta[k] = at(t[2])[k] - at(t[1])[k]
  <2> DEFINE arms == ArmsOf(obs, k)
             c == r.pairs[k].transitions[t][m]
  <2>1. k \in DOMAIN r.pairs /\ c.absolute.state = "value" BY <1>4
  <2>2. DeltaShown(c, t, m, arms, obs, k) BY <1>1, <2>1, AvailableShown
  <2>3. c.absolute.raw[2] = ValueFor(arms[t[2]], m).raw[2] - ValueFor(arms[t[1]], m).raw[2]
    <3> HIDE DEF arms, c
    <3> QED BY <2>1, <2>2 DEF DeltaShown
  <2> QED BY <2>3 DEF ValuesOf
<1>11. delta \in [lineages -> Int]
  <2>1. ASSUME NEW k \in lineages PROVE delta[k] \in Int
    <3>1. at(t[2])[k] \in Int /\ at(t[1])[k] \in Int BY <1>8, <1>9
    <3> HIDE DEF delta, at
    <3> QED BY <1>10, <3>1
  <2> QED BY <2>1
<1> HIDE DEF lineages, at, delta
<1>12. SumFunction(delta) = SumFunction(at(t[2])) - SumFunction(at(t[1]))
  BY <1>5, <1>8, <1>9, <1>10, <1>11, SumDifference
<1> QED BY <1>4, <1>7, <1>8, <1>9, <1>12

\* The observations are those that were offered, and the last report is sound.
CmpInv ==
  /\ observed \in Seq(Observations)
  /\ SummariesAgree /\ DeltasObserved /\ CompletePairs

LEMMA CmpInductive == CmpSpec => []CmpInv
<1> USE DEF CmpInv
<1>1. CmpInit => CmpInv
  <2> SUFFICES ASSUME CmpInit PROVE CmpInv OBVIOUS
  <2>1. report.error # "none" BY DEF CmpInit, NoReport
  <2>2. observed \in Seq(Observations) BY DEF CmpInit
  <2> QED BY <2>1, <2>2, CompleteForm DEF SummariesAgree, DeltasObserved
<1>2. CmpInv /\ [CmpNext]_cmpVars => CmpInv'
  <2> SUFFICES ASSUME CmpInv, [CmpNext]_cmpVars PROVE CmpInv' OBVIOUS
  <2>0. CompletePairs' <=> (report'.error = "none" => CompleteIn(report'))
    <3>1. CompletePairs' <=> (report.error = "none" => CompleteIn(report))'
      BY CompleteForm, PTL
    <3> QED BY <3>1
  <2>1. ASSUME UNCHANGED report
        PROVE  SummariesAgree' /\ DeltasObserved' /\ CompletePairs'
    <3>1. SummariesAgree' BY <2>1 DEF SummariesAgree
    <3>2. DeltasObserved' BY <2>1 DEF DeltasObserved
    <3>3. CompletePairs' BY <2>0, <2>1, CompleteForm
    <3> QED BY <3>1, <3>2, <3>3
  <2>2. CASE UNCHANGED cmpVars BY <2>1, <2>2 DEF cmpVars
  <2>3. ASSUME NEW o \in CmpOffers, Observe(o) PROVE CmpInv'
    <3>1. FromQueryRow(o) \in Observations BY <2>3 DEF Observe, Observations
    <3>2. observed' \in Seq(Observations) BY <2>3, <3>1 DEF Observe
    <3> QED BY <2>1, <2>3, <3>2 DEF Observe
  <2>4. ASSUME NEW request \in CmpRequests, NEW evidence \in CmpEvidence,
               Build(request, evidence)
        PROVE  CmpInv'
    <3>1. report' = BuildReport(request, evidence) /\ observed' = observed
      BY <2>4 DEF Build
    <3>2. CASE report'.error # "none"
      BY <2>0, <3>1, <3>2 DEF SummariesAgree, DeltasObserved
    <3>3. CASE report'.error = "none"
      <4>1. observed \in Seq(Observations) OBVIOUS
      <4>2. PICK ev : BuiltOf(report', observed, request.metrics, request.confidence, ev)
        BY <3>1, <3>3, <4>1, ReportIs
      <4>3. SummariesAgree' BY <4>2, SummariesStep DEF SummariesAgree
      <4>4. DeltasObserved' BY <4>2, DeltasStep DEF DeltasObserved
      <4>5. CompletePairs' BY <2>0, <4>2, CompleteStep
      <4> QED BY <3>1, <4>3, <4>4, <4>5
    <3> QED BY <3>2, <3>3
  <2> QED BY <2>2, <2>3, <2>4 DEF CmpNext
<1> QED BY <1>1, <1>2, PTL DEF CmpSpec

\* What a reader is told of the data agrees with the data: pages and exports
\* are those of one pinned selection (storage/query.py, exports.py), and no
\* delta or mean of a comparison rests on a value that was not observed
\* (storage/comparison.py).
THEOREM AnalyticsSafety == QSpec /\ CmpSpec => []AnalyticsAgree
<1>1. CmpInv => SummariesAgree /\ DeltasObserved /\ CompletePairs BY DEF CmpInv
<1>2. (PagesAreExport /\ SelectionOrdered /\ CursorStaysUsable) /\ CmpInv => AnalyticsAgree
  BY <1>1 DEF AnalyticsAgree
<1> QED BY <1>2, CmpInductive, PagesSafety, PTL

===============================================================================
