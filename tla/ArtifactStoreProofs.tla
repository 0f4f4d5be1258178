------------------------- MODULE ArtifactStoreProofs -------------------------
(***************************************************************************)
(* Proofs about ArtifactStore for every set of jobs, workers and operators,*)
(* any artifact sets and any number of crashes, when every worker thread   *)
(* has a store of its own (desktop/lifecycle.py and storage/export.py give *)
(* their publishers different roots).                                      *)
(***************************************************************************)
EXTENDS ArtifactStore, JobCatalogProofs

SeparateStores ==
  /\ Stores # {}
  /\ \A v, w \in Workers : StoreOf[v] = StoreOf[w] => v = w

\* The staged files of a set for what a worker holds.
StagedBy(h, set) ==
  {[area |-> "staging", job |-> h.job, attempt |-> h.attempt, item |-> i] :
     i \in Contents[set]}

\* What the position of a thread says of its claim, its list and its files.
Placed(t, h, own) ==
  /\ t.pc \in {"read", "verify"} => t.current = {}
  /\ t.pc \in {"work", "stage", "publish", "done"} => h # Idle
  /\ t.pc \in {"stage", "publish"} =>
       /\ t.set \in ArtifactSets
       /\ t.todo \subseteq StagedBy(h, t.set)
  /\ t.pc = "stage" => t.current \subseteq StagedBy(h, t.set)
  /\ t.pc = "publish" => \A f \in StagedBy(h, t.set) \ t.todo : Final(f) \in own
  /\ t.pc = "staging" => \A f \in t.todo \cup t.current : f.area # "artifacts"

\* The store of a thread has the files, and the thread will not remove them:
\* they are among the references it read or not on the list it works off.
Guarded(t, own, final) ==
  /\ final \subseteq own
  /\ t.pc = "verify" => final \subseteq t.refs
  /\ t.pc = "artifacts" => final \cap (t.todo \cup t.current) = {}

Secured(w, j) == Guarded(task[w], Store(w), FinalFiles(j))

StoreInv ==
  /\ CatalogInv /\ StoreTypeOK
  /\ \A w \in Workers : Placed(task[w], held[w], Store(w))
  /\ \A j \in Jobs : jobs[j].artifact_set_id # NULL =>
       \E w \in Workers : Secured(w, j)

-----------------------------------------------------------------------------
(* What the calls of the catalog leave alone. *)

ArtifactsKept ==
  \A j \in Jobs : jobs'[j].artifact_set_id = jobs[j].artifact_set_id

LEMMA ArtifactReleased ==
  ASSUME NEW row \in Row, NEW target, NEW until
  PROVE  Released(row, target, until).artifact_set_id = row.artifact_set_id
BY DEF Released, Row

LEMMA ArtifactRecovered ==
  ASSUME TypeOK, NEW j \in Jobs, NEW at, NEW code
  PROVE  Recovered(j, at, code).artifact_set_id = jobs[j].artifact_set_id
<1>1. jobs[j] \in Row BY DEF TypeOK
<1> QED BY <1>1, ArtifactReleased DEF Recovered

\* A call that replaces one row by one with the same artifact set.
LEMMA OneRowKept ==
  ASSUME TypeOK, NEW k \in Jobs, NEW row,
         row.artifact_set_id = jobs[k].artifact_set_id,
         jobs' = [jobs EXCEPT ![k] = row]
  PROVE  ArtifactsKept
BY DEF TypeOK, ArtifactsKept

LEMMA ClaimKeeps ==
  ASSUME CatalogInv, NEW w \in Workers, NEW k \in Jobs, NEW at \in Stamps,
         ClaimNext(w, k, at)
  PROVE  /\ ArtifactsKept
         /\ held' = [held EXCEPT ![w] = [job |-> k, attempt |-> NextAttempt(k)]]
         /\ held'[w] # Idle
<1>1. ArtifactsKept
  <2>1. jobs'[k].artifact_set_id = jobs[k].artifact_set_id BY ClaimColumns
  <2>2. \A j \in Jobs : j # k => jobs'[j] = jobs[j] BY ClaimOthers
  <2> QED BY <2>1, <2>2 DEF ArtifactsKept
<1>2. k # 0 /\ held \in [Workers -> Holding] BY JobsAssumption DEF CatalogInv, TypeOK
<1>3. held' = [held EXCEPT ![w] = [job |-> k, attempt |-> NextAttempt(k)]]
  BY DEF ClaimNext
<1>4. held'[w].job # Idle.job BY <1>2, <1>3 DEF Idle
<1> QED BY <1>1, <1>3, <1>4

LEMMA AttemptKeeps ==
  ASSUME CatalogInv, NEW w \in Workers, AttemptStep(w)
  PROVE  ArtifactsKept /\ held' = held
<1>t. jobs \in [Jobs -> Row] /\ TypeOK BY DEF CatalogInv, TypeOK
<1>1. CASE HeartbeatWrite(w)
  <2>1. pending[w].job \in Jobs
    BY <1>1, <1>t DEF HeartbeatWrite, NoCall, Callers, TypeOK, Call
  <2> QED BY <1>1, <1>t, <2>1 DEF HeartbeatWrite, Row, ArtifactsKept
<1>2. CASE \E at \in Stamps : HeartbeatRead(w, at)
  BY <1>2 DEF HeartbeatRead, ArtifactsKept
<1>3. ASSUME NEW at \in Stamps, NEW p \in Positions, NEW n \in Units,
             NEW t \in Totals, SaveCheckpoint(w, p, n, t, at)
      PROVE  ArtifactsKept /\ held' = held
  BY <1>3, <1>t DEF SaveCheckpoint, Row, ArtifactsKept
<1> QED BY <1>1, <1>2, <1>3 DEF AttemptStep

LEMMA CallerKeeps ==
  ASSUME CatalogInv, NEW c \in Callers, CallerStep(c)
  PROVE  ArtifactsKept /\ held' = held
<1>t. jobs \in [Jobs -> Row] /\ TypeOK BY DEF CatalogInv, TypeOK
<1>1. CASE ScheduleRetryWrite(c)
  <2> DEFINE k == pending[c].job
             row == Released(jobs[k], "retrying", pending[c].until)
  <2>1. k \in Jobs BY <1>1, <1>t DEF ScheduleRetryWrite, NoCall, TypeOK, Call
  <2>2. row.artifact_set_id = jobs[k].artifact_set_id BY <1>t, <2>1, ArtifactReleased
  <2>3. held' = held /\ (jobs' = jobs \/ jobs' = [jobs EXCEPT ![k] = row])
    BY <1>1 DEF ScheduleRetryWrite
  <2> HIDE DEF row, k
  <2> QED BY <1>t, <2>1, <2>2, <2>3, OneRowKept DEF ArtifactsKept
<1>2. ASSUME NEW k \in Jobs, RequestCancel(c, k)
      PROVE  ArtifactsKept /\ held' = held
  BY <1>2, <1>t DEF RequestCancel, Row, ArtifactsKept
<1>3. ASSUME NEW k \in Jobs, NEW at \in Stamps, NEW code,
             ScheduleRetryRead(c, k, at, code)
      PROVE  ArtifactsKept /\ held' = held BY <1>3 DEF ScheduleRetryRead, ArtifactsKept
<1>4. ASSUME NEW k \in Jobs, NEW at \in Stamps, NEW target, Settle(c, k, target, at)
      PROVE  ArtifactsKept /\ held' = held
  <2>1. Released(jobs[k], target, NULL).artifact_set_id = jobs[k].artifact_set_id
    BY <1>t, ArtifactReleased
  <2> QED BY <1>4, <1>t, <2>1, OneRowKept DEF Settle
<1>5. ASSUME NEW k \in Jobs, NEW at \in Stamps, RecoverTimedOutAttempt(c, k, at)
      PROVE  ArtifactsKept /\ held' = held
  <2>1. Recovered(k, at, "hard_timeout").artifact_set_id = jobs[k].artifact_set_id
    BY <1>t, ArtifactRecovered
  <2> QED BY <1>5, <1>t, <2>1, OneRowKept DEF RecoverTimedOutAttempt
<1> QED BY <1>1, <1>2, <1>3, <1>4, <1>5
  DEF CallerStep, FailJob, QuarantineJob, FinishCancelled

LEMMA ReclaimKeeps ==
  ASSUME CatalogInv, NEW at \in Stamps, ReclaimOrphans(at)
  PROVE  ArtifactsKept /\ held' = held
BY ArtifactRecovered DEF ReclaimOrphans, CatalogInv, TypeOK, ArtifactsKept

LEMMA ElsewhereKeeps ==
  ASSUME CatalogInv, Elsewhere
  PROVE  ArtifactsKept /\ held' = held
<1>t. jobs \in [Jobs -> Row] BY DEF CatalogInv, TypeOK
<1>1. ASSUME NEW at \in Stamps, ExpirePendingDeadlines(at)
      PROVE  ArtifactsKept /\ held' = held
  BY <1>1, <1>t DEF ExpirePendingDeadlines, Row, ArtifactsKept
<1>2. ASSUME NEW at \in Stamps, NEW k \in Jobs, CreateJob(k, at)
      PROVE  ArtifactsKept /\ held' = held
  BY <1>2, <1>t DEF CreateJob, Row, ArtifactsKept
<1>3. Tick => ArtifactsKept /\ held' = held BY DEF Tick, ArtifactsKept
<1> QED
  BY <1>1, <1>2, <1>3, ReclaimKeeps, CallerKeeps DEF Elsewhere, SystemStep, Callers

-----------------------------------------------------------------------------
(* Steps of one thread. *)

\* Where the rename of publish puts a staged file.
LEMMA FinalName ==
  ASSUME NEW j, NEW a, NEW i
  PROVE  Final([area |-> "staging", job |-> j, attempt |-> a, item |-> i])
           = [area |-> "artifacts", job |-> j, attempt |-> 0, item |-> i]
<1> DEFINE f == [area |-> "staging", job |-> j, attempt |-> a, item |-> i]
           g == [area |-> "artifacts", job |-> j, attempt |-> 0, item |-> i]
           e == [f EXCEPT !.area = "artifacts"]
<1>1. Final(f) = [e EXCEPT !.attempt = 0] BY DEF Final
<1>2. e = [area |-> "artifacts", job |-> j, attempt |-> a, item |-> i] OBVIOUS
<1>3. [[area |-> "artifacts", job |-> j, attempt |-> a, item |-> i]
         EXCEPT !.attempt = 0] = g OBVIOUS
<1> QED BY <1>1, <1>2, <1>3

\* A step of thread w that commits nothing keeps the invariant when the
\* thread stays in place and goes on guarding what it guarded.
LEMMA OwnStep ==
  ASSUME SeparateStores, StoreInv, CatalogInv', ArtifactsKept, crashes' \in Nat,
         NEW w \in Workers, NEW t \in Task, NEW own \in SUBSET File,
         \A v \in Workers \ {w} : held'[v] = held[v],
         task' = [task EXCEPT ![w] = t],
         files' = [files EXCEPT ![StoreOf[w]] = own],
         Placed(t, held'[w], own),
         \A j \in Jobs : Secured(w, j) => Guarded(t, own, FinalFiles(j))
  PROVE  StoreInv'
<1>1. /\ task \in [Workers -> Task] /\ files \in [Stores -> SUBSET File]
      /\ StoreOf \in [Workers -> Stores] BY StoreAssumption DEF StoreInv, StoreTypeOK
<1>2. /\ task'[w] = t /\ files'[StoreOf[w]] = own
      /\ \A v \in Workers \ {w} : /\ task'[v] = task[v]
                                  /\ files'[StoreOf[v]] = files[StoreOf[v]]
  BY <1>1 DEF SeparateStores
<1>3. StoreTypeOK' BY <1>1 DEF StoreTypeOK, CatalogInv
<1>4. \A v \in Workers : Placed(task'[v], held'[v], files'[StoreOf[v]])
  BY <1>2 DEF StoreInv, Store
<1>5. \A j \in Jobs : FinalFiles(j)' = FinalFiles(j) BY DEF FinalFiles, ArtifactsKept
<1>6. \A j \in Jobs, v \in Workers : Secured(v, j) =>
        Guarded(task'[v], files'[StoreOf[v]], FinalFiles(j)) BY <1>2 DEF Secured, Store
<1>7. \A j \in Jobs, v \in Workers : Secured(v, j) => Secured(v, j)'
  BY <1>5, <1>6 DEF Secured, Store
<1>8. \A j \in Jobs : jobs'[j].artifact_set_id # NULL =>
        \E v \in Workers : Secured(v, j)' BY <1>7 DEF StoreInv, ArtifactsKept
<1> QED BY <1>3, <1>4, <1>8 DEF StoreInv, Store

\* A step that changes no file names the store's files.
LEMMA SameFiles ==
  ASSUME StoreInv, NEW w \in Workers
  PROVE  /\ Store(w) \in SUBSET File
         /\ files = [files EXCEPT ![StoreOf[w]] = Store(w)]
         /\ task[w] \in Task
         /\ task = [task EXCEPT ![w] = task[w]]
BY StoreAssumption DEF StoreInv, StoreTypeOK, Store

\* Places where a thread keeps no lists.
Bare == {"recover", "read", "claim", "work", "done", "raised", "corrupt"}

\* The thread moves on and forgets its lists.
LEMMA MovedStep ==
  ASSUME SeparateStores, StoreInv, CatalogInv', ArtifactsKept, crashes' \in Nat,
         NEW w \in Workers, NEW pc \in Bare, NEW own \in SUBSET File,
         \A v \in Workers \ {w} : held'[v] = held[v],
         task' = Moved(w, pc),
         files' = [files EXCEPT ![StoreOf[w]] = own],
         pc \in {"work", "done"} => held'[w] # Idle,
         \A j \in Jobs : Secured(w, j) => FinalFiles(j) \subseteq own
  PROVE  StoreInv'
<1> DEFINE t == [Start EXCEPT !.pc = pc]
<1>1. /\ t \in Task /\ t.pc = pc /\ t.current = {}
      /\ pc \notin {"verify", "artifacts", "staging", "stage", "publish"}
  BY DEF Task, Start, Places, Bare
<1>2. task' = [task EXCEPT ![w] = t] BY DEF Moved
<1> HIDE DEF t
<1>3. Placed(t, held'[w], own) BY <1>1 DEF Placed
<1>4. \A j \in Jobs : Secured(w, j) => Guarded(t, own, FinalFiles(j))
  BY <1>1 DEF Guarded
<1> QED BY <1>1, <1>2, <1>3, <1>4, OwnStep

\* The same when no file changes.
LEMMA MovedOnly ==
  ASSUME SeparateStores, StoreInv, CatalogInv', ArtifactsKept, crashes' \in Nat,
         NEW w \in Workers, NEW pc \in Bare,
         \A v \in Workers \ {w} : held'[v] = held[v],
         task' = Moved(w, pc), files' = files,
         pc \in {"work", "done"} => held'[w] # Idle
  PROVE  StoreInv'
<1>1. \A j \in Jobs : Secured(w, j) => FinalFiles(j) \subseteq Store(w)
  BY DEF Secured, Guarded
<1> QED BY <1>1, SameFiles, MovedStep

\* Only the commit records an artifact set; every other step is a call that
\* keeps them all.  The files of the set are in the store of its worker.
LEMMA CommitStep ==
  ASSUME SeparateStores, StoreInv, CatalogInv', NEW w \in Workers,
         At(w, "publish"), AllPublished(w),
         SucceedJob(w, task[w].set, task[w].at), task' = Moved(w, "done"),
         files' = files, crashes' = crashes
  PROVE  StoreInv'
<1>h. held[w] # Idle /\ held[w].job \in Jobs
  BY DEF SucceedJob, MaySucceed, StoreInv, StoreTypeOK, TypeOK, Holding
<1> SUFFICES ASSUME NEW k \in Jobs, k = held[w].job PROVE StoreInv' BY <1>h
<1> DEFINE set == task[w].set
           t == [Start EXCEPT !.pc = "done"]
           row == [Released(jobs[k], "succeeded", NULL) EXCEPT !.artifact_set_id = set]
<1>1. /\ task \in [Workers -> Task] /\ files \in [Stores -> SUBSET File]
      /\ jobs \in [Jobs -> Row] /\ held \in [Workers -> Holding] /\ crashes \in Nat
  BY DEF StoreInv, StoreTypeOK, TypeOK
<1>2. /\ held[w] # Idle /\ jobs' = [jobs EXCEPT ![k] = row] /\ held' = held
  BY DEF SucceedJob, MaySucceed
<1>4. Placed(task[w], held[w], Store(w)) BY DEF StoreInv
<1>5. /\ set \in ArtifactSets
      /\ \A f \in StagedBy(held[w], set) : Final(f) \in Store(w)
  BY <1>4 DEF Placed, At, AllPublished
<1>6. jobs'[k].artifact_set_id = set
  <2>1. Released(jobs[k], "succeeded", NULL) \in Row
    BY <1>1, ReleasedType DEF RowState, JobState, TimeOrNull
  <2> QED BY <1>1, <1>2, <2>1 DEF Row
<1>7. FinalFiles(k)' \subseteq Store(w)
  <2>1. \A i \in Contents[set] :
          [area |-> "artifacts", job |-> k, attempt |-> 0, item |-> i] \in Store(w)
    <3> TAKE i \in Contents[set]
    <3> DEFINE f == [area |-> "staging", job |-> held[w].job,
                     attempt |-> held[w].attempt, item |-> i]
    <3>1. f \in StagedBy(held[w], set) BY DEF StagedBy
    <3>2. Final(f) = [area |-> "artifacts", job |-> k, attempt |-> 0, item |-> i]
      BY FinalName
    <3> QED BY <1>5, <3>1, <3>2
  <2> QED BY <1>6, <2>1 DEF FinalFiles
<1>8. t \in Task /\ t.pc = "done" /\ task' = [task EXCEPT ![w] = t]
  BY DEF Task, Start, Places, Moved
<1> HIDE DEF t, row, set
<1>9. Store(w)' = Store(w) /\ task'[w] = t BY <1>1, <1>8 DEF Store
<1>10. Secured(w, k)' BY <1>7, <1>8, <1>9 DEF Secured, Guarded
<1>11. \A j \in Jobs, v \in Workers : j # k /\ Secured(v, j) => Secured(v, j)'
  <2> TAKE j \in Jobs, v \in Workers
  <2> SUFFICES ASSUME j # k, Secured(v, j) PROVE Secured(v, j)' OBVIOUS
  <2>1. jobs'[j] = jobs[j] BY <1>1, <1>2
  <2>2. FinalFiles(j)' = FinalFiles(j) /\ Store(v)' = Store(v)
    BY <2>1 DEF FinalFiles, Store
  <2>3. CASE v = w BY <1>8, <1>9, <2>2, <2>3 DEF Secured, Guarded
  <2>4. CASE v # w
    <3>1. task'[v] = task[v] BY <1>1, <1>8, <2>4
    <3> QED BY <2>2, <3>1 DEF Secured
  <2> QED BY <2>3, <2>4
<1>12. \A j \in Jobs : jobs'[j].artifact_set_id # NULL =>
         \E v \in Workers : Secured(v, j)'
  <2> SUFFICES ASSUME NEW j \in Jobs, jobs'[j].artifact_set_id # NULL
               PROVE  \E v \in Workers : Secured(v, j)' OBVIOUS
  <2>1. CASE j = k BY <1>10, <2>1
  <2>2. CASE j # k
    <3>1. jobs'[j] = jobs[j] BY <1>1, <1>2, <2>2
    <3>2. PICK v \in Workers : Secured(v, j) BY <3>1 DEF StoreInv
    <3> QED BY <1>11, <2>2, <3>2
  <2> QED BY <2>1, <2>2
<1>13. \A v \in Workers : Placed(task[v], held[v], Store(v))'
  <2> SUFFICES ASSUME NEW v \in Workers PROVE Placed(task'[v], held'[v], Store(v)')
    OBVIOUS
  <2>1. CASE v = w BY <1>2, <1>8, <1>9, <2>1 DEF Placed
  <2>2. CASE v # w
    <3>1. task'[v] = task[v] /\ Store(v)' = Store(v) BY <1>1, <1>8, <2>2 DEF Store
    <3> QED BY <1>2, <3>1 DEF StoreInv
  <2> QED BY <2>1, <2>2
<1>14. StoreTypeOK' BY <1>1, <1>8 DEF StoreTypeOK, CatalogInv
<1> QED BY <1>12, <1>13, <1>14 DEF StoreInv

\* A call of the catalog that moves no thread.
LEMMA StillStep ==
  ASSUME StoreInv, CatalogInv', ArtifactsKept, held' = held, UNCHANGED storeVars
  PROVE  StoreInv'
<1>1. task' = task /\ files' = files /\ crashes' = crashes BY DEF storeVars
<1>2. \A j \in Jobs : FinalFiles(j)' = FinalFiles(j) BY DEF FinalFiles, ArtifactsKept
<1>3. \A j \in Jobs, w \in Workers : Secured(w, j) => Secured(w, j)'
  BY <1>1, <1>2 DEF Secured, Store
<1>4. StoreTypeOK' BY <1>1 DEF StoreInv, StoreTypeOK, CatalogInv
<1>5. \A w \in Workers : Placed(task[w], held[w], Store(w))'
  BY <1>1 DEF StoreInv, Store
<1>6. \A j \in Jobs : jobs'[j].artifact_set_id # NULL =>
        \E w \in Workers : Secured(w, j)' BY <1>3 DEF StoreInv, ArtifactsKept
<1> QED BY <1>4, <1>5, <1>6 DEF StoreInv

\* Committed files are files of an artifacts area.
LEMMA FinalType ==
  ASSUME StoreInv, NEW j \in Jobs
  PROVE  /\ FinalFiles(j) \subseteq File
         /\ \A f \in FinalFiles(j) : f.area = "artifacts"
<1>1. jobs[j].artifact_set_id \in ArtifactSets \cup {NULL}
  BY DEF StoreInv, StoreTypeOK, TypeOK, Row
<1> QED BY <1>1, StoreAssumption DEF FinalFiles, File

LEMMA StagedType ==
  ASSUME StoreInv, NEW w \in Workers, held[w] # Idle, NEW set \in ArtifactSets
  PROVE  /\ StagingFiles(w, set) = StagedBy(held[w], set)
         /\ StagedBy(held[w], set) \subseteq File
         /\ \A f \in StagedBy(held[w], set) : f.area = "staging"
<1>1. held[w].job \in Jobs /\ held[w].attempt \in Nat
  BY DEF StoreInv, StoreTypeOK, TypeOK, Holding
<1> QED BY <1>1, StoreAssumption DEF StagingFiles, StagedBy, File

LEMMA FileNames ==
  ASSUME NEW f \in File
  PROVE  /\ Final(f) \in File /\ Final(f).area = "artifacts"
         /\ Partial(f) \in File /\ Partial(f).area = "partial"
BY DEF Final, Partial, File

-----------------------------------------------------------------------------
(* recover and reconcile. *)

LEMMA RecoverSteps ==
  ASSUME SeparateStores, StoreInv, CatalogInv', NEW w \in Workers,
         \/ Recover(w) \/ Reconciled(w) \/ ClaimNothing(w) \/ LeaseLost(w)
         \/ Claim(w)
  PROVE  StoreInv'
<1> USE DEF vars
<1>c. crashes \in Nat /\ CatalogInv BY DEF StoreInv, StoreTypeOK
<1>u. UNCHANGED vars => ArtifactsKept /\ held' = held BY DEF ArtifactsKept
<1>1. CASE Recover(w)
  <2>1. ArtifactsKept /\ held' = held BY <1>1, <1>c, <1>u, ReclaimKeeps DEF Recover
  <2>2. task' = Moved(w, "read") /\ files' = files /\ crashes' = crashes
    BY <1>1 DEF Recover
  <2> QED BY <1>c, <2>1, <2>2, MovedOnly DEF Bare
<1>2. CASE Reconciled(w) BY <1>2, <1>c, <1>u, MovedOnly DEF Reconciled, Bare
<1>3. CASE ClaimNothing(w) BY <1>3, <1>c, <1>u, MovedOnly DEF ClaimNothing, Bare
<1>4. CASE LeaseLost(w) BY <1>4, <1>c, <1>u, MovedOnly DEF LeaseLost, Bare
<1>5. CASE Claim(w)
  <2>1. PICK at \in Stamps, j \in Jobs : ClaimNext(w, j, at) BY <1>5 DEF Claim
  <2>2. /\ ArtifactsKept /\ held'[w] # Idle
        /\ held' = [held EXCEPT ![w] = [job |-> j, attempt |-> NextAttempt(j)]]
    BY <1>c, <2>1, ClaimKeeps
  <2>3. held \in [Workers -> Holding] BY DEF StoreInv, StoreTypeOK, TypeOK
  <2>4. \A v \in Workers \ {w} : held'[v] = held[v] BY <2>2, <2>3
  <2>5. task' = Moved(w, "work") /\ files' = files /\ crashes' = crashes
    BY <1>5 DEF Claim
  <2> QED BY <1>c, <2>2, <2>4, <2>5, MovedOnly DEF Bare
<1> QED BY <1>1, <1>2, <1>3, <1>4, <1>5

LEMMA ReadStep ==
  ASSUME SeparateStores, StoreInv, CatalogInv', NEW w \in Workers, ReadReferences(w)
  PROVE  StoreInv'
<1> DEFINE t == [task[w] EXCEPT !.pc = "verify", !.refs = References]
<1>1. crashes' \in Nat /\ ArtifactsKept /\ held' = held /\ files' = files
  BY DEF ReadReferences, StoreInv, StoreTypeOK, ArtifactsKept, vars
<1>2. task[w] \in Task /\ task[w].pc = "read" /\ task[w].current = {}
  BY DEF StoreInv, StoreTypeOK, ReadReferences, At, Placed
<1>3. References \subseteq File /\ \A j \in Jobs : FinalFiles(j) \subseteq References
  BY FinalType DEF References
<1>4. /\ t \in Task /\ t.pc = "verify" /\ t.refs = References /\ t.current = {}
  BY <1>2, <1>3 DEF Task, Places
<1>5. task' = [task EXCEPT ![w] = t] BY DEF ReadReferences
<1> HIDE DEF t
<1>6. Placed(t, held'[w], Store(w)) BY <1>4 DEF Placed
<1>7. \A j \in Jobs : Secured(w, j) => Guarded(t, Store(w), FinalFiles(j))
  BY <1>3, <1>4 DEF Secured, Guarded
<1> QED BY <1>1, <1>4, <1>5, <1>6, <1>7, SameFiles, OwnStep

LEMMA VerifyStep ==
  ASSUME SeparateStores, StoreInv, CatalogInv', NEW w \in Workers, VerifyReferences(w)
  PROVE  StoreInv'
<1> DEFINE listed == {f \in Store(w) : f.area = "artifacts"} \ task[w].refs
           t == [task[w] EXCEPT !.pc = "artifacts", !.todo = listed]
<1>1. crashes' \in Nat /\ ArtifactsKept /\ held' = held /\ files' = files
  BY DEF VerifyReferences, StoreInv, StoreTypeOK, ArtifactsKept, vars
<1>2. task[w] \in Task /\ task[w].pc = "verify" /\ task[w].current = {}
  BY DEF StoreInv, StoreTypeOK, VerifyReferences, At, Placed
<1>3. CASE task' = Moved(w, "corrupt") BY <1>1, <1>3, MovedOnly DEF Bare
<1>4. CASE task' = [task EXCEPT ![w] = t]
  <2>1. listed \in SUBSET File /\ listed \cap task[w].refs = {} BY SameFiles
  <2>2. /\ t \in Task /\ t.pc = "artifacts" /\ t.refs = task[w].refs
        /\ t.todo = listed /\ t.current = {} BY <1>2, <2>1 DEF Task, Places
  <2> HIDE DEF t, listed
  <2>3. Placed(t, held'[w], Store(w)) BY <2>2 DEF Placed
  <2>4. \A j \in Jobs : Secured(w, j) => Guarded(t, Store(w), FinalFiles(j))
    BY <1>2, <2>1, <2>2 DEF Secured, Guarded
  <2> QED BY <1>1, <1>4, <2>2, <2>3, <2>4, SameFiles, OwnStep
<1> QED BY <1>3, <1>4 DEF VerifyReferences

LEMMA JudgeStep ==
  ASSUME SeparateStores, StoreInv, CatalogInv', NEW w \in Workers,
         NEW f \in task[w].todo, Judge(w, f)
  PROVE  StoreInv'
<1> DEFINE doomed == IF Preserved(f) THEN {} ELSE {f}
           t == [task[w] EXCEPT !.todo = @ \ {f}, !.current = doomed]
<1>1. crashes' \in Nat /\ ArtifactsKept /\ held' = held /\ files' = files
  BY DEF Judge, StoreInv, StoreTypeOK, ArtifactsKept, vars
<1>2. /\ task[w] \in Task /\ task[w].pc \in {"artifacts", "staging"}
      /\ Placed(task[w], held[w], Store(w)) /\ f \in File
  BY DEF StoreInv, StoreTypeOK, Judge, Task
<1>3. doomed \subseteq {f} OBVIOUS
<1>4. task' = [task EXCEPT ![w] = t] BY DEF Judge
<1> HIDE DEF doomed
<1>5. /\ t \in Task /\ t.pc = task[w].pc /\ t.refs = task[w].refs
      /\ t.todo = task[w].todo \ {f} /\ t.current = doomed BY <1>2, <1>3 DEF Task
<1> HIDE DEF t
<1>6. Placed(t, held'[w], Store(w)) BY <1>2, <1>3, <1>5 DEF Placed
<1>7. \A j \in Jobs : Secured(w, j) => Guarded(t, Store(w), FinalFiles(j))
  BY <1>2, <1>3, <1>5 DEF Secured, Guarded
<1> QED BY <1>1, <1>4, <1>5, <1>6, <1>7, SameFiles, OwnStep

\* What the thread unlinks is not among the files it guards.
LEMMA UnlinkStep ==
  ASSUME SeparateStores, StoreInv, CatalogInv', NEW w \in Workers, Unlink(w)
  PROVE  StoreInv'
<1> DEFINE t == [task[w] EXCEPT !.current = {}]
           own == Store(w) \ task[w].current
<1>1. crashes' \in Nat /\ ArtifactsKept /\ held' = held
  BY DEF Unlink, StoreInv, StoreTypeOK, ArtifactsKept, vars
<1>2. /\ task[w] \in Task /\ task[w].pc \in {"artifacts", "staging"}
      /\ Placed(task[w], held[w], Store(w)) BY DEF StoreInv, StoreTypeOK, Unlink
<1>3. \A j \in Jobs : Secured(w, j) => FinalFiles(j) \subseteq own
  <2> SUFFICES ASSUME NEW j \in Jobs, Secured(w, j) PROVE FinalFiles(j) \subseteq own
    OBVIOUS
  <2>1. CASE task[w].pc = "artifacts" BY <2>1 DEF Secured, Guarded
  <2>2. CASE task[w].pc = "staging"
    BY <1>2, <2>2, FinalType DEF Secured, Guarded, Placed
  <2> QED BY <1>2, <2>1, <2>2
<1>4. own \in SUBSET File /\ files' = [files EXCEPT ![StoreOf[w]] = own]
  BY SameFiles DEF Unlink, Store
<1>5. CASE task' = Moved(w, "raised") BY <1>1, <1>3, <1>4, <1>5, MovedStep DEF Bare
<1>6. CASE task' = [task EXCEPT ![w] = t]
  <2>1. /\ t \in Task /\ t.pc = task[w].pc /\ t.refs = task[w].refs
        /\ t.todo = task[w].todo /\ t.current = {} BY <1>2 DEF Task
  <2> HIDE DEF t, own
  <2>2. Placed(t, held'[w], own) BY <1>2, <2>1 DEF Placed
  <2>3. \A j \in Jobs : Secured(w, j) => Guarded(t, own, FinalFiles(j))
    BY <1>2, <1>3, <2>1 DEF Secured, Guarded
  <2> QED BY <1>1, <1>4, <1>6, <2>1, <2>2, <2>3, OwnStep
<1>7. task' = Moved(w, "raised") \/ task' = [task EXCEPT ![w] = t] BY DEF Unlink
<1> QED BY <1>5, <1>6, <1>7

LEMMA ListStep ==
  ASSUME SeparateStores, StoreInv, CatalogInv', NEW w \in Workers, ListStaging(w)
  PROVE  StoreInv'
<1> DEFINE listed == {f \in Store(w) : f.area # "artifacts"}
           t == [task[w] EXCEPT !.pc = "staging", !.todo = listed]
<1>1. crashes' \in Nat /\ ArtifactsKept /\ held' = held /\ files' = files
  BY DEF ListStaging, StoreInv, StoreTypeOK, ArtifactsKept, vars
<1>2. task[w] \in Task /\ task[w].pc = "artifacts" /\ task[w].current = {}
  BY DEF StoreInv, StoreTypeOK, ListStaging, At, Quiet
<1>3. listed \in SUBSET File /\ \A f \in listed : f.area # "artifacts" BY SameFiles
<1>4. task' = [task EXCEPT ![w] = t] BY DEF ListStaging
<1> HIDE DEF listed
<1>5. /\ t \in Task /\ t.pc = "staging" /\ t.todo = listed /\ t.current = {}
  BY <1>2, <1>3 DEF Task, Places
<1> HIDE DEF t
<1>6. Placed(t, held'[w], Store(w)) BY <1>3, <1>5 DEF Placed
<1>7. \A j \in Jobs : Secured(w, j) => Guarded(t, Store(w), FinalFiles(j))
  BY <1>5 DEF Secured, Guarded
<1> QED BY <1>1, <1>4, <1>5, <1>6, <1>7, SameFiles, OwnStep

-----------------------------------------------------------------------------
(* The attempt. *)

LEMMA WorkStep ==
  ASSUME SeparateStores, StoreInv, CatalogInv', NEW w \in Workers, Work(w)
  PROVE  StoreInv'
<1>1. crashes' = crashes /\ crashes \in Nat /\ files' = files /\ CatalogInv
  BY DEF Work, StoreInv, StoreTypeOK
<1>2. held[w] # Idle BY DEF StoreInv, Work, At, Placed
<1>3. ArtifactsKept /\ held' = held
  BY <1>1, AttemptKeeps, CallerKeeps DEF Work, Callers
<1>4. task' = task \/ task' = Moved(w, "done") BY DEF Work
<1>5. CASE task' = task BY <1>1, <1>3, <1>5, StillStep DEF storeVars
<1>6. CASE task' = Moved(w, "done") BY <1>1, <1>2, <1>3, <1>6, MovedOnly DEF Bare
<1> QED BY <1>4, <1>5, <1>6

LEMMA LeaveSteps ==
  ASSUME SeparateStores, StoreInv, CatalogInv', NEW w \in Workers,
         Return(w) \/ Restart(w)
  PROVE  StoreInv'
<1>1. /\ task' = Moved(w, "recover") /\ files' = files
      /\ crashes' \in Nat
      /\ Abandon(w) \/ UNCHANGED vars BY DEF Return, Restart, StoreInv, StoreTypeOK
<1>2. ArtifactsKept BY <1>1 DEF Abandon, vars, ArtifactsKept
<1>3. held \in [Workers -> Holding] BY DEF StoreInv, StoreTypeOK, TypeOK
<1>4. \A v \in Workers \ {w} : held'[v] = held[v] BY <1>1, <1>3 DEF Abandon, vars
<1> QED BY <1>1, <1>2, <1>4, MovedOnly DEF Bare

LEMMA BeginSteps ==
  ASSUME SeparateStores, StoreInv, CatalogInv', NEW w \in Workers, NEW at \in Stamps,
         \/ \E set \in ArtifactSets : BeginStaging(w, set, at)
         \/ BeginPublish(w, at)
  PROVE  StoreInv'
<1>1. crashes' \in Nat /\ ArtifactsKept /\ held' = held /\ files' = files
  BY DEF BeginStaging, BeginPublish, StoreInv, StoreTypeOK, ArtifactsKept, vars
<1>2. /\ task[w] \in Task /\ Placed(task[w], held[w], Store(w)) /\ at \in Nat
  BY StampsType DEF StoreInv, StoreTypeOK, TypeOK
<1>3. ASSUME NEW set \in ArtifactSets, BeginStaging(w, set, at)
      PROVE  StoreInv'
  <2> DEFINE staged == StagedBy(held[w], set)
             t == [Start EXCEPT !.pc = "stage", !.set = set, !.at = at, !.todo = staged]
  <2>1. held[w] # Idle BY <1>2, <1>3 DEF BeginStaging, At, Placed
  <2>2. staged \in SUBSET File /\ staged = StagingFiles(w, set) BY <2>1, StagedType
  <2>3. task' = [task EXCEPT ![w] = t] BY <1>3, <2>2 DEF BeginStaging
  <2>4. /\ t \in Task /\ t.pc = "stage" /\ t.set = set /\ t.current = {}
        /\ t.todo = staged BY <1>2, <2>2 DEF Task, Places, Start
  <2> HIDE DEF t
  <2>5. Placed(t, held'[w], Store(w)) BY <1>1, <2>1, <2>4 DEF Placed
  <2>6. \A j \in Jobs : Secured(w, j) => Guarded(t, Store(w), FinalFiles(j))
    BY <2>4 DEF Secured, Guarded
  <2> QED BY <1>1, <2>3, <2>4, <2>5, <2>6, SameFiles, OwnStep
<1>4. CASE BeginPublish(w, at) /\ task' = Moved(w, "raised")
  BY <1>1, <1>4, MovedOnly DEF Bare
<1>5. CASE BeginPublish(w, at) /\ task' # Moved(w, "raised")
  <2> DEFINE staged == StagedBy(held[w], task[w].set)
             t == [task[w] EXCEPT !.pc = "publish", !.at = at, !.todo = staged]
  <2>1. held[w] # Idle /\ task[w].set \in ArtifactSets
    BY <1>2, <1>5 DEF BeginPublish, At, Placed
  <2>2. staged \in SUBSET File /\ staged = StagingFiles(w, task[w].set)
    BY <2>1, StagedType
  <2>3. task' = [task EXCEPT ![w] = t] BY <1>5, <2>2 DEF BeginPublish
  <2>4. /\ t \in Task /\ t.pc = "publish" /\ t.set = task[w].set /\ t.todo = staged
    BY <1>2, <2>2 DEF Task, Places
  <2> HIDE DEF t
  <2>5. Placed(t, held'[w], Store(w)) BY <1>1, <2>1, <2>4 DEF Placed
  <2>6. \A j \in Jobs : Secured(w, j) => Guarded(t, Store(w), FinalFiles(j))
    BY <2>4 DEF Secured, Guarded
  <2> QED BY <1>1, <2>3, <2>4, <2>5, <2>6, SameFiles, OwnStep
<1> QED BY <1>3, <1>4, <1>5

LEMMA WriteStep ==
  ASSUME SeparateStores, StoreInv, CatalogInv', NEW w \in Workers,
         NEW f \in task[w].todo, StageWrite(w, f)
  PROVE  StoreInv'
<1> DEFINE t == [task[w] EXCEPT !.current = {f}]
           own == Store(w) \cup {Partial(f)}
<1>1. crashes' \in Nat /\ ArtifactsKept /\ held' = held
  BY DEF StageWrite, StoreInv, StoreTypeOK, ArtifactsKept, vars
<1>2. /\ task[w] \in Task /\ task[w].pc = "stage" /\ f \in File
      /\ Placed(task[w], held[w], Store(w))
  BY DEF StoreInv, StoreTypeOK, StageWrite, At, Task
<1>3. CASE task' = Moved(w, "raised") /\ files' = files
  BY <1>1, <1>3, MovedOnly DEF Bare
<1>4. CASE /\ task' = [task EXCEPT ![w].current = {f}]
           /\ files' = [files EXCEPT ![StoreOf[w]] = @ \cup {Partial(f)}]
  <2>1. /\ task' = [task EXCEPT ![w] = t]
        /\ files' = [files EXCEPT ![StoreOf[w]] = own] BY <1>4 DEF Store
  <2>2. own \in SUBSET File BY <1>2, FileNames, SameFiles
  <2>3. /\ t \in Task /\ t.pc = "stage" /\ t.set = task[w].set
        /\ t.todo = task[w].todo /\ t.current = {f} BY <1>2 DEF Task
  <2>4. Store(w) \subseteq own OBVIOUS
  <2> HIDE DEF t, own
  <2>5. Placed(t, held'[w], own) BY <1>1, <1>2, <2>3 DEF Placed
  <2>6. \A j \in Jobs : Secured(w, j) => Guarded(t, own, FinalFiles(j))
    BY <2>3, <2>4 DEF Secured, Guarded
  <2> QED BY <1>1, <2>1, <2>2, <2>3, <2>5, <2>6, OwnStep
<1> QED BY <1>3, <1>4 DEF StageWrite

LEMMA RenameStep ==
  ASSUME SeparateStores, StoreInv, CatalogInv', NEW w \in Workers,
         NEW f \in task[w].current, StageRename(w, f)
  PROVE  StoreInv'
<1> DEFINE t == [task[w] EXCEPT !.todo = @ \ {f}, !.current = {}]
           own == (Store(w) \ {Partial(f)}) \cup {f}
<1>1. crashes' \in Nat /\ ArtifactsKept /\ held' = held
  BY DEF StageRename, StoreInv, StoreTypeOK, ArtifactsKept, vars
<1>2. /\ task[w] \in Task /\ task[w].pc = "stage" /\ f \in File
      /\ Placed(task[w], held[w], Store(w))
  BY DEF StoreInv, StoreTypeOK, StageRename, At, Task
<1>3. CASE task' = Moved(w, "raised") /\ files' = files
  BY <1>1, <1>3, MovedOnly DEF Bare
<1>4. CASE /\ task' = [task EXCEPT ![w].todo = @ \ {f}, ![w].current = {}]
           /\ files' = [files EXCEPT
                ![StoreOf[w]] = (@ \ {Partial(f)}) \cup {f}]
  <2>1. task' = [task EXCEPT ![w] = t] BY <1>4 DEF StoreInv, StoreTypeOK
  <2>2. files' = [files EXCEPT ![StoreOf[w]] = own] BY <1>4 DEF Store
  <2>3. own \in SUBSET File BY <1>2, FileNames, SameFiles
  <2>4. /\ t \in Task /\ t.pc = "stage" /\ t.set = task[w].set
        /\ t.todo = task[w].todo \ {f} /\ t.current = {} BY <1>2 DEF Task
  <2>5. \A j \in Jobs : Secured(w, j) => FinalFiles(j) \subseteq own
    BY <1>2, FileNames, FinalType DEF Secured, Guarded
  <2> HIDE DEF t, own
  <2>6. Placed(t, held'[w], own) BY <1>1, <1>2, <2>4 DEF Placed
  <2>7. \A j \in Jobs : Secured(w, j) => Guarded(t, own, FinalFiles(j))
    BY <2>4, <2>5 DEF Guarded
  <2> QED BY <1>1, <2>1, <2>2, <2>3, <2>4, <2>6, <2>7, OwnStep
<1> QED BY <1>3, <1>4 DEF StageRename

LEMMA PublishStep ==
  ASSUME SeparateStores, StoreInv, CatalogInv', NEW w \in Workers,
         NEW f \in task[w].todo, PublishItem(w, f)
  PROVE  StoreInv'
<1> DEFINE t == [task[w] EXCEPT !.todo = @ \ {f}]
           own == (Store(w) \ {f}) \cup {Final(f)}
<1>1. crashes' \in Nat /\ ArtifactsKept /\ held' = held
  BY DEF PublishItem, StoreInv, StoreTypeOK, ArtifactsKept, vars
<1>2. /\ task[w] \in Task /\ task[w].pc = "publish" /\ f \in File
      /\ Placed(task[w], held[w], Store(w))
  BY DEF StoreInv, StoreTypeOK, PublishItem, At, Task
<1>3. CASE task' = Moved(w, "raised") /\ files' = files
  BY <1>1, <1>3, MovedOnly DEF Bare
<1>4. CASE /\ task' = [task EXCEPT ![w].todo = @ \ {f}]
           /\ files' = [files EXCEPT ![StoreOf[w]] = (@ \ {f}) \cup {Final(f)}]
  <2> DEFINE staged == StagedBy(held[w], task[w].set)
  <2>1. /\ task' = [task EXCEPT ![w] = t]
        /\ files' = [files EXCEPT ![StoreOf[w]] = own] BY <1>4 DEF Store
  <2>2. own \in SUBSET File BY <1>2, FileNames, SameFiles
  <2>3. /\ t \in Task /\ t.pc = "publish" /\ t.set = task[w].set
        /\ t.todo = task[w].todo \ {f} BY <1>2 DEF Task
  <2>4. /\ held[w] # Idle /\ task[w].set \in ArtifactSets
        /\ task[w].todo \subseteq staged
        /\ \A g \in staged \ task[w].todo : Final(g) \in Store(w) BY <1>2 DEF Placed
  <2>5. staged \subseteq File /\ \A g \in staged : g.area = "staging"
    BY <2>4, StagedType
  <2>6. \A g \in staged \ t.todo : Final(g) \in own
    <3> SUFFICES ASSUME NEW g \in staged \ t.todo PROVE Final(g) \in own OBVIOUS
    <3>1. Final(g).area = "artifacts" /\ f.area = "staging" BY <2>4, <2>5, FileNames
    <3>2. g = f \/ g \in staged \ task[w].todo BY <2>3
    <3> QED BY <2>4, <3>1, <3>2
  <2>7. \A j \in Jobs : Secured(w, j) => FinalFiles(j) \subseteq own
    BY <2>4, <2>5, FinalType DEF Secured, Guarded
  <2> HIDE DEF t, own
  <2>8. Placed(t, held'[w], own) BY <1>1, <2>3, <2>4, <2>6 DEF Placed
  <2>9. \A j \in Jobs : Secured(w, j) => Guarded(t, own, FinalFiles(j))
    BY <2>3, <2>7 DEF Guarded
  <2> QED BY <1>1, <2>1, <2>2, <2>3, <2>8, <2>9, OwnStep
<1> QED BY <1>3, <1>4 DEF PublishItem

LEMMA CommitSteps ==
  ASSUME SeparateStores, StoreInv, CatalogInv', NEW w \in Workers, Commit(w)
  PROVE  StoreInv'
<1>1. /\ files' = files /\ crashes' = crashes /\ crashes \in Nat
      /\ At(w, "publish") /\ AllPublished(w) BY DEF Commit, StoreInv, StoreTypeOK
<1>2. CASE SucceedJob(w, task[w].set, task[w].at) /\ task' = Moved(w, "done")
  BY <1>1, <1>2, CommitStep
<1>3. CASE task' = Moved(w, "raised") /\ UNCHANGED vars
  <2>1. ArtifactsKept /\ held' = held BY <1>3 DEF vars, ArtifactsKept
  <2> QED BY <1>1, <1>3, <2>1, MovedOnly DEF Bare
<1> QED BY <1>2, <1>3 DEF Commit

-----------------------------------------------------------------------------
(* The catalog under the composition. *)

LEMMA StoreKeepsCatalog ==
  ASSUME StoreInv, [StoreNext]_allVars
  PROVE  CatalogInv'
<1>c. CatalogInv BY DEF StoreInv
<1>1. ASSUME NEW w \in Workers, ThreadStep(w) PROVE CatalogInv'
  <2>1. CASE Commit(w)
    <3>1. CASE UNCHANGED vars BY <1>c, <3>1, CatalogStep
    <3>2. CASE SucceedJob(w, task[w].set, task[w].at)
      <4>1. task[w].set \in ArtifactSets /\ task[w].at \in Nat
        BY <2>1 DEF StoreInv, StoreTypeOK, Task, Commit, At, Placed
      <4> QED BY <1>c, <3>2, <4>1, LateCommit
    <3> QED BY <2>1, <3>1, <3>2 DEF Commit
  <2>2. CASE Recover(w) BY <1>c, <2>2, CatalogStep DEF Recover, Next, SystemStep
  <2>3. CASE Claim(w) BY <1>c, <2>3, CatalogStep DEF Claim, Next, WorkerStep
  <2>4. CASE Return(w) BY <1>c, <2>4, CatalogStep DEF Return, Next, WorkerStep
  <2>5. CASE ~ (Commit(w) \/ Recover(w) \/ Claim(w) \/ Return(w))
    <3>1. UNCHANGED vars BY <1>1, <2>5
      DEF ThreadStep, ReadReferences, VerifyReferences, Judge, Unlink, ListStaging,
          Reconciled, ClaimNothing, LeaseLost, StageWrite, PublishItem, StageRename,
          BeginPublish
    <3> QED BY <1>c, <3>1, CatalogStep
  <2> QED BY <2>1, <2>2, <2>3, <2>4, <2>5
<1>2. ASSUME NEW w \in Workers, Work(w) PROVE CatalogInv'
  <2>1. Next BY <1>2 DEF Work, Next, WorkerStep, Callers
  <2> QED BY <1>c, <2>1, CatalogStep
<1>3. ASSUME NEW w \in Workers, Restart(w) PROVE CatalogInv'
  BY <1>c, <1>3, CatalogStep DEF Restart, Next, WorkerStep
<1>4. ASSUME NEW w \in Workers, NEW set, NEW at, BeginStaging(w, set, at)
      PROVE  CatalogInv' BY <1>c, <1>4, CatalogStep DEF BeginStaging
<1>5. CASE Elsewhere
  <2>1. Next BY <1>5 DEF Elsewhere, Next, Callers
  <2> QED BY <1>c, <2>1, CatalogStep
<1>6. CASE UNCHANGED allVars BY <1>c, <1>6, CatalogStep DEF allVars
<1> QED BY <1>1, <1>2, <1>3, <1>4, <1>5, <1>6 DEF StoreNext

-----------------------------------------------------------------------------
(* The theorems. *)

LEMMA StoreInitially == StoreInit => StoreInv
<1> SUFFICES ASSUME StoreInit PROVE StoreInv OBVIOUS
<1>1. CatalogInv /\ TypeOK BY InitCatalogInv DEF StoreInit, CatalogInv
<1>2. \A j \in Jobs : jobs[j].artifact_set_id = NULL BY DEF StoreInit, Init, AbsentRow
<1>3. Start \in Task /\ Start.pc = "recover" BY DEF Start, Task, Places
<1>4. StoreTypeOK BY <1>1, <1>3 DEF StoreInit, StoreTypeOK
<1>5. \A w \in Workers : task[w].pc = "recover" BY <1>3 DEF StoreInit
<1> QED BY <1>1, <1>2, <1>4, <1>5 DEF StoreInv, Placed

LEMMA StoreStep ==
  ASSUME SeparateStores, StoreInv, [StoreNext]_allVars
  PROVE  StoreInv'
<1>c. CatalogInv' /\ CatalogInv BY StoreKeepsCatalog DEF StoreInv
<1>1. ASSUME NEW w \in Workers, ThreadStep(w) PROVE StoreInv'
  BY <1>c, <1>1, RecoverSteps, ReadStep, VerifyStep, JudgeStep, UnlinkStep, ListStep,
    WriteStep, RenameStep, PublishStep, BeginSteps, CommitSteps, LeaveSteps
  DEF ThreadStep
<1>2. ASSUME NEW w \in Workers, NEW set \in ArtifactSets, NEW at \in Stamps,
             BeginStaging(w, set, at)
      PROVE  StoreInv' BY <1>c, <1>2, BeginSteps
<1>3. CASE Elsewhere
  <2>1. UNCHANGED storeVars BY <1>3 DEF Elsewhere
  <2> QED BY <1>c, <1>3, <2>1, ElsewhereKeeps, StillStep
<1>4. CASE UNCHANGED allVars
  <2>1. ArtifactsKept /\ held' = held /\ UNCHANGED storeVars
    BY <1>4 DEF allVars, vars, ArtifactsKept
  <2> QED BY <1>c, <2>1, StillStep
<1> QED BY <1>c, <1>1, <1>2, <1>3, <1>4, WorkStep, LeaveSteps DEF StoreNext

LEMMA StoreInvSafe == SeparateStores /\ StoreInv => StoreCorrect
<1> SUFFICES ASSUME SeparateStores, StoreInv PROVE StoreCorrect OBVIOUS
<1>1. ASSUME NEW j \in Jobs PROVE \E s \in Stores : FinalFiles(j) \subseteq files[s]
  <2>1. CASE jobs[j].artifact_set_id = NULL BY <2>1 DEF FinalFiles, SeparateStores
  <2>2. CASE jobs[j].artifact_set_id # NULL
    <3>1. PICK w \in Workers : Secured(w, j) BY <2>2 DEF StoreInv
    <3>2. StoreOf[w] \in Stores /\ FinalFiles(j) \subseteq files[StoreOf[w]]
      BY <3>1, StoreAssumption DEF Secured, Guarded, Store
    <3> QED BY <3>2
  <2> QED BY <2>1, <2>2
<1> QED BY <1>1 DEF StoreCorrect, StoreInv, NoDanglingReference

\* storage/job_recovery.py: whatever is claimed, staged, published, cancelled,
\* reclaimed and swept, and however often a worker is killed between two
\* renames: the files of every committed artifact set are in one store, when no
\* two threads share a store.
THEOREM StoreSafety ==
  ASSUME SeparateStores
  PROVE  StoreSpec => []StoreCorrect
<1>1. StoreInv /\ [StoreNext]_allVars => StoreInv' BY StoreStep
<1>2. StoreInv => StoreCorrect BY StoreInvSafe
<1> QED BY <1>1, <1>2, StoreInitially, PTL DEF StoreSpec

=============================================================================
