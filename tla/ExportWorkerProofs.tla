------------------------- MODULE ExportWorkerProofs -------------------------
(***************************************************************************)
(* Proofs about ExportWorker for any number of supervisor threads, export  *)
(* jobs, retries and host restarts, any lease length and any delay between *)
(* the steps of a thread.                                                  *)
(***************************************************************************)
EXTENDS ExportWorker, JobCatalogProofs

\* Where a thread works on a claimed attempt.
Working == Phases \ {"recover", "claim", "stopped", "dead"}

\* Where the export has been recorded and its files are being published.
Publishing == {"publish", "commit"}

ThreadTypeOK == /\ phase \in [Workers -> Phases]
                /\ now \in [Workers -> Nat]
                /\ stop \in BOOLEAN
                /\ hosts \in Nat

\* The log of an export holds nothing but the record of its export ID.
LogOfExport(j) ==
  /\ Len(checkpoints[j]) \in {0, 1}
  /\ Len(checkpoints[j]) = 1 => checkpoints[j][1].recovery_position = 10 * j

\* A thread that works holds an attempt; one that publishes has its record.
Placed(w) ==
  /\ phase[w] \in Working => held[w] # Idle
  /\ phase[w] \in Publishing => Len(checkpoints[Job(w)]) = 1

\* A retry is the only call of this program that is ever half finished; it
\* names the job of the thread and carries a time that has passed.
Waiting(c) ==
  pending[c] # NoCall =>
    /\ c \in Workers /\ held[c] # Idle
    /\ pending[c].op = "retry" /\ pending[c].job = held[c].job
    /\ pending[c].at <= clock

\* An attempt whose end is decided does not come under control again.
Over(w) ==
  phase[w] \in {"interrupted", "finishCancel"} => ~Controlled(w, clock)

ExportInv ==
  /\ CatalogInv
  /\ CheckpointOrder
  /\ ThreadTypeOK
  /\ \A j \in Jobs :
       LogOfExport(j) /\ (jobs[j].state = "succeeded" => Len(checkpoints[j]) = 1)
  /\ \A w \in Workers : Placed(w) /\ Over(w)
  /\ \A c \in Callers : Waiting(c)

\* The parts of the invariant that the arguments below read.
LEMMA Facts ==
  ASSUME ExportInv
  PROVE  /\ CatalogInv /\ TypeOK /\ LeaseMatchesAttempt /\ CheckpointOrder
         /\ clock \in Nat /\ clock \in Stamps
         /\ jobs \in [Jobs -> Row] /\ checkpoints \in [Jobs -> Seq(Checkpoint)]
         /\ held \in [Workers -> Holding] /\ pending \in [Callers -> Call]
         /\ phase \in [Workers -> Phases] /\ now \in [Workers -> Nat]
         /\ \A j \in Jobs : jobs[j].attempt \in Nat
         /\ \A w \in Workers : held[w] # Idle =>
              held[w].job \in Jobs /\ held[w].attempt \in Nat \ {0}
BY ClockIsStamp DEF ExportInv, CatalogInv, TypeOK, ThreadTypeOK, Holding, Row

-----------------------------------------------------------------------------
(* What a step does to the thread that takes it. *)

\* Thread w goes to p.  It starts to work with a claim and to publish with
\* the record; it is interrupted, or finishes a cancellation, because the
\* attempt was not controlled any more.
Goes(w, p) ==
  /\ phase' = [phase EXCEPT ![w] = p]
  /\ now' = now \/ now' = [now EXCEPT ![w] = clock]
  /\ UNCHANGED <<stop, hosts>>
  /\ p \in Working => phase[w] \in Working \/ Claim(w)
  /\ p \in Publishing => phase[w] \in Publishing \/ Save(w)
  /\ p \in {"interrupted", "finishCancel"} => UNCHANGED vars /\ ~Controlled(w, clock)

LEMMA ThreadGoes ==
  ASSUME NEW w \in Workers, ThreadStep(w)
  PROVE  \E p \in Phases : Goes(w, p)
<1> USE DEF Goes, Go, At, Keep, Phases, Working, Publishing
<1>1. CASE LoopEnds(w) \/ Recover(w) \/ Claim(w) \/ ClaimNothing(w)
  BY <1>1 DEF LoopEnds, Recover, Claim, ClaimNothing
<1>2. CASE BuildAsks(w) \/ BuildRaises(w) \/ Check(w) \/ EnsureFreeSpace(w)
  BY <1>2 DEF BuildAsks, BuildRaises, Check, EnsureFreeSpace, Asked
<1>3. CASE StageData(w) \/ StageManifest(w)
  BY <1>3 DEF StageData, StageManifest, StageFile
<1>4. CASE Save(w) BY <1>4 DEF Save
<1>5. CASE Publish(w) \/ Commit(w) BY <1>5 DEF Publish, Commit
<1>6. CASE \/ FinishInterrupted(w) \/ RetryFails(w) \/ FinishActiveCancel(w)
           \/ Quarantine(w)
  BY <1>6 DEF FinishInterrupted, RetryFails, FinishActiveCancel, Quarantine, End
<1>7. CASE RetryRead(w) \/ RetryWrite(w) BY <1>7 DEF RetryRead, RetryWrite
<1>8. CASE Rejected(w) BY <1>8 DEF Rejected, Controlled, Job
<1>9. CASE Return(w) BY <1>9 DEF Return
<1> QED BY <1>1, <1>2, <1>3, <1>4, <1>5, <1>6, <1>7, <1>8, <1>9 DEF ThreadStep

\* A step of the bridge, the other worker or the clock.
Outside == \/ \E j \in Jobs : Enqueue(j) \/ \E b \in Operators :
                                JobCancel(b, j) \/ JobCancelFinish(b, j)
           \/ CloseHost \/ ReclaimElsewhere \/ Time
           \/ UNCHANGED allVars

LEMMA OutsideKeeps ==
  ASSUME ExportInv, Outside
  PROVE  UNCHANGED <<phase, now, hosts>> /\ stop' \in BOOLEAN
BY DEF ExportInv, ThreadTypeOK, Outside, Enqueue, JobCancel, JobCancelFinish, CloseHost,
  ReclaimElsewhere, Time, exportVars, allVars

LEMMA ExportCases ==
  ASSUME [ExportNext]_allVars
  PROVE  (\E w \in Workers : ThreadStep(w)) \/ NewHost \/ Outside
BY DEF ExportNext, Outside

LEMMA ThreadTypes ==
  ASSUME ExportInv, [ExportNext]_allVars
  PROVE  ThreadTypeOK'
<1>t. ThreadTypeOK /\ clock \in Nat BY Facts DEF ExportInv
<1>1. ASSUME NEW w \in Workers, NEW p \in Phases, Goes(w, p) PROVE ThreadTypeOK'
  BY <1>1, <1>t DEF Goes, ThreadTypeOK
<1>2. CASE NewHost
  <2>s. stop' \in BOOLEAN BY <1>2, Zenon DEF NewHost
  <2>1. phase' = [w \in Workers |-> "recover"] /\ now' = now /\ hosts' = hosts + 1
    BY <1>2 DEF NewHost
  <2> QED BY <1>t, <2>s, <2>1 DEF ThreadTypeOK, Phases
<1>3. CASE Outside BY <1>3, <1>t, OutsideKeeps DEF ThreadTypeOK
<1> QED BY <1>1, <1>2, <1>3, ExportCases, ThreadGoes

-----------------------------------------------------------------------------
(* What a step does to the catalog. *)

\* A row that runs after the step was running under the same lease before it,
\* or has a lease that no worker holds yet.
Fades(j) ==
  jobs'[j].state = "running" =>
    \/ /\ jobs[j].state = "running"
       /\ jobs'[j].lease_token = jobs[j].lease_token
       /\ jobs'[j].lease_expires_at = jobs[j].lease_expires_at
       /\ jobs'[j].attempt_deadline_at = jobs[j].attempt_deadline_at
    \/ \E v \in Workers :
         jobs'[j].lease_token = [attempt |-> jobs[j].attempt + 1, owner |-> v]

\* A log stays as it is, or gets the record of its export.
LogGrows(j) ==
  \/ checkpoints'[j] = checkpoints[j]
  \/ /\ Len(checkpoints[j]) = 0 /\ Len(checkpoints'[j]) = 1
     /\ checkpoints'[j][1].recovery_position = 10 * j

\* What every step does to the catalog.
CatalogEffect ==
  /\ CatalogInv' /\ CheckpointOrder'
  /\ clock' \in Nat /\ clock <= clock'
  /\ \A j \in Jobs :
       /\ Fades(j) /\ LogGrows(j)
       /\ jobs'[j].state = "succeeded" =>
            jobs[j].state = "succeeded" \/ Len(checkpoints[j]) = 1

LEMMA PlainFades ==
  ASSUME ExportInv, NEW j \in Jobs, PlainMove(j)
  PROVE  Fades(j)
<1>1. jobs[j] \in Row BY Facts
<1>2. \A w \in Workers : pending[w].op # "heartbeat"
  BY DEF ExportInv, Waiting, NoCall, Callers
<1> QED BY <1>1, <1>2
  DEF PlainMove, Renewed, CancelRequested, LeftAttempt, Expired, Released, Row, Fades

\* A plain call.
LEMMA PlainEffect ==
  ASSUME ExportInv, Undisturbed, CatalogInv', \A j \in Jobs : PlainMove(j),
         clock' = clock
  PROVE  CatalogEffect
<1>1. CheckpointOrder' BY Facts, LogKept DEF Undisturbed
<1>2. \A j \in Jobs : Fades(j) BY PlainFades
<1> QED BY <1>1, <1>2, Facts DEF CatalogEffect, Undisturbed, LogGrows

\* No call, a call that only notes what it will do, or one that only forgets.
LEMMA StillEffect ==
  ASSUME ExportInv, CatalogInv', UNCHANGED <<jobs, checkpoints>>,
         clock' \in Nat, clock <= clock'
  PROVE  CatalogEffect
<1>1. CheckpointOrder' BY Facts DEF CheckpointOrder
<1>2. \A j \in Jobs : Fades(j) BY DEF Fades
<1> QED BY <1>1, <1>2 DEF CatalogEffect, LogGrows

LEMMA UnchangedEffect ==
  ASSUME ExportInv, UNCHANGED vars
  PROVE  CatalogEffect
<1>1. CatalogInv' BY Facts, CatalogStep
<1>2. UNCHANGED <<jobs, checkpoints>> /\ clock' = clock BY DEF vars
<1> QED BY <1>1, <1>2, Facts, StillEffect

LEMMA SettleEffect ==
  ASSUME ExportInv, NEW c \in Callers, NEW j \in Jobs,
         NEW target \in {"failed", "quarantined", "cancelled"},
         Settle(c, j, target, clock)
  PROVE  CatalogEffect
<1>1. Undisturbed /\ CatalogInv' /\ \A k \in Jobs : PlainMove(k)
  BY Facts, UndisturbingCalls, PlainCalls
<1> QED BY <1>1, PlainEffect DEF Settle

LEMMA CancelEffect ==
  ASSUME ExportInv, NEW b \in Operators, NEW j \in Jobs, RequestCancel(b, j)
  PROVE  CatalogEffect
<1>1. Undisturbed /\ CatalogInv' /\ \A k \in Jobs : PlainMove(k)
  BY Facts, UndisturbingCalls, PlainCalls DEF Callers
<1> QED BY <1>1, PlainEffect DEF RequestCancel

LEMMA ReclaimEffect ==
  ASSUME ExportInv, ReclaimOrphans(clock)
  PROVE  CatalogEffect
<1>1. Undisturbed /\ CatalogInv' /\ \A k \in Jobs : PlainMove(k)
  BY Facts, UndisturbingCalls, PlainCalls
<1> QED BY <1>1, PlainEffect DEF ReclaimOrphans

LEMMA RetryWriteEffect ==
  ASSUME ExportInv, NEW w \in Workers, ScheduleRetryWrite(w)
  PROVE  CatalogEffect
<1>1. Undisturbed /\ CatalogInv' /\ \A k \in Jobs : PlainMove(k)
  BY Facts, UndisturbingCalls, PlainCalls DEF Callers
<1> QED BY <1>1, PlainEffect DEF ScheduleRetryWrite

LEMMA RetryReadEffect ==
  ASSUME ExportInv, NEW w \in Workers, NEW j \in Jobs, NEW code,
         ScheduleRetryRead(w, j, clock, code)
  PROVE  CatalogEffect
<1>1. CatalogInv' BY Facts, UndisturbingCalls
<1> QED BY <1>1, Facts, StillEffect DEF ScheduleRetryRead

LEMMA CreateEffect ==
  ASSUME ExportInv, NEW k \in Jobs, CreateJob(k, clock)
  PROVE  CatalogEffect
<1>1. CatalogInv' /\ CheckpointOrder'
  BY Facts, CatalogStep, NextCheckpoint DEF Next, SystemStep
<1>2. /\ \A j \in Jobs : j # k => jobs'[j] = jobs[j]
      /\ jobs'[k].state = "queued" BY Facts, CreateColumns
<1>3. checkpoints' = checkpoints /\ clock' = clock BY DEF CreateJob
<1>4. \A j \in Jobs : Fades(j) /\ (jobs'[j].state = "succeeded" =>
                                    jobs[j].state = "succeeded") BY <1>2 DEF Fades
<1> QED BY <1>1, <1>3, <1>4, Facts DEF CatalogEffect, LogGrows

LEMMA TickEffect ==
  ASSUME ExportInv, Tick
  PROVE  CatalogEffect
<1>1. CatalogInv' BY Facts, CatalogStep DEF Next
<1> QED BY <1>1, Facts, StillEffect DEF Tick

LEMMA ClaimEffect ==
  ASSUME ExportInv, NEW w \in Workers, NEW k \in Jobs, ClaimNext(w, k, clock)
  PROVE  CatalogEffect
<1>1. CatalogInv' /\ CheckpointOrder'
  BY Facts, CatalogStep, NextCheckpoint DEF Next, WorkerStep
<1>2. /\ jobs'[k].state = "running"
      /\ jobs'[k].lease_token = [attempt |-> jobs[k].attempt + 1, owner |-> w]
  BY Facts, ClaimColumns
<1>3. \A j \in Jobs : j # k => jobs'[j] = jobs[j] BY Facts, ClaimOthers
<1>4. \A j \in Jobs : Fades(j) /\ (jobs'[j].state = "succeeded" =>
                                    jobs[j].state = "succeeded")
  BY <1>2, <1>3 DEF Fades
<1>5. checkpoints' = checkpoints /\ clock' = clock BY DEF ClaimNext
<1> QED BY <1>1, <1>4, <1>5, Facts DEF CatalogEffect, LogGrows

\* The one checkpoint of an export finds its log empty.
LEMMA SaveEffect ==
  ASSUME ExportInv, NEW w \in Workers, NEW k, k = Job(w),
         SaveCheckpoint(w, 10 * k, RowCount[k], RowCount[k], clock)
  PROVE  CatalogEffect /\ k \in Jobs /\ Len(checkpoints'[k]) = 1
<1>1. held[w] # Idle /\ k \in Jobs BY Facts DEF SaveCheckpoint, MayCheckpoint, Job
<1>2. 10 * k \in Positions /\ RowCount[k] \in Nat
  BY <1>1, ExportAssumption, CheckpointAssumption
<1>3. CatalogInv' /\ CheckpointOrder' /\ checkpoints' \in [Jobs -> Seq(Checkpoint)]
  BY <1>2, Facts, AnySave, SaveKeepsOrder
<1> DEFINE new == [attempt |-> jobs[k].attempt, recovery_position |-> 10 * k,
                   completed_units |-> RowCount[k], total_units |-> RowCount[k]]
<1>4. /\ checkpoints' = [checkpoints EXCEPT ![k] = Append(checkpoints[k], new)]
      /\ \A i \in 1 .. Len(checkpoints[k]) :
           checkpoints[k][i].recovery_position # 10 * k
      /\ jobs' = [jobs EXCEPT ![k] = [@ EXCEPT !.recovery_position = 10 * k]]
      /\ clock' = clock BY DEF SaveCheckpoint, MayCheckpoint, Job
<1>5. Len(checkpoints[k]) = 0 BY <1>1, <1>4 DEF ExportInv, LogOfExport
<1>6. checkpoints[k] = <<>> BY <1>1, <1>5, Facts
<1>7. new.recovery_position = 10 * k OBVIOUS
<1> HIDE DEF new
<1>8. Len(checkpoints'[k]) = 1 /\ checkpoints'[k][1] = new BY <1>1, <1>4, <1>6, Facts
<1>9. \A j \in Jobs : LogGrows(j) BY <1>4, <1>5, <1>7, <1>8, Facts DEF LogGrows
<1>10. \A j \in Jobs :
         /\ jobs'[j].state = jobs[j].state
         /\ jobs'[j].lease_token = jobs[j].lease_token
         /\ jobs'[j].lease_expires_at = jobs[j].lease_expires_at
         /\ jobs'[j].attempt_deadline_at = jobs[j].attempt_deadline_at
  BY <1>1, <1>4, Facts DEF Row
<1> QED BY <1>1, <1>3, <1>4, <1>8, <1>9, <1>10, Facts DEF CatalogEffect, Fades

\* The commit finds the record of the export.
LEMMA CommitEffect ==
  ASSUME ExportInv, NEW w \in Workers, NEW set \in ArtifactSets,
         phase[w] = "commit", SucceedJob(w, set, now[w])
  PROVE  CatalogEffect
<1> SUFFICES ASSUME NEW k, k = held[w].job PROVE CatalogEffect OBVIOUS
<1>1. held[w] # Idle /\ k \in Jobs BY Facts DEF SucceedJob, MaySucceed
<1>2. Len(checkpoints[k]) = 1 BY DEF ExportInv, Placed, Publishing, Job
<1>3. CatalogInv' BY Facts, LateCommit
<1>4. /\ \A j \in Jobs : j # k => jobs'[j] = jobs[j]
      /\ jobs'[k].attempt = jobs[k].attempt
      /\ jobs'[k].recovery_position = jobs[k].recovery_position
      /\ jobs'[k].state = "succeeded"
      /\ checkpoints' = checkpoints /\ clock' = clock
  BY <1>1, Facts DEF SucceedJob, Released, Row
<1>5. CheckpointOrder'
  <2>1. \A j \in Jobs : /\ jobs'[j].recovery_position = jobs[j].recovery_position
                       /\ jobs'[j].attempt \in Nat
                       /\ jobs[j].attempt <= jobs'[j].attempt
    <3> SUFFICES ASSUME NEW j \in Jobs
                 PROVE  /\ jobs'[j].recovery_position = jobs[j].recovery_position
                        /\ jobs'[j].attempt = jobs[j].attempt
                        /\ jobs[j].attempt \in Nat OBVIOUS
    <3> QED BY <1>4, Facts
  <2> QED BY <1>4, <2>1, Facts, LogKept
<1>6. \A j \in Jobs : Fades(j) /\ (jobs'[j].state = "succeeded" =>
                       jobs[j].state = "succeeded" \/ Len(checkpoints[j]) = 1)
  BY <1>2, <1>4 DEF Fades
<1> QED BY <1>3, <1>4, <1>5, <1>6, Facts DEF CatalogEffect, LogGrows


-----------------------------------------------------------------------------
(* The calls of a thread, and what it holds afterwards. *)

\* A thread keeps its attempt and at most notes the retry of it, claims one,
\* or lets go of the one it has.
Holds(w) ==
  \/ held' = held /\ \/ pending' = pending
                     \/ pending' = [pending EXCEPT ![w] = NoCall]
                     \/ /\ held[w] # Idle
                        /\ \E until : pending' = [pending EXCEPT ![w] =
                             [op |-> "retry", job |-> held[w].job, at |-> clock,
                              until |-> until]]
  \/ Claim(w)
  \/ Abandon(w) /\ Go(w, "recover")

LEMMA EndCalls ==
  ASSUME ExportInv, NEW w \in Workers,
         NEW target \in {"failed", "quarantined", "cancelled"}, End(w, target)
  PROVE  CatalogEffect /\ Holds(w)
<1>1. CASE Settle(w, Job(w), target, clock)
  <2>1. Job(w) \in Jobs /\ w \in Callers BY <1>1, Facts, NamedJob DEF Settle, Callers
  <2>2. CatalogEffect BY <1>1, <2>1, SettleEffect
  <2> QED BY <1>1, <2>2 DEF Settle, Holds
<1>2. CASE UNCHANGED vars BY <1>2, UnchangedEffect DEF Holds, vars
<1> QED BY <1>1, <1>2 DEF End

LEMMA ThreadCalls ==
  ASSUME ExportInv, NEW w \in Workers, ThreadStep(w)
  PROVE  CatalogEffect /\ Holds(w)
<1>u. ASSUME UNCHANGED vars PROVE CatalogEffect /\ Holds(w)
  BY <1>u, UnchangedEffect DEF Holds, vars
<1>1. CASE LoopEnds(w) \/ ClaimNothing(w) \/ Publish(w) \/ Rejected(w)
  BY <1>1, <1>u DEF LoopEnds, ClaimNothing, Publish, Rejected, vars
<1>2. CASE \/ BuildAsks(w) \/ BuildRaises(w) \/ Check(w) \/ EnsureFreeSpace(w)
           \/ StageData(w) \/ StageManifest(w)
  BY <1>2, <1>u DEF BuildAsks, BuildRaises, Check, EnsureFreeSpace, StageData,
    StageManifest, StageFile
<1>3. CASE Recover(w)
  <2>1. CASE ReclaimOrphans(clock) BY <2>1, ReclaimEffect DEF ReclaimOrphans, Holds
  <2> QED BY <1>3, <1>u, <2>1 DEF Recover
<1>4. CASE Claim(w) BY <1>4, ClaimEffect DEF Claim, Holds
<1>5. CASE Save(w)
  <2>1. CASE SaveCheckpoint(w, 10 * Job(w), RowCount[Job(w)], RowCount[Job(w)], clock)
    <3>1. CatalogEffect BY <2>1, SaveEffect
    <3> QED BY <2>1, <3>1 DEF SaveCheckpoint, Holds
  <2> QED BY <1>5, <1>u, <2>1 DEF Save, ExportId
<1>6. CASE Commit(w)
  <2>1. CASE \E set \in ArtifactSets : SucceedJob(w, set, now[w])
    <3>1. CatalogEffect BY <1>6, <2>1, CommitEffect DEF Commit, At
    <3> QED BY <2>1, <3>1 DEF SucceedJob, Holds
  <2> QED BY <1>6, <1>u, <2>1 DEF Commit
<1>7. CASE FinishInterrupted(w) \/ RetryFails(w) \/ FinishActiveCancel(w) \/ Quarantine(w)
  BY <1>7, EndCalls DEF FinishInterrupted, RetryFails, FinishActiveCancel, Quarantine
<1>8. CASE RetryRead(w)
  <2>1. ASSUME NEW code, ScheduleRetryRead(w, Job(w), clock, code)
        PROVE  CatalogEffect /\ Holds(w)
    <3>1. Job(w) = held[w].job /\ Job(w) \in Jobs /\ held[w] # Idle
      BY <2>1, Facts, NamedJob DEF ScheduleRetryRead
    <3>2. CatalogEffect BY <2>1, <3>1, RetryReadEffect
    <3> QED BY <2>1, <3>1, <3>2 DEF ScheduleRetryRead, Holds
  <2> QED BY <1>8, <1>u, <2>1 DEF RetryRead
<1>9. CASE RetryWrite(w)
  BY <1>9, RetryWriteEffect DEF RetryWrite, ScheduleRetryWrite, Holds
<1>10. CASE Return(w)
  <2>1. CatalogInv' BY <1>10, Facts, CatalogStep DEF Return, Next, WorkerStep
  <2> QED BY <1>10, <2>1, Facts, StillEffect DEF Return, Abandon, Holds
<1> QED BY <1>1, <1>2, <1>3, <1>4, <1>5, <1>6, <1>7, <1>8, <1>9, <1>10 DEF ThreadStep

LEMMA OutsideCalls ==
  ASSUME ExportInv, Outside
  PROVE  CatalogEffect /\ UNCHANGED <<held, pending>>
<1>1. ASSUME NEW j \in Jobs, Enqueue(j) PROVE CatalogEffect /\ UNCHANGED <<held, pending>>
  BY <1>1, CreateEffect DEF Enqueue, CreateJob
<1>2. ASSUME NEW b \in Operators, NEW j \in Jobs, JobCancel(b, j)
      PROVE  CatalogEffect /\ UNCHANGED <<held, pending>>
  BY <1>2, CancelEffect DEF JobCancel, RequestCancel
<1>3. ASSUME NEW b \in Operators, NEW j \in Jobs, JobCancelFinish(b, j)
      PROVE  CatalogEffect /\ UNCHANGED <<held, pending>>
  BY <1>3, SettleEffect DEF JobCancelFinish, FinishCancelled, Settle, Callers
<1>4. CASE ReclaimElsewhere BY <1>4, ReclaimEffect DEF ReclaimElsewhere, ReclaimOrphans
<1>5. CASE Time BY <1>5, TickEffect DEF Time, Tick
<1>6. CASE CloseHost \/ UNCHANGED allVars
  BY <1>6, UnchangedEffect DEF CloseHost, allVars, vars
<1> QED BY <1>1, <1>2, <1>3, <1>4, <1>5, <1>6 DEF Outside

LEMMA NewHostCalls ==
  ASSUME ExportInv, NewHost
  PROVE  CatalogEffect
<1>1. CatalogInv' BY Facts, ForgottenByAll DEF NewHost
<1> QED BY <1>1, Facts, StillEffect DEF NewHost

LEMMA StepEffect ==
  ASSUME ExportInv, [ExportNext]_allVars
  PROVE  CatalogEffect
BY ExportCases, ThreadCalls, OutsideCalls, NewHostCalls


-----------------------------------------------------------------------------
(* Preservation. *)

\* What is out of control stays so for as long as the attempt is held.
LEMMA StaysOver ==
  ASSUME ExportInv, CatalogEffect, NEW w \in Workers, held[w] # Idle,
         held'[w] = held[w], ~Controlled(w, clock)
  PROVE  ~Controlled(w, clock)'
<1> SUFFICES ASSUME NEW k, k = held[w].job, NEW a, a = held[w].attempt,
                    Controlled(w, clock)'
             PROVE  FALSE OBVIOUS
<1>1. /\ k \in Jobs /\ a \in Nat /\ a <= jobs[k].attempt
      /\ jobs[k].attempt \in Nat /\ jobs[k] \in Row
      /\ clock \in Nat /\ clock' \in Nat /\ clock <= clock'
      /\ Fades(k)
  <2>1. a <= jobs[k].attempt BY Facts DEF CatalogInv, AttemptsDistinct
  <2> QED BY <2>1, Facts DEF CatalogEffect
<1>2. Token(w)' = [attempt |-> a, owner |-> w] /\ Token(w) = [attempt |-> a, owner |-> w]
  BY DEF Token
<1>3. /\ jobs'[k].state = "running" /\ jobs'[k].lease_token = Token(w)'
      /\ jobs'[k].lease_expires_at # NULL /\ clock' < jobs'[k].lease_expires_at
      /\ ~Reached(jobs'[k].attempt_deadline_at, clock')
      /\ ~Reached(JobSpec[k].deadline_at, clock')
  BY DEF Controlled, Signalled, LeaseValid, TimedOut
<1>4. CASE \E v \in Workers :
             jobs'[k].lease_token = [attempt |-> jobs[k].attempt + 1, owner |-> v]
  <2>1. PICK v \in Workers :
          jobs'[k].lease_token = [attempt |-> jobs[k].attempt + 1, owner |-> v] BY <1>4
  <2>2. [attempt |-> jobs[k].attempt + 1, owner |-> v] = [attempt |-> a, owner |-> w]
    BY <1>2, <1>3, <2>1
  <2>3. jobs[k].attempt + 1 = a BY <2>2
  <2> QED BY <1>1, <2>3
<1>5. CASE /\ jobs[k].state = "running"
           /\ jobs'[k].lease_token = jobs[k].lease_token
           /\ jobs'[k].lease_expires_at = jobs[k].lease_expires_at
           /\ jobs'[k].attempt_deadline_at = jobs[k].attempt_deadline_at
  <2>1. Signalled(w) BY <1>2, <1>3, <1>5 DEF Signalled, ActiveStates
  <2>2. jobs[k].lease_expires_at \in Nat /\ clock < jobs[k].lease_expires_at
    BY <1>1, <1>3, <1>5 DEF Row, TimeOrNull
  <2>3. LeaseValid(jobs[k], Token(w), clock) BY <1>2, <1>3, <1>5, <2>2 DEF LeaseValid
  <2>4. ~Reached(jobs[k].attempt_deadline_at, clock)
    BY <1>1, <1>3, <1>5 DEF Reached, Row, TimeOrNull
  <2>5. JobSpec[k].deadline_at = NULL BY <1>1, ExportAssumption
  <2>6. ~Reached(JobSpec[k].deadline_at, clock) BY <2>5 DEF Reached
  <2> QED BY <1>5, <2>1, <2>3, <2>4, <2>6 DEF Controlled, TimedOut
<1> QED BY <1>1, <1>3, <1>4, <1>5 DEF Fades

\* A thread that goes on to publish has the record of its export.
LEMMA SaveRecords ==
  ASSUME ExportInv, NEW w \in Workers, Save(w), phase'[w] = "publish"
  PROVE  /\ held[w] # Idle /\ held'[w] = held[w]
         /\ Len(checkpoints'[Job(w)]) = 1
<1>1. held[w] # Idle BY DEF ExportInv, Placed, Save, At, Working, Phases
<1> DEFINE n == RowCount[Job(w)]
<1>2. CASE SaveCheckpoint(w, 10 * Job(w), n, n, clock)
  <2>1. Len(checkpoints'[Job(w)]) = 1 BY <1>2, SaveEffect
  <2> QED BY <1>1, <1>2, <2>1 DEF SaveCheckpoint
<1>3. CASE CheckpointExists(w, 10 * Job(w), n, n, clock) /\ UNCHANGED vars
  <2> SUFFICES ASSUME NEW k, k = held[w].job
               PROVE  Len(checkpoints[k]) = 1 BY <1>1, <1>3 DEF vars, Job
  <2>1. k \in Jobs BY <1>1, Facts
  <2>2. Len(checkpoints[k]) # 0 BY <1>3 DEF CheckpointExists
  <2> QED BY <2>1, <2>2 DEF ExportInv, LogOfExport
<1> QED
  <2>1. phase \in [Workers -> Phases] BY Facts
  <2> QED BY <1>2, <1>3, <2>1 DEF Save, ExportId, Go

LEMMA LogKeeps ==
  ASSUME ExportInv, CatalogEffect, NEW j \in Jobs
  PROVE  /\ LogOfExport(j)' /\ (jobs'[j].state = "succeeded" => Len(checkpoints'[j]) = 1)
         /\ Len(checkpoints[j]) = 1 => Len(checkpoints'[j]) = 1
<1>1. LogOfExport(j) /\ (jobs[j].state = "succeeded" => Len(checkpoints[j]) = 1)
  BY DEF ExportInv
<1>2. LogGrows(j) /\ (jobs'[j].state = "succeeded" =>
                        jobs[j].state = "succeeded" \/ Len(checkpoints[j]) = 1)
  BY DEF CatalogEffect
<1> QED BY <1>1, <1>2 DEF LogGrows, LogOfExport

\* A thread that no step of its own moves.
LEMMA OthersKeep ==
  ASSUME ExportInv, CatalogEffect, NEW w \in Workers,
         held'[w] = held[w], phase'[w] = phase[w]
  PROVE  Placed(w)' /\ Over(w)'
<1>1. Placed(w) /\ Over(w) BY DEF ExportInv
<1>2. phase'[w] \in {"interrupted", "finishCancel"} => ~Controlled(w, clock)'
  <2>1. phase[w] \in {"interrupted", "finishCancel"} => held[w] # Idle
    BY <1>1 DEF Placed, Working, Phases
  <2> QED BY <1>1, <2>1, StaysOver DEF Over
<1>3. phase'[w] \in Publishing => Len(checkpoints'[held'[w].job]) = 1
  <2> SUFFICES ASSUME phase[w] \in Publishing, NEW k, k = held[w].job
               PROVE  Len(checkpoints'[k]) = 1 OBVIOUS
  <2>1. held[w] # Idle /\ Len(checkpoints[k]) = 1
    BY <1>1 DEF Placed, Publishing, Working, Phases, Job
  <2>2. k \in Jobs BY <2>1, Facts
  <2> QED BY <2>1, <2>2, LogKeeps
<1> QED BY <1>1, <1>2, <1>3 DEF Placed, Over, Job


\* The thread that takes a step.
LEMMA OwnKeeps ==
  ASSUME ExportInv, CatalogEffect, NEW w \in Workers, ThreadStep(w)
  PROVE  Placed(w)' /\ Over(w)'
<1>1. PICK p \in Phases : Goes(w, p) BY ThreadGoes
<1>2. phase'[w] = p BY <1>1, Facts DEF Goes
<1>3. Holds(w) /\ Placed(w) BY ThreadCalls DEF ExportInv
<1>4. CASE Abandon(w) /\ Go(w, "recover")
  <2>1. phase'[w] = "recover" BY <1>4, Facts DEF Go
  <2> QED BY <2>1 DEF Placed, Over, Working, Publishing
<1>5. CASE Claim(w)
  <2>1. PICK j \in Jobs : ClaimNext(w, j, clock) BY <1>5 DEF Claim
  <2>2. phase'[w] = "build" /\ held'[w] = [job |-> j, attempt |-> NextAttempt(j)]
    BY <1>5, <2>1, Facts DEF Claim, Go, ClaimNext
  <2>3. held'[w].job # 0 BY <2>1, <2>2, JobsAssumption
  <2>4. held'[w] # Idle BY <2>3 DEF Idle
  <2> QED BY <2>2, <2>4 DEF Placed, Over, Publishing
<1>6. CASE held' = held
  <2>c. ~Claim(w)
    <3> SUFFICES ASSUME NEW j \in Jobs, ClaimNext(w, j, clock) PROVE FALSE BY DEF Claim
    <3>1. held[w] = Idle /\ held'[w] = [job |-> j, attempt |-> NextAttempt(j)]
      BY Facts DEF ClaimNext
    <3>2. held[w].job = 0 /\ held'[w].job = j /\ j # 0 BY <3>1, JobsAssumption DEF Idle
    <3> QED BY <1>6, <3>2
  <2>1. p \in Working => held'[w] # Idle BY <1>1, <1>3, <1>6, <2>c DEF Goes, Placed
  <2>2. p \in Publishing => Len(checkpoints'[held'[w].job]) = 1
    <3> SUFFICES ASSUME p \in Publishing, NEW k, k = held[w].job
                 PROVE  Len(checkpoints'[k]) = 1 BY <1>6
    <3>1. CASE Save(w)
      <4>1. phase'[w] = "publish" BY <1>2, <3>1, Facts DEF Save, Go, Publishing
      <4> QED BY <3>1, <4>1, SaveRecords DEF Job
    <3>2. CASE phase[w] \in Publishing
      <4>1. held[w] # Idle /\ Len(checkpoints[k]) = 1
        BY <1>3, <3>2 DEF Placed, Publishing, Working, Phases, Job
      <4>2. k \in Jobs BY <4>1, Facts
      <4> QED BY <4>1, <4>2, LogKeeps
    <3> QED BY <1>1, <3>1, <3>2 DEF Goes
  <2>3. p \in {"interrupted", "finishCancel"} => ~Controlled(w, clock)'
    <3> SUFFICES ASSUME p \in {"interrupted", "finishCancel"}
                 PROVE  ~Controlled(w, clock)' OBVIOUS
    <3>1. ~Controlled(w, clock) BY <1>1 DEF Goes
    <3>2. held[w] # Idle BY <1>6, <2>1 DEF Working, Phases
    <3> QED BY <1>6, <3>1, <3>2, StaysOver
  <2> QED BY <1>2, <2>1, <2>2, <2>3 DEF Placed, Over, Job
<1> QED BY <1>3, <1>4, <1>5, <1>6 DEF Holds

\* The calls that are half finished.
LEMMA WaitingKept ==
  ASSUME ExportInv, CatalogEffect, NEW w \in Workers, Holds(w), NEW c \in Callers
  PROVE  Waiting(c)'
<1>1. Waiting(c) /\ clock \in Nat /\ clock' \in Nat /\ clock <= clock'
  BY Facts DEF ExportInv, CatalogEffect
<1>k. ASSUME pending'[c] = pending[c], c \in Workers => held'[c] = held[c]
      PROVE  Waiting(c)'
  <2>1. pending[c] # NoCall => pending[c].at \in Nat BY Facts DEF Call
  <2> QED BY <1>1, <1>k, <2>1 DEF Waiting
<1>2. CASE Claim(w)
  <2>1. /\ pending' = pending /\ pending[w] = NoCall
        /\ \A v \in Workers : v # w => held'[v] = held[v]
    BY <1>2, Facts DEF Claim, ClaimNext, Ready
  <2>2. CASE c = w BY <2>1, <2>2 DEF Waiting
  <2> QED BY <1>k, <2>1, <2>2
<1>3. CASE Abandon(w)
  <2>1. /\ pending' = [pending EXCEPT ![w] = NoCall]
        /\ \A v \in Workers : v # w => held'[v] = held[v] BY <1>3, Facts DEF Abandon
  <2>2. CASE c = w BY <2>1, <2>2, Facts DEF Waiting
  <2>3. CASE c # w BY <1>k, <2>1, <2>3, Facts
  <2> QED BY <2>2, <2>3
<1>4. CASE held' = held /\ (pending' = pending \/ pending' = [pending EXCEPT ![w] = NoCall])
  <2>1. pending'[c] = pending[c] \/ pending'[c] = NoCall BY <1>4, Facts
  <2>2. CASE pending'[c] = NoCall BY <2>2 DEF Waiting
  <2> QED BY <1>4, <1>k, <2>1, <2>2
<1>5. CASE held' = held /\ held[w] # Idle /\
           \E until : pending' = [pending EXCEPT ![w] =
                        [op |-> "retry", job |-> held[w].job, at |-> clock,
                         until |-> until]]
  <2>1. PICK until : pending' = [pending EXCEPT ![w] =
                        [op |-> "retry", job |-> held[w].job, at |-> clock,
                         until |-> until]] BY <1>5
  <2>2. CASE c = w
    <3>1. /\ pending'[c].op = "retry" /\ pending'[c].job = held[w].job
          /\ pending'[c].at = clock BY <2>1, <2>2, Facts
    <3> QED BY <1>1, <1>5, <2>2, <3>1 DEF Waiting
  <2>3. CASE c # w BY <1>5, <1>k, <2>1, <2>3, Facts
  <2> QED BY <2>2, <2>3
<1> QED BY <1>2, <1>3, <1>4, <1>5 DEF Holds

LEMMA ExportInvStep ==
  ASSUME ExportInv, [ExportNext]_allVars
  PROVE  ExportInv'
<1>1. CatalogEffect /\ ThreadTypeOK' BY StepEffect, ThreadTypes
<1>2. \A j \in Jobs : LogOfExport(j)' /\ (jobs'[j].state = "succeeded" =>
                                            Len(checkpoints'[j]) = 1) BY <1>1, LogKeeps
<1>3. (\A w \in Workers : Placed(w)' /\ Over(w)') /\ \A c \in Callers : Waiting(c)'
  <2>1. ASSUME NEW w \in Workers, ThreadStep(w)
        PROVE  (\A v \in Workers : Placed(v)' /\ Over(v)') /\ \A c \in Callers : Waiting(c)'
    <3>1. Holds(w) BY <2>1, ThreadCalls
    <3>2. \A v \in Workers : v # w => held'[v] = held[v]
      BY <3>1, Facts DEF Holds, Claim, ClaimNext, Abandon
    <3>3. \A v \in Workers : v # w => phase'[v] = phase[v]
      BY <2>1, ThreadGoes, Facts DEF Goes
    <3> QED BY <1>1, <2>1, <3>1, <3>2, <3>3, OthersKeep, OwnKeeps, WaitingKept
  <2>2. CASE NewHost BY <2>2 DEF NewHost, Placed, Over, Waiting, Working, Publishing
  <2>3. CASE Outside
    <3>1. phase' = phase /\ held' = held /\ pending' = pending
      BY <2>3, OutsideKeeps, OutsideCalls
    <3>2. \A c \in Callers : pending[c] # NoCall => pending[c].at \in Nat
      BY Facts DEF Call
    <3>3. \A c \in Callers : Waiting(c)'
      BY <1>1, <3>1, <3>2, Facts DEF CatalogEffect, ExportInv, Waiting
    <3> QED BY <1>1, <3>1, <3>3, OthersKeep
  <2> QED BY <2>1, <2>2, <2>3, ExportCases
<1> QED BY <1>1, <1>2, <1>3 DEF ExportInv, CatalogEffect

LEMMA ExportInitially == ExportInit => ExportInv
<1> SUFFICES ASSUME ExportInit PROVE ExportInv OBVIOUS
<1>1. CatalogInv BY InitCatalogInv DEF ExportInit
<1>2. /\ CheckpointOrder
      /\ \A j \in Jobs : LogOfExport(j) /\ jobs[j].state # "succeeded"
  BY DEF ExportInit, Init, CheckpointOrder, LogOfExport, AbsentRow
<1>3. stop \in BOOLEAN BY Zenon DEF ExportInit
<1>4. ThreadTypeOK BY <1>3 DEF ExportInit, ThreadTypeOK, Phases
<1>5. /\ \A w \in Workers : Placed(w) /\ Over(w)
      /\ \A c \in Callers : Waiting(c)
  BY DEF ExportInit, Init, Placed, Over, Waiting, Working, Publishing
<1> QED BY <1>1, <1>2, <1>4, <1>5 DEF ExportInv

\* ExportInv is inductive.
LEMMA ExportInvariant == ExportSpec => []ExportInv
BY ExportInitially, ExportInvStep, PTL DEF ExportSpec

-----------------------------------------------------------------------------
(* The theorems. *)

\* For any number of threads, attempts, retries and host restarts: every
\* variable has its type, an export records its content once, and it succeeds
\* only with that record.
THEOREM ExportSafety == ExportSpec => []ExportCorrect
<1>1. ExportInv => ExportCorrect
  <2> SUFFICES ASSUME ExportInv, NEW j \in Jobs
               PROVE  /\ Len(checkpoints[j]) <= 1
                      /\ jobs[j].state = "succeeded" =>
                           jobs[j].recovery_position = 10 * j
    BY Facts DEF ExportCorrect, ExportRecordedOnce, ExportTypeOK, ExportInv,
      ThreadTypeOK
  <2>1. LogOfExport(j) /\ (jobs[j].state = "succeeded" => Len(checkpoints[j]) = 1)
    BY DEF ExportInv
  <2>2. Len(checkpoints[j]) = 1 =>
          checkpoints[j][1].recovery_position = jobs[j].recovery_position
    BY DEF ExportInv, CheckpointOrder
  <2>3. Len(checkpoints[j]) <= 1
    <3>1. \A n \in {0, 1} : n <= 1 OBVIOUS
    <3>2. Len(checkpoints[j]) \in {0, 1} BY <2>1 DEF LogOfExport
    <3> QED BY <3>1, <3>2, Zenon
  <2>4. ASSUME jobs[j].state = "succeeded" PROVE jobs[j].recovery_position = 10 * j
    BY <2>1, <2>2, <2>4 DEF LogOfExport
  <2> QED BY <2>3, <2>4
<1> QED BY <1>1, ExportInvariant, PTL


\* The steps that end a thread.
LEMMA Dying ==
  ASSUME ExportInv, NEW w \in Workers, ThreadStep(w), phase'[w] = "dead"
  PROVE  \/ phase[w] \in {"interrupted", "finishCancel"}
         \/ /\ phase[w] \in {"retry", "quarantine"}
            /\ \E target \in {"failed", "quarantined"} :
                 ~MayTransition(w, Job(w), target, clock)
         \/ /\ phase[w] = "retry"
            /\ \E code \in IoErrors :
                 /\ RetryWanted(w, code)
                 /\ ~("retrying" \in AllowedTransitions(jobs[Job(w)].state)
                       /\ MayRetry(Job(w), clock, code))
         \/ phase[w] = "retryWrite" /\ ScheduleRetryWrite(w) /\ jobs' = jobs
<1>t. phase \in [Workers -> Phases] BY Facts
<1>1. \A p : Go(w, p) => p = "dead" BY <1>t DEF Go
<1>2. CASE \/ LoopEnds(w) \/ Recover(w) \/ Claim(w) \/ ClaimNothing(w)
           \/ BuildAsks(w) \/ BuildRaises(w) \/ Check(w) \/ EnsureFreeSpace(w)
  BY <1>1, <1>2 DEF LoopEnds, Recover, Claim, ClaimNothing, BuildAsks, BuildRaises,
    Check, EnsureFreeSpace, Asked
<1>3. CASE \/ StageData(w) \/ StageManifest(w) \/ Save(w) \/ Publish(w) \/ Commit(w)
           \/ Rejected(w) \/ Return(w)
  BY <1>1, <1>3 DEF StageData, StageManifest, StageFile, Save, Publish, Commit,
    Rejected, Return
<1>4. CASE FinishInterrupted(w) \/ FinishActiveCancel(w)
  BY <1>4 DEF FinishInterrupted, FinishActiveCancel, At
<1>5. CASE RetryFails(w) \/ Quarantine(w)
  BY <1>1, <1>5 DEF RetryFails, Quarantine, End, At
<1>6. CASE RetryRead(w) BY <1>1, <1>6 DEF RetryRead, At
<1>7. CASE RetryWrite(w) BY <1>1, <1>7 DEF RetryWrite, At
<1> QED BY <1>2, <1>3, <1>4, <1>5, <1>6, <1>7 DEF ThreadStep

\* A worker in control of its attempt may end it, and may retry it as long as
\* the claimed record says so, also with a retry asked for a while ago.
LEMMA ControlledMayEnd ==
  ASSUME ExportInv, NEW w \in Workers, Controlled(w, clock), held[w] # Idle
  PROVE  /\ \A target \in {"failed", "quarantined", "retrying"} :
              \A at \in Nat : at <= clock => MayTransition(w, Job(w), target, at)
         /\ \A code : RetryWanted(w, code) => MayRetry(Job(w), clock, code)
         /\ jobs[Job(w)].state = "running"
<1> SUFFICES ASSUME NEW k, k = Job(w)
             PROVE  /\ \A target \in {"failed", "quarantined", "retrying"} :
                         \A at \in Nat : at <= clock => MayTransition(w, k, target, at)
                    /\ \A code : RetryWanted(w, code) => MayRetry(k, clock, code)
                    /\ jobs[k].state = "running" OBVIOUS
<1>1. /\ k \in Jobs /\ jobs[k] \in Row /\ clock \in Nat
      /\ jobs[k].state = "running" /\ jobs[k].lease_token = Token(w)
      /\ LeaseValid(jobs[k], Token(w), clock)
      /\ jobs[k].attempt = held[w].attempt /\ held[w].attempt \in Nat \ {0}
  BY Facts, OwnerIsCurrent DEF Controlled, Signalled, Job
<1>2. {"failed", "quarantined", "retrying"} \subseteq AllowedTransitions(jobs[k].state)
  BY <1>1 DEF AllowedTransitions
<1>3. ASSUME NEW at \in Nat, at <= clock PROVE LeaseValid(jobs[k], Token(w), at)
  BY <1>1, <1>3 DEF LeaseValid, Row, TimeOrNull
<1>4. ASSUME NEW code, RetryWanted(w, code) PROVE MayRetry(k, clock, code)
  <2>1. /\ jobs[k].attempt < JobSpec[k].max_attempts /\ jobs[k].attempt >= 1
        /\ code \in JobSpec[k].retryable_error_codes BY <1>1, <1>4 DEF RetryWanted
  <2>2. JobSpec[k].deadline_at = NULL BY <1>1, ExportAssumption
  <2> QED BY <2>1, <2>2 DEF MayRetry, AttemptsLeft, BeforeDeadline
<1> QED BY <1>1, <1>2, <1>3, <1>4 DEF MayTransition

\* An exception in a handler ends the supervisor only when the attempt was over
\* anyway: whatever the thread was told, it could still settle or retry an
\* attempt that it controls.
THEOREM SupervisorSurvival == ExportSpec => SupervisorSurvives
<1> DEFINE Survives == \A w \in Workers :
      phase[w] # "dead" /\ phase'[w] = "dead" => ~Controlled(w, clock)
<1>1. ExportInv /\ [ExportNext]_allVars => [Survives]_allVars
  <2> SUFFICES ASSUME ExportInv, [ExportNext]_allVars, NEW w \in Workers,
                      phase[w] # "dead", phase'[w] = "dead", Controlled(w, clock)
               PROVE  FALSE BY Zenon
  <2>1. ThreadStep(w)
    <3>1. ASSUME NEW v \in Workers, ThreadStep(v) PROVE v = w
      BY <3>1, ThreadGoes, Facts DEF Goes
    <3>2. ~NewHost BY DEF NewHost
    <3>3. ~Outside BY OutsideKeeps
    <3> QED BY <3>1, <3>2, <3>3, ExportCases
  <2>2. CASE phase[w] \in {"interrupted", "finishCancel"} BY <2>2 DEF ExportInv, Over
  <2>3. Placed(w) /\ clock \in Nat /\ w \in Callers /\ Waiting(w)
    BY Facts DEF ExportInv, Callers
  <2>4. held[w] # Idle
    <3>1. phase[w] \in Working BY <2>1, Dying DEF Working, Phases
    <3> QED BY <2>3, <3>1 DEF Placed
  <2>5. /\ \A target \in {"failed", "quarantined", "retrying"} :
              \A at \in Nat : at <= clock => MayTransition(w, Job(w), target, at)
        /\ \A code : RetryWanted(w, code) => MayRetry(Job(w), clock, code)
        /\ jobs[Job(w)].state = "running" /\ Job(w) \in Jobs
    BY <2>4, ControlledMayEnd, Facts DEF Job
  <2>6. CASE \E target \in {"failed", "quarantined"} :
               ~MayTransition(w, Job(w), target, clock) BY <2>3, <2>5, <2>6
  <2>7. ASSUME NEW code, RetryWanted(w, code),
               ~("retrying" \in AllowedTransitions(jobs[Job(w)].state)
                   /\ MayRetry(Job(w), clock, code))
        PROVE  FALSE BY <2>5, <2>7 DEF AllowedTransitions
  <2>8. CASE ScheduleRetryWrite(w) /\ jobs' = jobs
    <3>1. pending[w] # NoCall /\ pending[w].at \in Nat
      BY <2>3, <2>8, Facts DEF ScheduleRetryWrite, NoCall, Call
    <3>2. pending[w].job = Job(w) /\ pending[w].at <= clock
      BY <2>3, <3>1 DEF Waiting, Job
    <3>3. MayTransition(w, Job(w), "retrying", pending[w].at) BY <2>5, <3>1, <3>2
    <3>4. jobs'[Job(w)] = Released(jobs[Job(w)], "retrying", pending[w].until)
      BY <2>5, <2>8, <3>2, <3>3, Facts DEF ScheduleRetryWrite
    <3>5. jobs'[Job(w)].state = "retrying" BY <2>5, <3>4, Facts DEF Released, Row
    <3> QED BY <2>5, <2>8, <3>5
  <2> QED BY <2>1, <2>2, <2>6, <2>7, <2>8, Dying
<1> QED BY <1>1, ExportInvariant, PTL DEF ExportSpec, SupervisorSurvives

============================================================================
