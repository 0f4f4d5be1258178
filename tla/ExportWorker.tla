---------------------------- MODULE ExportWorker ----------------------------
(***************************************************************************)
(* The analytics export worker (AnalyticsExportWorker and                  *)
(* AnalyticsExportSupervisor in storage/export.py), composed with the job  *)
(* catalog.  run_once claims an export job, builds the bundle, stages two  *)
(* files, records one checkpoint and publishes.  Its exception handlers    *)
(* decide how an attempt ends; an exception in a handler ends the          *)
(* supervisor thread.  An export never renews its lease.                   *)
(*                                                                         *)
(* What the files go through is ArtifactStore's subject; here stage_bytes  *)
(* and publish are their control checks and may raise an I/O error.        *)
(***************************************************************************)
EXTENDS JobCatalog

CONSTANTS
  RowCount,    \* RowCount[j]: rows of the bundle that job j exports
  MaxHosts     \* bound: how many host processes run one after the other

\* AnalyticsExportQueue.enqueue gives an export no deadline, and the catalog
\* accepts its export ID as a recovery position.
ASSUME ExportAssumption ==
  /\ RowCount \in [Jobs -> Units] /\ MaxHosts \in Nat
  /\ \A j \in Jobs : JobSpec[j].deadline_at = NULL /\ 10 * j \in Positions

VARIABLES
  phase,   \* phase[w]: where the supervisor thread is in run_once
  now,     \* now[w]: the timestamp of the publication
  stop,    \* the stop event of the supervisor is set
  hosts    \* host processes started so far

exportVars == <<phase, now, stop, hosts>>
allVars == <<vars, exportVars>>

Phases == {"recover", "claim", "build", "check", "space", "stageData",
           "stageManifest", "save", "publish", "commit", "interrupted",
           "retry", "retryWrite", "rejected", "finishCancel", "quarantine",
           "return", "stopped", "dead"}

Job(w) == held[w].job
At(w, p) == phase[w] = p
Go(w, p) == phase' = [phase EXCEPT ![w] = p]
Keep == UNCHANGED <<now, stop, hosts>>

-----------------------------------------------------------------------------
(* The supervisor loop, recover and claim_next.                            *)

LoopEnds(w) ==
  /\ At(w, "recover") /\ stop
  /\ Go(w, "stopped") /\ Keep /\ UNCHANGED vars

Recover(w) ==
  /\ At(w, "recover") /\ ~stop
  /\ \/ ReclaimOrphans(clock)
     \/ Orphans(clock) = {} /\ UNCHANGED vars
  /\ Go(w, "claim") /\ Keep

Claim(w) ==
  /\ At(w, "claim")
  /\ \E j \in Jobs : ClaimNext(w, j, clock)
  /\ Go(w, "build") /\ Keep

\* Nothing to claim (or the bound on claims is reached).
ClaimNothing(w) ==
  /\ At(w, "claim")
  /\ clock > LastClaim \/ \A j \in Jobs : ~Eligible(w, j, clock)
  /\ Go(w, "recover") /\ Keep /\ UNCHANGED vars

-----------------------------------------------------------------------------
(* The body of the try statement.                                          *)

\* _cancel_requested: a signal to stop, for whatever reason, is raised as
\* InterruptedError; control_signal itself raises for a lost attempt.
Asked(w, next) == Go(w, IF Controlled(w, clock) THEN next
                        ELSE IF Signalled(w) THEN "interrupted"
                        ELSE "rejected")

\* The build asks during the scan and before it serializes, and the worker
\* asks once more.
BuildAsks(w) ==
  /\ At(w, "build")
  /\ Asked(w, "check") /\ Keep /\ UNCHANGED vars

\* The request or the bundle is refused, or a file cannot be read.
BuildRaises(w) ==
  /\ At(w, "build")
  /\ Go(w, "rejected") \/ Go(w, "retry")
  /\ Keep /\ UNCHANGED vars

Check(w) ==
  /\ At(w, "check")
  /\ Asked(w, "space") /\ Keep /\ UNCHANGED vars

EnsureFreeSpace(w) ==
  /\ At(w, "space")
  /\ Go(w, "stageData") \/ Go(w, "retry")
  /\ Keep /\ UNCHANGED vars

\* stage_bytes checks the signal itself; writing may fail.
StageFile(w, here, next) ==
  /\ At(w, here)
  /\ \/ Controlled(w, clock) /\ (Go(w, next) \/ Go(w, "retry"))
     \/ ~Controlled(w, clock) /\ Go(w, "rejected")
  /\ Keep /\ UNCHANGED vars

StageData(w) == StageFile(w, "stageData", "stageManifest")
StageManifest(w) == StageFile(w, "stageManifest", "save")

\* Mutant: every attempt has a position of its own.
ExportIdOfAttempt(w) == 10 * Job(w) + held[w].attempt

\* The export ID is a digest of the content, equal in every attempt.
ExportId(w) == 10 * Job(w)

\* One checkpoint per export; a later attempt finds it and goes on.
Save(w) ==
  LET n == RowCount[Job(w)]
      p == ExportId(w)
  IN  /\ At(w, "save")
      /\ \/ SaveCheckpoint(w, p, n, n, clock) /\ Go(w, "publish")
         \/ /\ ~MayCheckpoint(w, p, n, n, clock)
            /\ Go(w, IF CheckpointExists(w, p, n, n, clock)
                     THEN "publish" ELSE "rejected")
            /\ UNCHANGED vars
      /\ Keep

\* publish checks the signal, renames the files, which may fail, ...
Publish(w) ==
  /\ At(w, "publish")
  /\ \/ Controlled(w, clock) /\ (Go(w, "commit") \/ Go(w, "retry"))
     \/ ~Controlled(w, clock) /\ Go(w, "rejected")
  /\ now' = [now EXCEPT ![w] = clock]
  /\ UNCHANGED <<vars, stop, hosts>>

\* ... and commits with the `now` of the check.
Commit(w) ==
  /\ At(w, "commit")
  /\ \/ /\ \E set \in ArtifactSets : SucceedJob(w, set, now[w])
        /\ Go(w, "return")
     \/ ~MaySucceed(w, now[w]) /\ Go(w, "rejected") /\ UNCHANGED vars
  /\ Keep

-----------------------------------------------------------------------------
(* The exception handlers.                                                 *)

\* A transition inside a handler: when it is refused the thread ends.
End(w, target) ==
  /\ \/ Settle(w, Job(w), target, clock) /\ Go(w, "return")
     \/ /\ ~MayTransition(w, Job(w), target, clock)
        /\ Go(w, "dead") /\ UNCHANGED vars
  /\ Keep

FinishInterrupted(w) == At(w, "interrupted") /\ End(w, "cancelled")

\* Mutant: _retry_or_fail asks for a retry whatever the attempt.
RetryAlways(w, code) == code \in JobSpec[Job(w)].retryable_error_codes

\* _retry_or_fail decides by the claimed record and the policy.
RetryWanted(w, code) ==
  /\ held[w].attempt < JobSpec[Job(w)].max_attempts
  /\ code \in JobSpec[Job(w)].retryable_error_codes

IoErrors == {"disk_full", "transient_io"}

RetryRead(w) ==
  /\ At(w, "retry")
  /\ \E code \in IoErrors :
       /\ RetryWanted(w, code)
       /\ \/ ScheduleRetryRead(w, Job(w), clock, code) /\ Go(w, "retryWrite")
          \/ /\ ~("retrying" \in AllowedTransitions(jobs[Job(w)].state)
                  /\ MayRetry(Job(w), clock, code))
             /\ Go(w, "dead") /\ UNCHANGED vars
  /\ Keep

RetryWrite(w) ==
  /\ At(w, "retryWrite")
  /\ ScheduleRetryWrite(w)
  /\ Go(w, IF jobs' # jobs THEN "return" ELSE "dead")
  /\ Keep

RetryFails(w) ==
  /\ At(w, "retry")
  /\ \E code \in IoErrors : ~RetryWanted(w, code)
  /\ End(w, "failed")

\* _finish_active_cancel reads the row, the transition comes later.
Rejected(w) ==
  /\ At(w, "rejected")
  /\ Go(w, IF /\ jobs[Job(w)].state = "cancelling"
              /\ jobs[Job(w)].lease_token = Token(w)
           THEN "finishCancel" ELSE "quarantine")
  /\ Keep /\ UNCHANGED vars

FinishActiveCancel(w) == At(w, "finishCancel") /\ End(w, "cancelled")
Quarantine(w) == At(w, "quarantine") /\ End(w, "quarantined")

Return(w) ==
  /\ At(w, "return")
  /\ Abandon(w)
  /\ Go(w, "recover") /\ Keep

-----------------------------------------------------------------------------
(* The host, the bridge and the other worker.                              *)

CloseHost == ~stop /\ stop' = TRUE /\ UNCHANGED <<vars, phase, now, hosts>>

\* The host ends, cleanly or not, and a new one starts.
NewHost == /\ hosts < MaxHosts
           /\ hosts' = hosts + 1
           /\ phase' = [w \in Workers |-> "recover"]
           /\ held' = [w \in Workers |-> Idle]
           /\ pending' = [c \in Callers |-> NoCall]
           /\ stop' = FALSE
           /\ UNCHANGED <<now, jobs, checkpoints, clock>>

Enqueue(j) == CreateJob(j, clock) /\ UNCHANGED exportVars

\* job_cancel, and its second transaction for a job that never started.
JobCancel(b, j) == RequestCancel(b, j) /\ UNCHANGED exportVars
JobCancelFinish(b, j) == /\ jobs[j].attempt = 0
                         /\ FinishCancelled(b, j, clock)
                         /\ UNCHANGED exportVars

\* The search worker's recover.
ReclaimElsewhere == ReclaimOrphans(clock) /\ UNCHANGED exportVars
Time == Tick /\ UNCHANGED exportVars

-----------------------------------------------------------------------------
ExportInit == /\ Init
              /\ phase = [w \in Workers |-> "recover"]
              /\ now = [w \in Workers |-> 0]
              /\ stop = FALSE
              /\ hosts = 1

ThreadStep(w) ==
  \/ LoopEnds(w) \/ Recover(w) \/ Claim(w) \/ ClaimNothing(w)
  \/ BuildAsks(w) \/ BuildRaises(w) \/ Check(w) \/ EnsureFreeSpace(w)
  \/ StageData(w) \/ StageManifest(w) \/ Save(w) \/ Publish(w) \/ Commit(w)
  \/ FinishInterrupted(w) \/ RetryRead(w) \/ RetryWrite(w) \/ RetryFails(w)
  \/ Rejected(w) \/ FinishActiveCancel(w) \/ Quarantine(w) \/ Return(w)

ExportNext ==
  \/ \E w \in Workers : ThreadStep(w)
  \/ \E j \in Jobs : Enqueue(j) \/ \E b \in Operators :
                       JobCancel(b, j) \/ JobCancelFinish(b, j)
  \/ CloseHost \/ NewHost \/ ReclaimElsewhere \/ Time

ExportSpec == ExportInit /\ [][ExportNext]_allVars

\* Time passes and the search worker polls.  Nothing is assumed of the
\* export thread, which may be busy or dead.
ExportFairSpec ==
  ExportSpec /\ WF_allVars(Time) /\ WF_allVars(ReclaimElsewhere)

-----------------------------------------------------------------------------
(* Properties.                                                             *)

\* Every variable has its type.
ExportTypeOK == /\ TypeOK
                /\ phase \in [Workers -> Phases]
                /\ now \in [Workers -> Nat]
                /\ stop \in BOOLEAN
                /\ hosts \in Nat

\* An export records its content once, however many attempts it takes, and
\* succeeds only with that record: a repeated save_checkpoint of the same
\* export ID is accepted and adds nothing.
ExportRecordedOnce ==
  \A j \in Jobs :
    /\ Len(checkpoints[j]) <= 1
    /\ jobs[j].state = "succeeded" => jobs[j].recovery_position = 10 * j

\* An exception in a handler ends the supervisor only when the attempt was
\* over anyway: its lease or its time had run out, it was reclaimed or it was
\* cancelled.  I/O errors, refused bundles and an exhausted budget never do.
SupervisorSurvives ==
  [][\A w \in Workers :
       phase[w] # "dead" /\ phase'[w] = "dead" => ~Controlled(w, clock)]_allVars

\* A cancelled attempt reaches an end state, also when the cancel meets a
\* handler that raises and ends the thread, or a host that crashes.
CancelledAttemptSettles ==
  \A j \in Jobs :
    (jobs[j].state = "cancelling" /\ jobs[j].lease_token # NoLease)
      ~> jobs[j].state \in {"cancelled", "failed", "quarantined"}

\* Every variable has its type, and however many attempts an export takes its
\* content is recorded once and belongs to the job that succeeded.
ExportCorrect == ExportTypeOK /\ ExportRecordedOnce

\* A failure settles the job and not the thread: a cancelled attempt ends in a
\* settled job, and only an attempt that was over already ends the supervisor.
ExportSettles == SupervisorSurvives /\ CancelledAttemptSettles

============================================================================
