---------------------------- MODULE DesktopWorker ----------------------------
(***************************************************************************)
(* The desktop search worker (DesktopSearchWorker and                      *)
(* DesktopWorkerSupervisor in desktop/lifecycle.py) and the cancel request *)
(* of the desktop bridge, composed with the job catalog.  The supervisor   *)
(* thread repeats run_once: recover, claim a search or replay job, run it  *)
(* in a child process that it polls, publish.  A step is one catalog       *)
(* transaction or one change of the child, the host or the bridge.         *)
(*                                                                         *)
(* A catalog call that is refused raises; nothing in run_once catches it   *)
(* (but for the retry fallback), so it ends the supervisor thread.  What   *)
(* the files of a publication go through is ArtifactStore's subject; here  *)
(* stage_bytes and publish are their control checks.                       *)
(***************************************************************************)
EXTENDS JobCatalog

CONSTANTS
  Total,       \* Total[j]: max_nodes of a search, 1 for a replay
  FinalUnits,  \* FinalUnits[j]: progress a finished child of j may report
  MaxHosts     \* bound: how many host processes run one after the other

ASSUME WorkerAssumption ==
  /\ Total \in [Jobs -> Totals]
  /\ FinalUnits \in [Jobs -> SUBSET Units]
  /\ MaxHosts \in Nat

VARIABLES
  phase,   \* phase[w]: where the supervisor thread is in run_once
  child,   \* child[w]: the child process, or how it ended
  now,     \* now[w]: a timestamp run_once holds on to
  stop,    \* the stop event of the supervisor is set
  bridge,  \* bridge[b]: the queued job that job_cancel of b still finishes
  hosts    \* host processes started so far

workerVars == <<phase, child, now, stop, bridge, hosts>>
allVars == <<vars, workerVars>>

Phases == {"recover", "claim", "prepare", "launch", "poll", "hostStop",
           "cancelAck", "cancelFinish", "timeout", "exit", "retry",
           "retryWrite", "fail", "stage", "publish", "commit", "return",
           "stopped", "dead"}

Exits == {"ok", "invalid", "failed", "crashed"}

\* Recovery positions <kind>:attempt:<n>:<label>.
Position(w, label) == 10 * held[w].attempt + label
Claimed == 1
HostStop == 2
Cancelled == 3
Complete == 4

\* The catalog accepts the positions of every attempt a job may have.
ASSUME PositionAssumption ==
  \A j \in Jobs : \A attempt \in 1 .. JobSpec[j].max_attempts :
    \A label \in {Claimed, HostStop, Cancelled, Complete} :
      10 * attempt + label \in Positions

Job(w) == held[w].job

At(w, p) == phase[w] = p
Go(w, p) == phase' = [phase EXCEPT ![w] = p]
Keep == UNCHANGED <<child, now, stop, bridge, hosts>>

\* A catalog call: it happens and run_once goes on, or it raises.
Do(w, call, allowed, next) ==
  \/ call /\ Go(w, next)
  \/ ~allowed /\ Go(w, "dead") /\ UNCHANGED vars

Save(w, label, completed, next) ==
  LET p == Position(w, label)
      t == Total[Job(w)]
  IN  Do(w, SaveCheckpoint(w, p, completed, t, clock),
            MayCheckpoint(w, p, completed, t, clock), next)

End(w, target, next) ==
  Do(w, Settle(w, Job(w), target, clock),
        MayTransition(w, Job(w), target, clock), next)

-----------------------------------------------------------------------------
(* The supervisor loop, recover and claim_next.                            *)

\* Mutant: the stop event is not looked at between two rounds.
StopIgnored == FALSE

StopRequested == stop

LoopEnds(w) ==
  /\ At(w, "recover") /\ StopRequested
  /\ Go(w, "stopped") /\ Keep /\ UNCHANGED vars

Recover(w) ==
  /\ At(w, "recover") /\ ~StopRequested
  /\ \/ ReclaimOrphans(clock)
     \/ Orphans(clock) = {} /\ UNCHANGED vars
  /\ Go(w, "claim") /\ Keep

Claim(w) ==
  /\ At(w, "claim")
  /\ \E j \in Jobs : ClaimNext(w, j, clock)
  /\ Go(w, "prepare") /\ Keep

\* Nothing to claim (or the bound on claims is reached).
ClaimNothing(w) ==
  /\ At(w, "claim")
  /\ clock > LastClaim \/ \A j \in Jobs : ~Eligible(w, j, clock)
  /\ Go(w, "recover") /\ Keep /\ UNCHANGED vars

-----------------------------------------------------------------------------
(* _run_search and _run_replay_verification.                               *)

\* The Experiment or the source Route is missing or does not match.
InputsInvalid(w) ==
  /\ At(w, "prepare")
  /\ End(w, "quarantined", "return") /\ Keep

\* A search resumes the progress of the latest checkpoint, a replay starts
\* from zero.
ResumedUnits(j) ==
  IF JobSpec[j].kind = "search" /\ checkpoints[j] # <<>>
  THEN checkpoints[j][Len(checkpoints[j])].completed_units ELSE 0

SaveClaimed(w) ==
  /\ At(w, "prepare")
  /\ Save(w, Claimed, ResumedUnits(Job(w)), "launch") /\ Keep

Launch(w) ==
  /\ At(w, "launch")
  /\ Go(w, "poll")
  /\ child' = [child EXCEPT ![w] = "running"]
  /\ UNCHANGED <<vars, now, stop, bridge, hosts>>

LaunchFails(w) ==
  /\ At(w, "launch")
  /\ Go(w, "retry") /\ Keep /\ UNCHANGED vars

\* The child ends by itself.
ChildExits(w) ==
  /\ child[w] = "running"
  /\ \E how \in Exits : child' = [child EXCEPT ![w] = how]
  /\ UNCHANGED <<vars, phase, now, stop, bridge, hosts>>

\* The poll loop; every way out of it but the child's own end terminates the
\* process tree.
Polling(w) == At(w, "poll") /\ Ready(w) /\ child[w] = "running"

\* Mutant: the tree is left to the finally clause, after the transition.
LeftRunning(w) == UNCHANGED child

Terminated(w) == child' = [child EXCEPT ![w] = "none"]

PollStop(w) ==
  /\ Polling(w) /\ StopRequested
  /\ Terminated(w) /\ Go(w, "hostStop")
  /\ UNCHANGED <<vars, now, stop, bridge, hosts>>

\* control_signal raises when the attempt is no longer the worker's.
PollLost(w) ==
  /\ Polling(w) /\ ~StopRequested /\ ~Signalled(w)
  /\ Terminated(w) /\ Go(w, "dead")
  /\ UNCHANGED <<vars, now, stop, bridge, hosts>>

PollCancel(w) ==
  /\ Polling(w) /\ ~StopRequested /\ Signalled(w)
  /\ jobs[Job(w)].state = "cancelling"
  /\ Terminated(w) /\ Go(w, "cancelAck")
  /\ UNCHANGED <<vars, now, stop, bridge, hosts>>

\* The timestamp of the check is the one recover_timed_out_attempt gets.
PollTimeout(w) ==
  /\ Polling(w) /\ ~StopRequested /\ Signalled(w)
  /\ jobs[Job(w)].state # "cancelling" /\ TimedOut(w, clock)
  /\ Terminated(w) /\ Go(w, "timeout")
  /\ now' = [now EXCEPT ![w] = clock]
  /\ UNCHANGED <<vars, stop, bridge, hosts>>

\* A heartbeat is due; one that is refused raises and the finally clause
\* terminates the tree.
PollHeartbeat(w) ==
  /\ Polling(w) /\ ~StopRequested /\ Signalled(w)
  /\ jobs[Job(w)].state # "cancelling" /\ ~TimedOut(w, clock)
  /\ \/ HeartbeatRead(w, clock) /\ UNCHANGED <<phase, child>>
     \/ /\ ~MayHeartbeat(w, clock)
        /\ Terminated(w) /\ Go(w, "dead")
        /\ UNCHANGED vars
  /\ UNCHANGED <<now, stop, bridge, hosts>>

PollHeartbeatWrite(w) ==
  /\ At(w, "poll")
  /\ HeartbeatWrite(w)
  /\ UNCHANGED workerVars

PollExit(w) ==
  /\ At(w, "poll") /\ Ready(w) /\ child[w] \in Exits
  /\ Go(w, "exit") /\ Keep /\ UNCHANGED vars

\* The checkpoints of an interrupted attempt report no progress.
SaveHostStop(w) ==
  At(w, "hostStop") /\ Save(w, HostStop, 0, "retry") /\ Keep

SaveCancelled(w) ==
  At(w, "cancelAck") /\ Save(w, Cancelled, 0, "cancelFinish") /\ Keep

FinishCancel(w) ==
  At(w, "cancelFinish") /\ End(w, "cancelled", "return") /\ Keep

RecoverTimeout(w) ==
  /\ At(w, "timeout")
  /\ Do(w, RecoverTimedOutAttempt(w, Job(w), now[w]), Signalled(w), "return")
  /\ Keep

\* _retry_or_fail: a refused transition falls back to fail_job, a refused
\* lease raises.
RetryRead(w) ==
  /\ At(w, "retry")
  /\ \/ /\ ScheduleRetryRead(w, Job(w), clock, "worker_crash")
        /\ Go(w, "retryWrite")
     \/ /\ ~("retrying" \in AllowedTransitions(jobs[Job(w)].state)
             /\ MayRetry(Job(w), clock, "worker_crash"))
        /\ Go(w, "fail") /\ UNCHANGED vars
  /\ Keep

RetryWrite(w) ==
  /\ At(w, "retryWrite")
  /\ ScheduleRetryWrite(w)
  /\ Go(w, IF jobs' # jobs THEN "return"
           ELSE IF "retrying" \notin AllowedTransitions(jobs[Job(w)].state)
                THEN "fail" ELSE "dead")
  /\ Keep

RetryFails(w) == At(w, "fail") /\ End(w, "failed", "return") /\ Keep

\* The exit code, the search report and the validator decide.
ExitFailed(w) ==
  /\ At(w, "exit")
  /\ \/ child[w] = "failed"
     \/ child[w] = "crashed" /\ JobSpec[Job(w)].kind = "replay"
  /\ End(w, "failed", "return") /\ Keep

ExitCrashed(w) ==
  /\ At(w, "exit") /\ child[w] = "crashed" /\ JobSpec[Job(w)].kind = "search"
  /\ Go(w, "retry") /\ Keep /\ UNCHANGED vars

ExitInvalid(w) ==
  /\ At(w, "exit") /\ child[w] = "invalid"
  /\ End(w, "quarantined", "return") /\ Keep

\* Mutant: an attempt is published without its completion checkpoint.
ExitOkUnsaved(w) ==
  At(w, "exit") /\ child[w] = "ok" /\ Go(w, "stage") /\ Keep /\ UNCHANGED vars

ExitOk(w) ==
  /\ At(w, "exit") /\ child[w] = "ok"
  /\ \E n \in FinalUnits[Job(w)] : Save(w, Complete, n, "stage")
  /\ Keep

Stage(w) ==
  /\ At(w, "stage")
  /\ Go(w, IF Controlled(w, clock) THEN "publish" ELSE "dead")
  /\ Keep /\ UNCHANGED vars

Publish(w) ==
  /\ At(w, "publish")
  /\ Go(w, IF Controlled(w, clock) THEN "commit" ELSE "dead")
  /\ now' = [now EXCEPT ![w] = clock]
  /\ UNCHANGED <<vars, child, stop, bridge, hosts>>

Commit(w) ==
  /\ At(w, "commit")
  /\ \E set \in ArtifactSets :
       Do(w, SucceedJob(w, set, now[w]), MaySucceed(w, now[w]), "return")
  /\ Keep

Return(w) ==
  /\ At(w, "return")
  /\ Abandon(w)
  /\ Go(w, "recover")
  /\ Terminated(w)
  /\ UNCHANGED <<now, stop, bridge, hosts>>

-----------------------------------------------------------------------------
(* The host and the bridge.                                                *)

\* The window is closed: the supervisor's stop event is set.
CloseHost == /\ ~stop
             /\ stop' = TRUE
             /\ UNCHANGED <<vars, phase, child, now, bridge, hosts>>

\* The host process ends, after a clean stop or by a crash at any moment, and
\* a new one starts.  The child is contained in a job object and dies with
\* it.  held, pending and bridge are memory of the host.
NewHost == /\ hosts < MaxHosts
           /\ hosts' = hosts + 1
           /\ phase' = [w \in Workers |-> "recover"]
           /\ child' = [w \in Workers |-> "none"]
           /\ bridge' = [b \in Operators |-> 0]
           /\ held' = [w \in Workers |-> Idle]
           /\ pending' = [c \in Callers |-> NoCall]
           /\ stop' = FALSE
           /\ UNCHANGED <<now, jobs, checkpoints, clock>>

\* job_cancel: request_cancel, and for a job that was never claimed ...
JobCancel(b, j) ==
  /\ bridge[b] = 0
  /\ RequestCancel(b, j)
  /\ bridge' = [bridge EXCEPT ![b] =
       IF jobs[j].state = "queued" /\ jobs[j].attempt = 0 THEN j ELSE 0]
  /\ UNCHANGED <<phase, child, now, stop, hosts>>

\* ... finish_cancelled in a second transaction.
JobCancelFinish(b) ==
  /\ bridge[b] # 0
  /\ \/ FinishCancelled(b, bridge[b], clock)
     \/ ~MayTransition(b, bridge[b], "cancelled", clock) /\ UNCHANGED vars
  /\ bridge' = [bridge EXCEPT ![b] = 0]
  /\ UNCHANGED <<phase, child, now, stop, hosts>>

\* The bridge enqueues a search ...
EnqueueSearch(j) == /\ JobSpec[j].kind = "search"
                    /\ CreateJob(j, clock)
                    /\ UNCHANGED workerVars

\* ... and the replay of a search that has succeeded.
EnqueueReplay(j) == /\ JobSpec[j].kind = "replay"
                    /\ DependenciesSucceeded(j)
                    /\ CreateJob(j, clock)
                    /\ UNCHANGED workerVars

\* The export worker's recover reclaims, time passes.
ReclaimElsewhere == ReclaimOrphans(clock) /\ UNCHANGED workerVars
Time == Tick /\ UNCHANGED workerVars

-----------------------------------------------------------------------------
WorkerInit == /\ Init
              /\ phase = [w \in Workers |-> "recover"]
              /\ child = [w \in Workers |-> "none"]
              /\ now = [w \in Workers |-> 0]
              /\ stop = FALSE
              /\ bridge = [b \in Operators |-> 0]
              /\ hosts = 1

\* Steps the supervisor thread takes by itself.
ThreadStep(w) ==
  \/ LoopEnds(w) \/ Recover(w) \/ Claim(w) \/ ClaimNothing(w)
  \/ InputsInvalid(w) \/ SaveClaimed(w) \/ Launch(w) \/ LaunchFails(w)
  \/ PollStop(w) \/ PollLost(w) \/ PollCancel(w) \/ PollTimeout(w)
  \/ PollHeartbeatWrite(w) \/ PollExit(w)
  \/ SaveHostStop(w) \/ SaveCancelled(w) \/ FinishCancel(w)
  \/ RecoverTimeout(w) \/ RetryRead(w) \/ RetryWrite(w) \/ RetryFails(w)
  \/ ExitFailed(w) \/ ExitCrashed(w) \/ ExitInvalid(w) \/ ExitOk(w)
  \/ Stage(w) \/ Publish(w) \/ Commit(w) \/ Return(w)

WorkerNext ==
  \/ \E w \in Workers : ThreadStep(w) \/ PollHeartbeat(w) \/ ChildExits(w)
  \/ \E b \in Operators : JobCancelFinish(b) \/ \E j \in Jobs : JobCancel(b, j)
  \/ \E j \in Jobs : EnqueueSearch(j) \/ EnqueueReplay(j)
  \/ CloseHost \/ NewHost \/ ReclaimElsewhere \/ Time

WorkerSpec == WorkerInit /\ [][WorkerNext]_allVars

\* A live thread goes on, the export worker polls, the bridge finishes its
\* call and time passes.  No child needs to end, no host needs to close.
WorkerFairSpec ==
  /\ WorkerSpec
  /\ WF_allVars(Time) /\ WF_allVars(ReclaimElsewhere)
  /\ \A w \in Workers : WF_allVars(ThreadStep(w))
  /\ \A b \in Operators : WF_allVars(JobCancelFinish(b))

-----------------------------------------------------------------------------
(* Properties.                                                             *)

\* Every variable has its type.
WorkerTypeOK == /\ TypeOK
                /\ phase \in [Workers -> Phases]
                /\ child \in [Workers -> {"none", "running"} \union Exits]
                /\ now \in [Workers -> Nat]
                /\ stop \in BOOLEAN
                /\ bridge \in [Operators -> Jobs \union {0}]
                /\ hosts \in Nat

\* "Crash, timeout, host stop, invalid output, and cancellation terminate the
\* process tree before the job transition is committed": the worker never
\* moves its job out of the attempt while the child of that attempt runs.
TreeDownBeforeTransition ==
  [][\A w \in Workers :
       child[w] = "running" /\ phase'[w] # phase[w] =>
         jobs'[Job(w)].state = jobs[Job(w)].state]_allVars

\* A job succeeds only after its last attempt recorded completion, and that
\* record is the newest: no checkpoint of a stopped or stale attempt follows.
SuccessIsComplete ==
  \A j \in Jobs : jobs[j].state = "succeeded" =>
    /\ checkpoints[j] # <<>>
    /\ jobs[j].recovery_position = 10 * jobs[j].attempt + Complete

\* A child that never ends is ended: heartbeats stop at the attempt deadline
\* and the poll loop terminates the tree there, or the lease is lost.
ChildEnds == \A w \in Workers : child[w] = "running" ~> child[w] # "running"

\* stop() returns: once the stop event is set the thread leaves its loop,
\* whatever the job, the child and the lease are doing.
StopTerminates ==
  \A w \in Workers : stop ~> ~stop \/ phase[w] \in {"stopped", "dead"}

\* "user cancel | `cancelled`": a cancelled job ends up cancelled.
CancelSettles ==
  \A j \in Jobs : jobs[j].state = "cancelling" ~> jobs[j].state = "cancelled"

\* One checkpoint log is shared by all attempts of a job: it only grows, and a
\* job that succeeded ends it with the completion of its own last attempt.
WorkerCorrect == WorkerTypeOK /\ CheckpointOrder /\ SuccessIsComplete

\* Nothing runs for ever: neither a child that never exits nor a supervisor
\* that was asked to stop.
SupervisorEnds == ChildEnds /\ StopTerminates

============================================================================
