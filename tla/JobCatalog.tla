----------------------------- MODULE JobCatalog -----------------------------
(***************************************************************************)
(* The durable job catalog (JobCatalog in storage/jobs.py): a SQLite table *)
(* of jobs shared by the desktop search worker, the analytics export       *)
(* worker, the desktop bridge and the recovery supervisor, each on its own *)
(* connection.  An action is one catalog call.  Calls that open with BEGIN *)
(* IMMEDIATE are one atomic step.  heartbeat and schedule_retry read in    *)
(* one transaction and write in a later one, so each is two steps and any  *)
(* other call may land between them.                                       *)
(*                                                                         *)
(* A call that raises changes nothing and is not an action.  Columns that  *)
(* no guard reads (updated_at, heartbeat_at, error code and message) and   *)
(* the append-only transition log are left out.  Times are whole seconds.  *)
(***************************************************************************)
EXTENDS Integers, Sequences, FiniteSets, JobStates

CONSTANTS
  Jobs,          \* job identifiers; their order is the order of job_id
  JobSpec,       \* JobSpec[j]: the immutable specification of job j
  Workers,       \* processes that claim jobs and hold lease tokens
  Operators,     \* callers that hold no token (bridge, supervisor, CLI)
  Accepts,       \* Accepts[w]: the job kinds worker w passes to claim_next
  LeaseSeconds,  \* lease length passed to claim_next and heartbeat
  ArtifactSets,  \* identities of the artifact sets a worker may commit
  Positions,     \* recovery positions a worker may checkpoint
  Units,         \* completed_units values a worker may checkpoint
  Totals,        \* total_units values a worker may checkpoint (NULL: unknown)
  MaxClock,      \* bound: the clock stops here
  MaxLag,        \* bound: how old a caller's `now` may be when its
                 \* transaction starts (it is sampled before the lock wait)
  LastClaim      \* bound: no claim is stamped later than this

NULL == -1

Callers == Workers \union Operators

JobSpecType ==
  [idempotency_key : STRING, kind : STRING, priority : Int,
   max_attempts : Nat \ {0}, dependency_ids : SUBSET Jobs,
   deadline_at : Nat \union {NULL}, attempt_timeout : Nat \ {0},
   initial_backoff : Nat, backoff_multiplier : Nat \ {0}, max_backoff : Nat,
   retryable_error_codes : SUBSET STRING]

ASSUME JobsAssumption == Jobs \subseteq Nat \ {0}
ASSUME SpecAssumption == JobSpec \in [Jobs -> JobSpecType]
ASSUME CallerAssumption == Workers \cap Operators = {} /\ NULL \notin Workers
ASSUME LeaseAssumption == LeaseSeconds \in Nat \ {0}
ASSUME CheckpointAssumption ==
  /\ Positions \subseteq Nat
  /\ Units \subseteq Nat
  /\ Totals \subseteq Nat \union {NULL}
ASSUME ArtifactAssumption == ArtifactSets \subseteq Nat
ASSUME BoundAssumption ==
  MaxClock \in Nat /\ MaxLag \in Nat /\ LastClaim \in Nat

VARIABLES
  jobs,         \* jobs[j]: the row of job j
  checkpoints,  \* checkpoints[j]: its job_checkpoints rows by sequence
  held,         \* held[w]: the job and attempt worker w believes it owns
  pending,      \* pending[c]: the second half of a two-step call of c
  clock

vars == <<jobs, checkpoints, held, pending, clock>>

-----------------------------------------------------------------------------
(* Rows, lease tokens and pending calls.                                   *)

\* A lease token digests attempt and owner (and job and time), so tokens of
\* different attempts or owners of a job differ.
NoLease == [attempt |-> 0, owner |-> NULL]
Lease == [attempt : Nat \ {0}, owner : Workers]

TimeOrNull == Nat \union {NULL}

Row == [state : RowState, attempt : Nat, created_at : Nat,
        lease_token : Lease \union {NoLease}, lease_expires_at : TimeOrNull,
        attempt_deadline_at : TimeOrNull, retry_not_before_at : TimeOrNull,
        recovery_position : Positions \union {NULL},
        artifact_set_id : ArtifactSets \union {NULL}]

AbsentRow == [state |-> "absent", attempt |-> 0, created_at |-> 0,
              lease_token |-> NoLease, lease_expires_at |-> NULL,
              attempt_deadline_at |-> NULL, retry_not_before_at |-> NULL,
              recovery_position |-> NULL, artifact_set_id |-> NULL]

Checkpoint == [attempt : Nat \ {0}, recovery_position : Positions,
               completed_units : Nat, total_units : Nat \union {NULL}]

Idle == [job |-> 0, attempt |-> 0]
Holding == [job : Jobs, attempt : Nat \ {0}] \union {Idle}

NoCall == [op |-> "none", job |-> 0, at |-> 0, until |-> 0]
Call == [op : {"heartbeat", "retry"}, job : Jobs, at : Nat, until : Nat]
          \union {NoCall}

\* The token a caller passes: a worker's own, or none.
Token(c) == IF c \in Workers /\ held[c] # Idle
            THEN [attempt |-> held[c].attempt, owner |-> c] ELSE NoLease

\* The jobs a caller names: a worker only the one it claimed.
Named(c) == IF c \in Workers THEN {held[c].job} \ {Idle.job} ELSE Jobs

\* The caller is between two calls.
Ready(c) == pending[c] = NoCall

\* The values `now` can have in a transaction that starts at this moment.
Stamps == {t \in 0 .. clock : t + MaxLag >= clock}

-----------------------------------------------------------------------------
(* Guards and row updates shared by the calls.                             *)

\* Mutant: the deadline itself still counts as early enough.
UntilDeadline(j, t) ==
  JobSpec[j].deadline_at = NULL \/ t <= JobSpec[j].deadline_at

BeforeDeadline(j, t) ==
  JobSpec[j].deadline_at = NULL \/ t < JobSpec[j].deadline_at

\* Mutant: any token passes while the lease has time left.
LeaseUnexpired(row, token, at) ==
  row.lease_expires_at # NULL /\ at < row.lease_expires_at

\* _assert_lease
LeaseValid(row, token, at) ==
  /\ row.lease_token = token
  /\ row.lease_expires_at # NULL
  /\ at < row.lease_expires_at

\* JobRetryPolicy.backoff_after
BackoffAfter(j, attempt) ==
  LET policy == JobSpec[j]
      value == policy.initial_backoff
                 * (policy.backoff_multiplier ^ (attempt - 1))
  IN  IF value \in 0 .. policy.max_backoff THEN value ELSE policy.max_backoff

\* Mutant: the budget is off by one.
AttemptsLeftOffByOne(j) == jobs[j].attempt <= JobSpec[j].max_attempts

AttemptsLeft(j) == jobs[j].attempt < JobSpec[j].max_attempts

\* The conditions under which a failed attempt may be retried: attempts
\* left, a retryable code, and a backoff that ends before the deadline.
\* backoff_after refuses a job that never started.
MayRetry(j, at, code) ==
  /\ AttemptsLeft(j)
  /\ jobs[j].attempt >= 1
  /\ code \in JobSpec[j].retryable_error_codes
  /\ BeforeDeadline(j, at + BackoffAfter(j, jobs[j].attempt))

\* Mutants: the token survives the attempt; only its owner is cleared.
ReleasedKeepsToken(row, target, until) ==
  [row EXCEPT !.state = target, !.lease_expires_at = NULL,
              !.attempt_deadline_at = NULL, !.retry_not_before_at = until]
ReleasedClearsOwner(row, target, until) ==
  [row EXCEPT !.state = target, !.lease_token.owner = NULL,
              !.lease_expires_at = NULL, !.attempt_deadline_at = NULL,
              !.retry_not_before_at = until]

\* Leaving an attempt: the lease columns and the attempt deadline are
\* cleared, retry_not_before_at is overwritten.
Released(row, target, until) ==
  [row EXCEPT !.state = target, !.lease_token = NoLease,
              !.lease_expires_at = NULL, !.attempt_deadline_at = NULL,
              !.retry_not_before_at = until]

\* Mutant: a pending cancellation is forgotten.
RecoveredWithoutCancel(j, at, code) ==
  IF MayRetry(j, at, code)
    THEN Released(jobs[j], "retrying", at + BackoffAfter(j, jobs[j].attempt))
    ELSE Released(jobs[j], "failed", NULL)

\* The row reclaim_orphans and recover_timed_out_attempt leave behind.  A
\* passed deadline needs no case of its own: it fails MayRetry.
Recovered(j, at, code) ==
  IF jobs[j].state = "cancelling"
    THEN Released(jobs[j], "cancelled", NULL)
    ELSE IF MayRetry(j, at, code)
           THEN Released(jobs[j], "retrying",
                         at + BackoffAfter(j, jobs[j].attempt))
           ELSE Released(jobs[j], "failed", NULL)

\* _simple_transition: the row's token, when it has one, must be presented
\* and unexpired; a row without a token accepts any caller.
MayTransition(c, j, target, at) ==
  /\ target \in AllowedTransitions(jobs[j].state)
  /\ jobs[j].lease_token # NoLease => LeaseValid(jobs[j], Token(c), at)

Reached(t, at) == t # NULL /\ at >= t

-----------------------------------------------------------------------------
(* The calls.                                                              *)

\* create_job.  A second call with the same specification returns the row;
\* a key that belongs to another specification is refused.
CreateJob(j, at) ==
  /\ jobs[j].state = "absent"
  /\ \A k \in Jobs : jobs[k].state # "absent" =>
       JobSpec[k].idempotency_key # JobSpec[j].idempotency_key
  /\ \A d \in JobSpec[j].dependency_ids : jobs[d].state # "absent"
  /\ jobs' = [jobs EXCEPT ![j] = [@ EXCEPT !.state = "queued",
                                            !.created_at = at]]
  /\ UNCHANGED <<checkpoints, held, pending, clock>>

\* Mutant: a dependency only has to have started.
DependenciesStarted(j) ==
  \A d \in JobSpec[j].dependency_ids : jobs[d].state \notin PendingStates

DependenciesSucceeded(j) ==
  \A d \in JobSpec[j].dependency_ids : jobs[d].state = "succeeded"

\* The WHERE clause of claim_next (NULL precedes every time).
Eligible(w, j, at) ==
  /\ jobs[j].state \in PendingStates
  /\ JobSpec[j].kind \in Accepts[w]
  /\ AttemptsLeft(j)
  /\ BeforeDeadline(j, at)
  /\ jobs[j].retry_not_before_at <= at
  /\ DependenciesSucceeded(j)

\* Its ORDER BY clause.
ClaimedBefore(j, k) ==
  \/ JobSpec[j].priority > JobSpec[k].priority
  \/ /\ JobSpec[j].priority = JobSpec[k].priority
     /\ \/ jobs[j].created_at < jobs[k].created_at
        \/ jobs[j].created_at = jobs[k].created_at /\ j <= k

\* Mutant: a retry continues the attempt it replaces.
SameAttempt(j) == IF jobs[j].state = "retrying" THEN jobs[j].attempt
                  ELSE jobs[j].attempt + 1

NextAttempt(j) == jobs[j].attempt + 1

\* Mutant: the attempt deadline is never stored.
NoAttemptDeadline(j, at) == NULL

\* The attempt deadline is the attempt timeout, cut off at the job deadline.
AttemptDeadline(j, at) ==
  LET limit == at + JobSpec[j].attempt_timeout
  IN  IF BeforeDeadline(j, limit) THEN limit ELSE JobSpec[j].deadline_at

ClaimNext(w, j, at) ==
  /\ Ready(w) /\ held[w] = Idle
  /\ at <= LastClaim
  /\ Eligible(w, j, at)
  /\ \A k \in Jobs : Eligible(w, k, at) => ClaimedBefore(j, k)
  /\ jobs' = [jobs EXCEPT ![j] =
       [@ EXCEPT !.state = "running",
                 !.attempt = NextAttempt(j),
                 !.lease_token = [attempt |-> NextAttempt(j), owner |-> w],
                 !.lease_expires_at = at + LeaseSeconds,
                 !.attempt_deadline_at = AttemptDeadline(j, at),
                 !.retry_not_before_at = NULL]]
  /\ held' = [held EXCEPT ![w] = [job |-> j, attempt |-> NextAttempt(j)]]
  /\ UNCHANGED <<checkpoints, pending, clock>>

\* Mutant: the lease is extended from its old end instead of from now.
ExtendedFromEnd(row, at) == row.lease_expires_at + LeaseSeconds

\* The renewed lease, cut off at the attempt deadline.
Extended(row, at) ==
  IF Reached(row.attempt_deadline_at, at + LeaseSeconds)
  THEN row.attempt_deadline_at ELSE at + LeaseSeconds

MayHeartbeat(w, at) ==
  LET row == jobs[held[w].job]
  IN  /\ Ready(w) /\ held[w] # Idle
      /\ LeaseValid(row, Token(w), at)
      /\ row.state \in ActiveStates
      /\ ~Reached(row.attempt_deadline_at, at)

\* heartbeat: the SELECT and the checks run in autocommit mode ...
HeartbeatRead(w, at) ==
  /\ MayHeartbeat(w, at)
  /\ pending' = [pending EXCEPT ![w] =
       [op |-> "heartbeat", job |-> held[w].job, at |-> at,
        until |-> Extended(jobs[held[w].job], at)]]
  /\ UNCHANGED <<jobs, checkpoints, held, clock>>

\* ... and the UPDATE that follows names the job only, not the token.
HeartbeatWrite(w) ==
  /\ pending[w].op = "heartbeat"
  /\ jobs' = [jobs EXCEPT ![pending[w].job] =
                [@ EXCEPT !.lease_expires_at = pending[w].until]]
  /\ pending' = [pending EXCEPT ![w] = NoCall]
  /\ UNCHANGED <<checkpoints, held, clock>>

\* schedule_retry: the budget, the policy and the deadline are checked
\* against a record read by get_job ...
ScheduleRetryRead(c, j, at, code) ==
  /\ Ready(c) /\ j \in Named(c)
  /\ "retrying" \in AllowedTransitions(jobs[j].state)
  /\ MayRetry(j, at, code)
  /\ pending' = [pending EXCEPT ![c] =
       [op |-> "retry", job |-> j, at |-> at,
        until |-> at + BackoffAfter(j, jobs[j].attempt)]]
  /\ UNCHANGED <<jobs, checkpoints, held, clock>>

\* ... and the transition is a second transaction.  When the row no longer
\* admits it the call raises and only the caller's own progress changes.
ScheduleRetryWrite(c) ==
  LET call == pending[c]
      j == call.job
  IN  /\ call.op = "retry"
      /\ jobs' = IF MayTransition(c, j, "retrying", call.at)
                 THEN [jobs EXCEPT
                         ![j] = Released(jobs[j], "retrying", call.until)]
                 ELSE jobs
      /\ pending' = [pending EXCEPT ![c] = NoCall]
      /\ UNCHANGED <<checkpoints, held, clock>>

\* fail_job, quarantine_job and finish_cancelled.
Settle(c, j, target, at) ==
  /\ Ready(c) /\ j \in Named(c)
  /\ MayTransition(c, j, target, at)
  /\ jobs' = [jobs EXCEPT ![j] = Released(jobs[j], target, NULL)]
  /\ UNCHANGED <<checkpoints, held, pending, clock>>

FailJob(c, j, at) == Settle(c, j, "failed", at)
QuarantineJob(c, j, at) == Settle(c, j, "quarantined", at)
FinishCancelled(c, j, at) == Settle(c, j, "cancelled", at)

\* request_cancel needs no token and keeps the lease columns.
RequestCancel(c, j) ==
  /\ Ready(c) /\ j \in Named(c)
  /\ "cancelling" \in AllowedTransitions(jobs[j].state)
  /\ jobs' = [jobs EXCEPT ![j] = [@ EXCEPT !.state = "cancelling",
                                            !.retry_not_before_at = NULL]]
  /\ UNCHANGED <<checkpoints, held, pending, clock>>

\* control_signal returns: the token is the row's and an attempt is active.
Signalled(w) == /\ jobs[held[w].job].lease_token = Token(w)
                /\ jobs[held[w].job].state \in ActiveStates

\* JobControlSignal: the attempt has used up its time.
TimedOut(w, at) == \/ Reached(jobs[held[w].job].attempt_deadline_at, at)
                   \/ Reached(JobSpec[held[w].job].deadline_at, at)

\* The publisher goes on: the signal arrives and its should_stop is false.
Controlled(w, at) == /\ Signalled(w)
                     /\ jobs[held[w].job].state = "running"
                     /\ LeaseValid(jobs[held[w].job], Token(w), at)
                     /\ ~TimedOut(w, at)

MaySucceed(w, at) ==
  LET row == jobs[held[w].job]
  IN  /\ Ready(w) /\ held[w] # Idle
      /\ "succeeded" \in AllowedTransitions(row.state)
      /\ LeaseValid(row, Token(w), at)

\* succeed_job: the state and the non-empty artifact set commit together.  A
\* repeated commit of the same set returns the row unchanged.
SucceedJob(w, set, at) ==
  /\ MaySucceed(w, at)
  /\ jobs' = [jobs EXCEPT
       ![held[w].job] = [Released(@, "succeeded", NULL)
                           EXCEPT !.artifact_set_id = set]]
  /\ UNCHANGED <<checkpoints, held, pending, clock>>

\* Progress may not fall and a known total may not change.
FollowsLatest(log, completed, total) ==
  Len(log) > 0 => /\ completed >= log[Len(log)].completed_units
                  /\ log[Len(log)].total_units \in {NULL, total}

\* A position that already has a checkpoint is accepted without a change
\* when the content is equal and refused otherwise.
MayCheckpoint(w, position, completed, total, at) ==
  LET j == held[w].job
      log == checkpoints[j]
  IN  /\ Ready(w) /\ held[w] # Idle
      /\ LeaseValid(jobs[j], Token(w), at)
      /\ jobs[j].state \in ActiveStates
      /\ total = NULL \/ completed <= total
      /\ \A i \in 1 .. Len(log) : log[i].recovery_position # position
      /\ FollowsLatest(log, completed, total)

\* The call returns the checkpoint that this position already has.
CheckpointExists(w, position, completed, total, at) ==
  LET j == held[w].job
      log == checkpoints[j]
  IN  /\ LeaseValid(jobs[j], Token(w), at)
      /\ jobs[j].state \in ActiveStates
      /\ \E i \in 1 .. Len(log) : /\ log[i].recovery_position = position
                                  /\ log[i].completed_units = completed
                                  /\ log[i].total_units = total

\* save_checkpoint appends a row and moves the recovery position of the job.
SaveCheckpoint(w, position, completed, total, at) ==
  LET j == held[w].job
  IN  /\ MayCheckpoint(w, position, completed, total, at)
      /\ checkpoints' = [checkpoints EXCEPT ![j] = Append(@,
           [attempt |-> jobs[j].attempt, recovery_position |-> position,
            completed_units |-> completed, total_units |-> total])]
      /\ jobs' = [jobs EXCEPT ![j] = [@ EXCEPT !.recovery_position = position]]
      /\ UNCHANGED <<held, pending, clock>>

\* Active rows whose lease has run out.
Orphans(at) == {j \in Jobs : /\ jobs[j].state \in ActiveStates
                             /\ Reached(jobs[j].lease_expires_at, at)}

\* reclaim_orphans sweeps all of them.
ReclaimOrphans(at) ==
  /\ Orphans(at) # {}
  /\ jobs' = [j \in Jobs |-> IF j \in Orphans(at)
                             THEN Recovered(j, at, "lease_expired")
                             ELSE jobs[j]]
  /\ UNCHANGED <<checkpoints, held, pending, clock>>

\* recover_timed_out_attempt.  The caller presents the token the row
\* carries, also after the lease itself has expired.
RecoverTimedOutAttempt(c, j, at) ==
  /\ Ready(c) /\ j \in Named(c)
  /\ jobs[j].lease_token # NoLease
  /\ c \in Workers => Token(c) = jobs[j].lease_token
  /\ jobs[j].state \in ActiveStates
  /\ \/ Reached(JobSpec[j].deadline_at, at)
     \/ Reached(jobs[j].attempt_deadline_at, at)
  /\ jobs' = [jobs EXCEPT ![j] = Recovered(j, at, "hard_timeout")]
  /\ UNCHANGED <<checkpoints, held, pending, clock>>

\* expire_pending_deadlines sweeps every waiting row past its deadline.
ExpirePendingDeadlines(at) ==
  LET overdue == {j \in Jobs : /\ jobs[j].state \in PendingStates
                               /\ Reached(JobSpec[j].deadline_at, at)}
  IN  /\ overdue # {}
      /\ jobs' = [j \in Jobs |->
           IF j \in overdue
           THEN [jobs[j] EXCEPT !.state = "failed",
                                !.retry_not_before_at = NULL]
           ELSE jobs[j]]
      /\ UNCHANGED <<checkpoints, held, pending, clock>>

\* The worker process is gone, or has moved on from its attempt: it forgets
\* its token and any half-finished call.
Abandon(w) ==
  /\ held[w] # Idle
  /\ held' = [held EXCEPT ![w] = Idle]
  /\ pending' = [pending EXCEPT ![w] = NoCall]
  /\ UNCHANGED <<jobs, checkpoints, clock>>

Tick == /\ clock < MaxClock
        /\ clock' = clock + 1
        /\ UNCHANGED <<jobs, checkpoints, held, pending>>

-----------------------------------------------------------------------------
Init == /\ jobs = [j \in Jobs |-> AbsentRow]
        /\ checkpoints = [j \in Jobs |-> <<>>]
        /\ held = [w \in Workers |-> Idle]
        /\ pending = [c \in Callers |-> NoCall]
        /\ clock = 0

AttemptStep(w) ==
  \/ HeartbeatWrite(w)
  \/ \E at \in Stamps :
       \/ HeartbeatRead(w, at)
       \/ \E p \in Positions, n \in Units, t \in Totals :
            SaveCheckpoint(w, p, n, t, at)

WorkerStep(w) ==
  \/ AttemptStep(w)
  \/ Abandon(w)
  \/ \E at \in Stamps :
       \/ \E j \in Jobs : ClaimNext(w, j, at)
       \/ \E set \in ArtifactSets : SucceedJob(w, set, at)

CallerStep(c) ==
  \/ ScheduleRetryWrite(c)
  \/ \E j \in Jobs :
       \/ c \in Operators /\ RequestCancel(c, j)
       \/ \E at \in Stamps :
            \/ \E code \in JobSpec[j].retryable_error_codes :
                 ScheduleRetryRead(c, j, at, code)
            \/ FailJob(c, j, at)
            \/ QuarantineJob(c, j, at)
            \/ FinishCancelled(c, j, at)
            \/ RecoverTimedOutAttempt(c, j, at)

SystemStep ==
  \E at \in Stamps : \/ \E j \in Jobs : CreateJob(j, at)
                     \/ ReclaimOrphans(at)
                     \/ ExpirePendingDeadlines(at)

Next == \/ \E w \in Workers : WorkerStep(w)
        \/ \E c \in Callers : CallerStep(c)
        \/ SystemStep
        \/ Tick

Spec == Init /\ [][Next]_vars

\* Time passes, and a live supervisor polls reclaim_orphans: both worker
\* loops call it before every claim and sleep a fraction of a second between
\* rounds.  Nothing is assumed of workers, operators or the other sweeps.
Reclaim == \E at \in Stamps : ReclaimOrphans(at)

FairSpec == Spec /\ WF_vars(Tick) /\ WF_vars(Reclaim)

-----------------------------------------------------------------------------
(* Properties.                                                             *)

\* Every variable has its type.
TypeOK == /\ jobs \in [Jobs -> Row]
          /\ checkpoints \in [Jobs -> Seq(Checkpoint)]
          /\ held \in [Workers -> Holding]
          /\ pending \in [Callers -> Call]
          /\ clock \in Nat

\* The lease columns agree with the state machine across claim, cancel,
\* settlement and recovery: a running job is leased to its current attempt,
\* a cancelling one to its current attempt or (cancelled while waiting) to
\* none, and any other job carries no token a worker could still present.
LeaseMatchesAttempt ==
  \A j \in Jobs :
    LET row == jobs[j]
    IN  /\ row.state = "running" => row.lease_token # NoLease
        /\ row.lease_token # NoLease => /\ row.state \in ActiveStates
                                        /\ row.lease_token.attempt = row.attempt
                                        /\ row.attempt_deadline_at # NULL
                                        /\ row.lease_expires_at # NULL

\* claim_next hands an attempt to one worker: two workers that both believe
\* they own a job (one of them lost its lease) hold different attempts, and
\* none holds an attempt the catalog has not started.
AttemptsDistinct ==
  \A v, w \in Workers :
    held[v] # Idle =>
      /\ held[v].attempt <= jobs[held[v].job].attempt
      /\ v # w => held[v] # held[w]

\* No order of claims, crashes, reclaims, timeouts and operator retries runs
\* a job more often than max_attempts.
AttemptBudget == \A j \in Jobs : jobs[j].attempt <= JobSpec[j].max_attempts

\* A job that ever started finds every dependency succeeded, now and later:
\* the check in claim_next is made once and must not go stale.
DependencyOrder ==
  \A j \in Jobs : jobs[j].attempt > 0 =>
    \A d \in JobSpec[j].dependency_ids : jobs[d].state = "succeeded"

\* A waiting retry can still be claimed: its backoff ends before the job
\* deadline, whichever of the three recovery paths scheduled it.
RetryBeforeDeadline ==
  \A j \in Jobs : jobs[j].state = "retrying" =>
    /\ jobs[j].retry_not_before_at # NULL
    /\ JobSpec[j].deadline_at # NULL =>
         jobs[j].retry_not_before_at < JobSpec[j].deadline_at

\* Checkpoints of all attempts form one log: a worker that lost its lease
\* cannot append behind its successor, progress never falls, a known total
\* never changes, and the row points at the newest position.
CheckpointOrder ==
  \A j \in Jobs :
    LET log == checkpoints[j]
    IN  /\ \A m, n \in 1 .. Len(log) : m < n =>
             /\ log[m].attempt <= log[n].attempt
             /\ log[m].completed_units <= log[n].completed_units
             /\ log[m].total_units \in {NULL, log[n].total_units}
             /\ log[m].recovery_position # log[n].recovery_position
        /\ Len(log) > 0 =>
             /\ log[Len(log)].attempt <= jobs[j].attempt
             /\ log[Len(log)].recovery_position = jobs[j].recovery_position

\* A lost worker blocks its job for at most one lease: no lease, renewed or
\* written by a delayed heartbeat, ends more than LeaseSeconds from now.
BoundedRecovery ==
  \A j \in Jobs : jobs[j].lease_expires_at <= clock + LeaseSeconds

\* A job succeeds only in a step of the worker that owns its current attempt,
\* and its artifact set, once committed, never changes.
CommitByOwner ==
  [][\A j \in Jobs :
       jobs[j].artifact_set_id # jobs'[j].artifact_set_id =>
         /\ jobs[j].artifact_set_id = NULL
         /\ jobs'[j].state = "succeeded"
         /\ \E w \in Workers :
              held[w] = [job |-> j, attempt |-> jobs[j].attempt]]_vars

\* A running attempt ends whatever its worker does: it settles, or its lease
\* (which heartbeats cannot push past the attempt deadline) runs out and the
\* next reclaim takes the job back.
AttemptEnds ==
  \A j \in Jobs : \A a \in 1 .. JobSpec[j].max_attempts :
    (jobs[j].state = "running" /\ jobs[j].attempt = a)
      ~> ~(jobs[j].state = "running" /\ jobs[j].attempt = a)

\* The catalog implements the lifecycle it publishes.
Lifecycle == INSTANCE JobLifecycle
               WITH state <- [j \in Jobs |-> jobs[j].state],
                    attempt <- [j \in Jobs |-> jobs[j].attempt],
                    MaxAttempts <- [j \in Jobs |-> JobSpec[j].max_attempts],
                    Dependencies <- [j \in Jobs |-> JobSpec[j].dependency_ids]

\* Every call, also one that sweeps several jobs or finishes on a stale read,
\* is a step of the lifecycle: the published table, one attempt per claim, no
\* claim beyond max_attempts or ahead of a dependency.
ImplementsLifecycle == Lifecycle!Spec
============================================================================
