-------------------------- MODULE JobCatalogProofs --------------------------
(***************************************************************************)
(* Proofs about JobCatalog for every set of jobs, workers and operators,   *)
(* every job specification, lease length and clock bound.                  *)
(***************************************************************************)
EXTENDS JobCatalog, TLAPS

\* What backoff_after returns is a waiting time, for every policy.
LEMMA BackoffType ==
  ASSUME NEW j \in Jobs, NEW n \in Nat
  PROVE  BackoffAfter(j, n) \in Nat
BY SpecAssumption DEF BackoffAfter, JobSpecType

\* A transition of the table never leads to a row that does not exist.
LEMMA AllowedType ==
  ASSUME NEW s \in RowState
  PROVE  AllowedTransitions(s) \subseteq RowState
BY DEF AllowedTransitions, RowState, JobState

\* Clearing the lease columns yields a row.
LEMMA ReleasedType ==
  ASSUME NEW row \in Row, NEW target \in RowState, NEW until \in TimeOrNull
  PROVE  Released(row, target, until) \in Row
BY DEF Released, Row, TimeOrNull

\* So does either recovery path.
LEMMA RecoveredType ==
  ASSUME TypeOK, NEW j \in Jobs, NEW at \in Nat, NEW code
  PROVE  Recovered(j, at, code) \in Row
<1>1. jobs[j] \in Row BY DEF TypeOK
<1>2. jobs[j].attempt \in Nat BY <1>1 DEF Row
<1>3. at + BackoffAfter(j, jobs[j].attempt) \in TimeOrNull
  BY <1>2, BackoffType DEF TimeOrNull
<1>4. NULL \in TimeOrNull /\ {"cancelled", "retrying", "failed"} \subseteq RowState
  BY DEF TimeOrNull, RowState, JobState
<1> QED BY <1>1, <1>3, <1>4, ReleasedType DEF Recovered

LEMMA StampsType == clock \in Nat => Stamps \subseteq Nat
BY DEF Stamps

\* The initial state is well typed.
LEMMA InitTypeOK == Init => TypeOK
BY CallerAssumption, BoundAssumption, JobsAssumption
DEF Init, TypeOK, AbsentRow, Row, RowState, TimeOrNull, Holding, Call, NULL

\* A worker whose token is the row's token owns the current attempt.
LEMMA OwnerIsCurrent ==
  ASSUME TypeOK, LeaseMatchesAttempt, NEW w \in Workers, held[w] # Idle,
         jobs[held[w].job].lease_token = Token(w)
  PROVE  /\ held[w].job \in Jobs
         /\ held[w].attempt \in Nat \ {0}
         /\ Token(w) # NoLease
         /\ jobs[held[w].job].attempt = held[w].attempt
<1>1. held[w].job \in Jobs /\ held[w].attempt \in Nat \ {0} BY DEF TypeOK, Holding
<1>2. Token(w) = [attempt |-> held[w].attempt, owner |-> w] BY DEF Token
<1>3. Token(w) # NoLease /\ Token(w).attempt = held[w].attempt
  BY <1>1, <1>2 DEF NoLease
<1>4. jobs[held[w].job].lease_token.attempt = jobs[held[w].job].attempt
  BY <1>1, <1>3, Zenon DEF LeaseMatchesAttempt
<1> QED BY <1>1, <1>3, <1>4

\* Every call preserves the types.
LEMMA NextTypeOK == TypeOK /\ LeaseMatchesAttempt /\ [Next]_vars => TypeOK'
<1> SUFFICES ASSUME TypeOK, LeaseMatchesAttempt, [Next]_vars PROVE TypeOK' OBVIOUS
<1> USE DEF TypeOK
<1>r. \A j \in Jobs : jobs[j] \in Row /\ jobs[j].attempt \in Nat BY DEF Row
<1>t. Stamps \subseteq Nat BY StampsType
<1>n. NULL \in TimeOrNull /\ Nat \subseteq TimeOrNull BY DEF TimeOrNull
<1>s. \A s \in {"queued", "running", "cancelling", "cancelled", "succeeded",
               "failed", "retrying", "quarantined"} : s \in RowState
  BY DEF RowState, JobState
<1>h. \A w \in Workers : held[w] # Idle =>
        held[w].job \in Jobs /\ held[w].attempt \in Nat \ {0} BY DEF Holding
<1>p. \A c \in Callers : pending[c] # NoCall =>
        pending[c].job \in Jobs /\ pending[c].until \in Nat BY DEF Call
<1>1. ASSUME NEW j \in Jobs, NEW at \in Stamps, CreateJob(j, at) PROVE TypeOK'
  BY <1>1, <1>r, <1>s, <1>t, ZenonT(40) DEF CreateJob, Row
<1>2. ASSUME NEW w \in Workers, NEW j \in Jobs, NEW at \in Stamps,
             ClaimNext(w, j, at)
      PROVE  TypeOK'
  <2>1. AttemptDeadline(j, at) \in TimeOrNull BY <1>t, SpecAssumption
    DEF AttemptDeadline, BeforeDeadline, JobSpecType, TimeOrNull
  <2>2. at + LeaseSeconds \in TimeOrNull BY <1>t, LeaseAssumption DEF TimeOrNull
  <2>a. /\ jobs[j].attempt + 1 \in Nat \ {0}
        /\ [attempt |-> jobs[j].attempt + 1, owner |-> w] \in Lease BY <1>r DEF Lease
  <2>3. jobs' \in [Jobs -> Row]
    <3> DEFINE new == [jobs[j] EXCEPT
           !.state = "running", !.attempt = jobs[j].attempt + 1,
           !.lease_token = [attempt |-> jobs[j].attempt + 1, owner |-> w],
           !.lease_expires_at = at + LeaseSeconds,
           !.attempt_deadline_at = AttemptDeadline(j, at),
           !.retry_not_before_at = NULL]
    <3>1. new \in Row BY <1>r, <1>n, <1>s, <2>1, <2>2, <2>a DEF Row
    <3>2. jobs' = [jobs EXCEPT ![j] = new] BY <1>2 DEF ClaimNext, NextAttempt
    <3> QED BY <3>1, <3>2
  <2>4. held' \in [Workers -> Holding]
    BY <1>2, <1>r DEF ClaimNext, NextAttempt, Holding
  <2> QED BY <1>2, <2>3, <2>4 DEF ClaimNext
<1>3. ASSUME NEW w \in Workers, NEW at \in Stamps, HeartbeatRead(w, at)
      PROVE  TypeOK'
  <2>1. held[w].job \in Jobs /\ jobs[held[w].job] \in Row
    BY <1>3, <1>h, <1>r DEF HeartbeatRead, MayHeartbeat
  <2>2. Extended(jobs[held[w].job], at) \in Nat BY <1>t, <2>1, LeaseAssumption
    DEF Extended, Reached, Row, TimeOrNull
  <2> QED BY <1>3, <1>t, <2>1, <2>2 DEF HeartbeatRead, MayHeartbeat, Call, Callers
<1>4. ASSUME NEW w \in Workers, HeartbeatWrite(w) PROVE TypeOK'
  <2>1. pending[w].job \in Jobs /\ pending[w].until \in TimeOrNull
    BY <1>4, <1>p, <1>n DEF HeartbeatWrite, NoCall, Callers
  <2>2. jobs' \in [Jobs -> Row] BY <1>4, <1>r, <2>1, ZenonT(40) DEF HeartbeatWrite, Row
  <2> QED BY <1>4, <2>2 DEF HeartbeatWrite, Call, Callers
<1>5. ASSUME NEW c \in Callers, NEW j \in Jobs, NEW at \in Stamps, NEW code,
             ScheduleRetryRead(c, j, at, code)
      PROVE  TypeOK'
  <2>0. at \in Nat /\ BackoffAfter(j, jobs[j].attempt) \in Nat
    BY <1>r, <1>t, BackoffType
  <2>1. at + BackoffAfter(j, jobs[j].attempt) \in Nat BY <2>0
  <2> QED BY <1>5, <1>t, <2>1 DEF ScheduleRetryRead, Call
<1>6. ASSUME NEW c \in Callers, ScheduleRetryWrite(c) PROVE TypeOK'
  <2>1. pending[c].job \in Jobs /\ pending[c].until \in TimeOrNull
    BY <1>6, <1>p, <1>n DEF ScheduleRetryWrite, NoCall
  <2>2. Released(jobs[pending[c].job], "retrying", pending[c].until) \in Row
    BY <1>r, <1>s, <2>1, ReleasedType
  <2>3. jobs' \in [Jobs -> Row] BY <1>6, <1>r, <2>1, <2>2 DEF ScheduleRetryWrite
  <2> QED BY <1>6, <2>3 DEF ScheduleRetryWrite, Call
<1>7. ASSUME NEW c \in Callers, NEW j \in Jobs, NEW at \in Stamps,
             NEW target \in {"failed", "quarantined", "cancelled"},
             Settle(c, j, target, at)
      PROVE  TypeOK'
  <2>1. Released(jobs[j], target, NULL) \in Row BY <1>r, <1>n, <1>s, ReleasedType
  <2> QED BY <1>7, <2>1 DEF Settle
<1>8. ASSUME NEW c \in Callers, NEW j \in Jobs, RequestCancel(c, j)
      PROVE  TypeOK' BY <1>8, <1>r, <1>n, <1>s, ZenonT(40) DEF RequestCancel, Row
<1>9. ASSUME NEW w \in Workers, NEW set \in ArtifactSets, NEW at \in Stamps,
             SucceedJob(w, set, at)
      PROVE  TypeOK'
  <2>1. held[w].job \in Jobs BY <1>9, <1>h DEF SucceedJob, MaySucceed
  <2>2. Released(jobs[held[w].job], "succeeded", NULL) \in Row
    BY <1>r, <1>n, <1>s, <2>1, ReleasedType
  <2> QED BY <1>9, <2>1, <2>2 DEF SucceedJob, MaySucceed, Row
<1>10. ASSUME NEW w \in Workers, NEW p \in Positions, NEW n \in Units,
              NEW t \in Totals, NEW at \in Stamps,
              SaveCheckpoint(w, p, n, t, at)
       PROVE  TypeOK'
  <2>1. held[w].job \in Jobs BY <1>10, <1>h DEF SaveCheckpoint, MayCheckpoint
  <2>2. jobs' \in [Jobs -> Row]
    BY <1>10, <1>r, <2>1, ZenonT(40) DEF SaveCheckpoint, MayCheckpoint, Row
  <2>3. jobs[held[w].job].attempt # 0
    BY <1>10, <1>h, OwnerIsCurrent DEF SaveCheckpoint, MayCheckpoint, LeaseValid
  <2>4. [attempt |-> jobs[held[w].job].attempt, recovery_position |-> p,
         completed_units |-> n, total_units |-> t] \in Checkpoint
    BY <1>r, <2>1, <2>3, CheckpointAssumption DEF Checkpoint
  <2> QED BY <1>10, <2>1, <2>2, <2>4 DEF SaveCheckpoint, MayCheckpoint
<1>11. ASSUME NEW at \in Stamps, ReclaimOrphans(at) PROVE TypeOK'
  BY <1>11, <1>r, <1>t, RecoveredType DEF ReclaimOrphans
<1>12. ASSUME NEW c \in Callers, NEW j \in Jobs, NEW at \in Stamps,
              RecoverTimedOutAttempt(c, j, at)
       PROVE  TypeOK' BY <1>12, <1>t, RecoveredType DEF RecoverTimedOutAttempt
<1>13. ASSUME NEW at \in Stamps, ExpirePendingDeadlines(at) PROVE TypeOK'
  BY <1>13, <1>r, <1>n, <1>s, ZenonT(40) DEF ExpirePendingDeadlines, Row
<1>14. ASSUME NEW w \in Workers, Abandon(w) PROVE TypeOK'
  BY <1>14 DEF Abandon, Holding, Call, Callers
<1>15. CASE Tick BY <1>15 DEF Tick
<1>16. CASE UNCHANGED vars BY <1>16 DEF vars
<1> QED BY <1>1, <1>2, <1>3, <1>4, <1>5, <1>6, <1>7, <1>8, <1>9, <1>10, <1>11,
     <1>12, <1>13, <1>14, <1>15, <1>16
  DEF Next, WorkerStep, AttemptStep, CallerStep, SystemStep, FailJob, QuarantineJob,
      FinishCancelled

-----------------------------------------------------------------------------
(* The inductive invariant. *)

\* A half-finished call still carries a sound value: a heartbeat writes a
\* lease of at most LeaseSeconds from now, a retry a backoff that ends before
\* the deadline.  (The row the call was checked against may be gone.)
PendingSound ==
  \A c \in Callers :
    /\ pending[c].op = "heartbeat" => pending[c].until <= clock + LeaseSeconds
    /\ pending[c].op = "retry" => BeforeDeadline(pending[c].job, pending[c].until)

\* Artifacts are recorded for succeeded jobs only.
ArtifactsImplySuccess ==
  \A j \in Jobs : jobs[j].artifact_set_id # NULL => jobs[j].state = "succeeded"

CatalogInv ==
  /\ TypeOK
  /\ LeaseMatchesAttempt
  /\ AttemptsDistinct
  /\ AttemptBudget
  /\ DependencyOrder
  /\ RetryBeforeDeadline
  /\ BoundedRecovery
  /\ PendingSound
  /\ ArtifactsImplySuccess

-----------------------------------------------------------------------------
(* What one step can do to one row.  Every call but create_job and         *)
(* claim_next changes each row in one of six ways, or not at all.          *)

Renewed(j) ==
  \E w \in Workers :
    /\ pending[w].op = "heartbeat" /\ pending[w].job = j
    /\ jobs'[j] = [jobs[j] EXCEPT !.lease_expires_at = pending[w].until]

CancelRequested(j) ==
  /\ "cancelling" \in AllowedTransitions(jobs[j].state)
  /\ jobs'[j] = [jobs[j] EXCEPT !.state = "cancelling",
                                !.retry_not_before_at = NULL]

LeftAttempt(j) ==
  \E target \in {"failed", "quarantined", "cancelled", "retrying"},
     until \in TimeOrNull :
    /\ target \in AllowedTransitions(jobs[j].state)
    /\ target = "retrying" => until # NULL /\ BeforeDeadline(j, until)
    /\ jobs'[j] = Released(jobs[j], target, until)

Committed(j) ==
  \E w \in Workers, set \in ArtifactSets :
    /\ held[w] # Idle /\ held[w].job = j
    /\ jobs[j].lease_token = Token(w)
    /\ "succeeded" \in AllowedTransitions(jobs[j].state)
    /\ jobs'[j] = [Released(jobs[j], "succeeded", NULL)
                     EXCEPT !.artifact_set_id = set]

Checkpointed(j) ==
  \E p \in Positions :
    /\ jobs[j].state \in ActiveStates
    /\ jobs'[j] = [jobs[j] EXCEPT !.recovery_position = p]

Expired(j) ==
  /\ jobs[j].state \in PendingStates
  /\ jobs'[j] = [jobs[j] EXCEPT !.state = "failed",
                                !.retry_not_before_at = NULL]

PlainMove(j) ==
  \/ jobs'[j] = jobs[j]
  \/ Renewed(j)
  \/ CancelRequested(j)
  \/ LeftAttempt(j)
  \/ Expired(j)

RowMove(j) == PlainMove(j) \/ Committed(j) \/ Checkpointed(j)

\* Recovery of an active row leaves the attempt along the table.
LEMMA RecoveredLeaves ==
  ASSUME TypeOK, NEW j \in Jobs, NEW at \in Nat, NEW code,
         jobs[j].state \in ActiveStates,
         jobs'[j] = Recovered(j, at, code)
  PROVE  LeftAttempt(j)
<1>1. jobs[j].attempt \in Nat BY DEF TypeOK, Row
<1>2. at + BackoffAfter(j, jobs[j].attempt) \in Nat BY <1>1, BackoffType
<1>3. CASE jobs[j].state = "cancelling"
  <2>1. jobs'[j] = Released(jobs[j], "cancelled", NULL) BY <1>3 DEF Recovered
  <2>2. "cancelled" \in AllowedTransitions(jobs[j].state)
    BY <1>3 DEF AllowedTransitions
  <2> QED BY <2>1, <2>2 DEF LeftAttempt, TimeOrNull
<1>4. CASE jobs[j].state = "running"
  <2>1. {"failed", "retrying"} \subseteq AllowedTransitions(jobs[j].state)
    BY <1>4 DEF AllowedTransitions
  <2>2. CASE MayRetry(j, at, code)
    <3>1. jobs'[j] = Released(jobs[j], "retrying",
                              at + BackoffAfter(j, jobs[j].attempt))
      BY <1>4, <2>2 DEF Recovered
    <3>2. BeforeDeadline(j, at + BackoffAfter(j, jobs[j].attempt)) BY <2>2 DEF MayRetry
    <3> QED BY <1>2, <2>1, <3>1, <3>2 DEF LeftAttempt, TimeOrNull, NULL
  <2>3. CASE ~MayRetry(j, at, code)
    <3>1. jobs'[j] = Released(jobs[j], "failed", NULL) BY <1>4, <2>3 DEF Recovered
    <3> QED BY <2>1, <3>1 DEF LeftAttempt, TimeOrNull
  <2> QED BY <2>2, <2>3
<1> QED BY <1>3, <1>4 DEF ActiveStates

\* Every call but create_job, claim_next, succeed_job and save_checkpoint, at
\* whatever time it is stamped, moves every row in a plain way.
LEMMA PlainCalls ==
  ASSUME CatalogInv,
         \/ \E w \in Workers : HeartbeatWrite(w)
         \/ \E c \in Callers : ScheduleRetryWrite(c)
         \/ \E c \in Callers, k \in Jobs, at \in Nat,
              target \in {"failed", "quarantined", "cancelled"} :
              Settle(c, k, target, at)
         \/ \E c \in Callers, k \in Jobs : RequestCancel(c, k)
         \/ \E at \in Nat : ReclaimOrphans(at) \/ ExpirePendingDeadlines(at)
         \/ \E c \in Callers, k \in Jobs, at \in Nat :
              RecoverTimedOutAttempt(c, k, at)
         \/ jobs' = jobs
  PROVE  \A j \in Jobs : PlainMove(j)
<1> DEFINE Moves == \A j \in Jobs : PlainMove(j)
<1>t. jobs \in [Jobs -> Row] /\ TypeOK BY DEF CatalogInv, TypeOK
<1>n. NULL \in TimeOrNull BY DEF TimeOrNull
<1>p. \A c \in Callers : pending[c] # NoCall =>
        pending[c].job \in Jobs /\ pending[c].until \in Nat
  BY DEF CatalogInv, TypeOK, Call
<1>1. ASSUME NEW w \in Workers, HeartbeatWrite(w) PROVE Moves
  <2>1. pending[w].job \in Jobs BY <1>1, <1>p DEF HeartbeatWrite, NoCall, Callers
  <2>2. ASSUME NEW j \in Jobs PROVE jobs'[j] = jobs[j] \/ Renewed(j)
    BY <1>1, <1>t, <2>1 DEF HeartbeatWrite, Renewed
  <2> QED BY <2>2 DEF PlainMove
<1>2. ASSUME NEW c \in Callers, ScheduleRetryWrite(c) PROVE Moves
  <2>1. /\ pending[c].job \in Jobs
        /\ pending[c].until \in TimeOrNull /\ pending[c].until # NULL
        /\ BeforeDeadline(pending[c].job, pending[c].until) BY <1>2, <1>p
    DEF ScheduleRetryWrite, NoCall, CatalogInv, PendingSound, TimeOrNull, NULL
  <2>2. ASSUME NEW j \in Jobs PROVE jobs'[j] = jobs[j] \/ LeftAttempt(j)
    BY <1>2, <1>t, <2>1 DEF ScheduleRetryWrite, MayTransition, LeftAttempt
  <2> QED BY <2>2 DEF PlainMove
<1>3. ASSUME NEW c \in Callers, NEW k \in Jobs, NEW at \in Nat,
             NEW target \in {"failed", "quarantined", "cancelled"},
             Settle(c, k, target, at)
      PROVE  Moves
  <2>1. ASSUME NEW j \in Jobs PROVE jobs'[j] = jobs[j] \/ LeftAttempt(j)
    BY <1>3, <1>t, <1>n DEF Settle, MayTransition, LeftAttempt
  <2> QED BY <2>1 DEF PlainMove
<1>4. ASSUME NEW c \in Callers, NEW k \in Jobs, RequestCancel(c, k)
      PROVE  Moves
  <2>1. ASSUME NEW j \in Jobs PROVE jobs'[j] = jobs[j] \/ CancelRequested(j)
    BY <1>4, <1>t DEF RequestCancel, CancelRequested
  <2> QED BY <2>1 DEF PlainMove
<1>5. ASSUME NEW at \in Nat, ReclaimOrphans(at) PROVE Moves
  <2>1. ASSUME NEW j \in Jobs PROVE jobs'[j] = jobs[j] \/ LeftAttempt(j)
    <3>1. CASE /\ jobs[j].state \in ActiveStates
               /\ jobs'[j] = Recovered(j, at, "lease_expired")
      BY <1>t, <3>1, RecoveredLeaves
    <3>2. CASE jobs'[j] = jobs[j] BY <3>2
    <3> QED BY <1>5, <3>1, <3>2 DEF ReclaimOrphans, Orphans
  <2> QED BY <2>1 DEF PlainMove
<1>6. ASSUME NEW c \in Callers, NEW k \in Jobs, NEW at \in Nat,
             RecoverTimedOutAttempt(c, k, at)
      PROVE  Moves
  <2>1. ASSUME NEW j \in Jobs PROVE jobs'[j] = jobs[j] \/ LeftAttempt(j)
    <3>1. CASE j = k
      <4>1. /\ jobs[j].state \in ActiveStates
            /\ jobs'[j] = Recovered(j, at, "hard_timeout")
        BY <1>6, <1>t, <3>1 DEF RecoverTimedOutAttempt
      <4> QED BY <1>t, <4>1, RecoveredLeaves
    <3>2. CASE j # k BY <1>6, <1>t, <3>2 DEF RecoverTimedOutAttempt
    <3> QED BY <3>1, <3>2
  <2> QED BY <2>1 DEF PlainMove
<1>7. ASSUME NEW at \in Nat, ExpirePendingDeadlines(at) PROVE Moves
  <2>1. ASSUME NEW j \in Jobs PROVE jobs'[j] = jobs[j] \/ Expired(j)
    BY <1>7 DEF ExpirePendingDeadlines, Expired
  <2> QED BY <2>1 DEF PlainMove
<1>8. ASSUME jobs' = jobs PROVE Moves BY <1>8 DEF PlainMove
<1> QED BY <1>1, <1>2, <1>3, <1>4, <1>5, <1>6, <1>7, <1>8

\* succeed_job commits the row of the caller, at whatever time it is stamped.
LEMMA SucceedMoves ==
  ASSUME CatalogInv, NEW w \in Workers, NEW set \in ArtifactSets, NEW at,
         SucceedJob(w, set, at)
  PROVE  \A j \in Jobs : jobs'[j] = jobs[j] \/ (j = held[w].job /\ Committed(j))
<1>1. jobs \in [Jobs -> Row] BY DEF CatalogInv, TypeOK
<1> QED BY <1>1 DEF SucceedJob, MaySucceed, LeaseValid, Committed

\* save_checkpoint moves the recovery position of the caller's row.
LEMMA SaveMoves ==
  ASSUME CatalogInv, NEW w \in Workers, NEW p \in Positions, NEW n, NEW t,
         NEW at, SaveCheckpoint(w, p, n, t, at)
  PROVE  \A j \in Jobs : jobs'[j] = jobs[j] \/ (j = held[w].job /\ Checkpointed(j))
<1>1. jobs \in [Jobs -> Row] BY DEF CatalogInv, TypeOK
<1> QED BY <1>1 DEF SaveCheckpoint, MayCheckpoint, Checkpointed

\* A step creates a job, claims a job, or moves every row in one of the ways
\* above.
LEMMA StepCases ==
  ASSUME CatalogInv, [Next]_vars
  PROVE  \/ \E j \in Jobs, at \in Stamps : CreateJob(j, at)
         \/ \E w \in Workers, j \in Jobs, at \in Stamps : ClaimNext(w, j, at)
         \/ \A j \in Jobs : RowMove(j)
<1> DEFINE Moves == \A j \in Jobs : RowMove(j)
<1>t. Stamps \subseteq Nat BY StampsType DEF CatalogInv, TypeOK
<1>1. ASSUME \A j \in Jobs : PlainMove(j) PROVE Moves BY <1>1 DEF RowMove
<1>2. ASSUME NEW w \in Workers, NEW set \in ArtifactSets, NEW at \in Stamps,
             SucceedJob(w, set, at)
      PROVE  Moves BY <1>2, SucceedMoves DEF RowMove, PlainMove
<1>3. ASSUME NEW w \in Workers, NEW p \in Positions, NEW n \in Units,
             NEW t \in Totals, NEW at \in Stamps,
             SaveCheckpoint(w, p, n, t, at)
      PROVE  Moves BY <1>3, SaveMoves DEF RowMove, PlainMove
<1>4. ASSUME NEW w \in Workers, WorkerStep(w)
      PROVE  \/ Moves
             \/ \E j \in Jobs, at \in Stamps : ClaimNext(w, j, at)
  <2>1. ASSUME HeartbeatWrite(w) \/ jobs' = jobs PROVE Moves BY <1>1, <2>1, PlainCalls
  <2> QED BY <1>2, <1>3, <1>4, <2>1
    DEF WorkerStep, AttemptStep, HeartbeatRead, Abandon
<1>5. ASSUME NEW c \in Callers, CallerStep(c) PROVE Moves
  <2>1. ASSUME NEW j \in Jobs, NEW at \in Stamps,
               \/ FailJob(c, j, at) \/ QuarantineJob(c, j, at)
               \/ FinishCancelled(c, j, at)
        PROVE  Moves
    BY <1>1, <1>t, <2>1, PlainCalls DEF FailJob, QuarantineJob, FinishCancelled
  <2>2. ASSUME NEW j \in Jobs, NEW at \in Stamps, RecoverTimedOutAttempt(c, j, at)
        PROVE  Moves BY <1>1, <1>t, <2>2, PlainCalls
  <2>3. ASSUME NEW j \in Jobs, RequestCancel(c, j) PROVE Moves
    BY <1>1, <2>3, PlainCalls
  <2>4. ASSUME ScheduleRetryWrite(c) \/ jobs' = jobs PROVE Moves
    BY <1>1, <2>4, PlainCalls
  <2> QED BY <1>5, <2>1, <2>2, <2>3, <2>4 DEF CallerStep, ScheduleRetryRead
<1>6. ASSUME SystemStep
      PROVE  \/ Moves
             \/ \E j \in Jobs, at \in Stamps : CreateJob(j, at)
  BY <1>1, <1>6, <1>t, PlainCalls DEF SystemStep
<1>7. ASSUME Tick \/ UNCHANGED vars PROVE Moves
  <2>1. jobs' = jobs BY <1>7 DEF Tick, vars
  <2> QED BY <1>1, <2>1, PlainCalls
<1> QED BY <1>4, <1>5, <1>6, <1>7 DEF Next

-----------------------------------------------------------------------------
(* Preservation of the row invariants, from StepCases. *)

\* The parts of a row's type that the row arguments need.
LEMMA RowFacts ==
  ASSUME TypeOK, NEW j \in Jobs
  PROVE  /\ jobs[j] \in Row
         /\ jobs[j].state \in RowState
         /\ jobs[j].attempt \in Nat
         /\ jobs[j].lease_expires_at \in TimeOrNull
         /\ jobs[j].retry_not_before_at \in TimeOrNull
BY DEF TypeOK, Row

\* What a move does to the columns the invariants read.
LEMMA RowMoveColumns ==
  ASSUME CatalogInv, NEW j \in Jobs, RowMove(j)
  PROVE  /\ jobs'[j].attempt = jobs[j].attempt
         /\ \/ /\ jobs'[j].state = jobs[j].state
               /\ jobs'[j].lease_token = jobs[j].lease_token
               /\ jobs'[j].attempt_deadline_at = jobs[j].attempt_deadline_at
               /\ jobs'[j].retry_not_before_at = jobs[j].retry_not_before_at
               /\ jobs'[j].artifact_set_id = jobs[j].artifact_set_id
               /\ \/ jobs'[j].lease_expires_at = jobs[j].lease_expires_at
                  \/ /\ jobs'[j].lease_expires_at \in Nat
                     /\ jobs'[j].lease_expires_at <= clock + LeaseSeconds
            \/ /\ jobs'[j].state = "cancelling"
               /\ jobs[j].state \in {"queued", "running", "retrying"}
               /\ jobs'[j].lease_token = jobs[j].lease_token
               /\ jobs'[j].attempt_deadline_at = jobs[j].attempt_deadline_at
               /\ jobs'[j].lease_expires_at = jobs[j].lease_expires_at
               /\ jobs'[j].artifact_set_id = jobs[j].artifact_set_id
            \/ /\ jobs'[j].state \in AllowedTransitions(jobs[j].state)
               /\ jobs'[j].state \in {"failed", "quarantined", "cancelled",
                                      "retrying", "succeeded"}
               /\ jobs'[j].lease_token = NoLease
               /\ jobs'[j].lease_expires_at \in {NULL, jobs[j].lease_expires_at}
               /\ jobs'[j].state = "retrying" =>
                    /\ jobs'[j].retry_not_before_at # NULL
                    /\ BeforeDeadline(j, jobs'[j].retry_not_before_at)
               /\ \/ jobs'[j].artifact_set_id = jobs[j].artifact_set_id
                  \/ Committed(j)
<1> USE RowFacts DEF Row
<1>0. TypeOK BY DEF CatalogInv
<1>1. CASE jobs'[j] = jobs[j] BY <1>1
<1>2. CASE Renewed(j)
  <2>1. PICK w \in Workers :
          /\ pending[w].op = "heartbeat"
          /\ jobs'[j] = [jobs[j] EXCEPT !.lease_expires_at = pending[w].until]
    BY <1>2 DEF Renewed
  <2>2. pending[w].until \in Nat /\ pending[w].until <= clock + LeaseSeconds
    BY <2>1 DEF CatalogInv, TypeOK, PendingSound, Call, NoCall, Callers
  <2> QED BY <1>0, <2>1, <2>2
<1>3. CASE CancelRequested(j)
  <2>1. jobs[j].state \in {"queued", "running", "retrying"}
    BY <1>3 DEF CancelRequested, AllowedTransitions
  <2> QED BY <1>0, <1>3, <2>1 DEF CancelRequested
<1>4. CASE LeftAttempt(j) BY <1>0, <1>4 DEF LeftAttempt, Released
<1>5. CASE Committed(j)
  <2>1. PICK set : /\ "succeeded" \in AllowedTransitions(jobs[j].state)
                   /\ jobs'[j] = [Released(jobs[j], "succeeded", NULL)
                                    EXCEPT !.artifact_set_id = set]
    BY <1>5 DEF Committed
  <2> QED BY <1>0, <1>5, <2>1 DEF Released
<1>6. CASE Checkpointed(j) BY <1>0, <1>6 DEF Checkpointed
<1>7. CASE Expired(j)
  <2>1. "failed" \in AllowedTransitions(jobs[j].state)
    BY <1>7 DEF Expired, PendingStates, AllowedTransitions
  <2>2. jobs[j].lease_token = NoLease
    BY <1>7 DEF Expired, PendingStates, ActiveStates, CatalogInv, LeaseMatchesAttempt
  <2> QED BY <1>0, <1>7, <2>1, <2>2 DEF Expired
<1> QED BY <1>1, <1>2, <1>3, <1>4, <1>5, <1>6, <1>7 DEF RowMove, PlainMove

\* What create_job does to the rows.
LEMMA CreateColumns ==
  ASSUME CatalogInv, NEW k \in Jobs, NEW at \in Stamps, CreateJob(k, at)
  PROVE  /\ \A j \in Jobs : j # k => jobs'[j] = jobs[j]
         /\ jobs[k].state = "absent" /\ jobs'[k].state = "queued"
         /\ jobs'[k] = [jobs[k] EXCEPT !.state = "queued", !.created_at = at]
         /\ jobs'[k].attempt = jobs[k].attempt
         /\ jobs'[k].lease_token = jobs[k].lease_token
         /\ jobs'[k].lease_expires_at = jobs[k].lease_expires_at
         /\ jobs'[k].artifact_set_id = jobs[k].artifact_set_id
<1>1. jobs \in [Jobs -> Row] /\ jobs[k] \in Row BY DEF CatalogInv, TypeOK
<1> QED BY <1>1 DEF CreateJob, Row

\* What claim_next does to the rows.
LEMMA ClaimColumns ==
  ASSUME CatalogInv, NEW w \in Workers, NEW k \in Jobs, NEW at \in Stamps,
         ClaimNext(w, k, at)
  PROVE  /\ jobs[k].state \in PendingStates /\ jobs'[k].state = "running"
         /\ jobs[k].attempt < JobSpec[k].max_attempts
         /\ jobs'[k].attempt = jobs[k].attempt + 1
         /\ jobs'[k].lease_token = [attempt |-> jobs[k].attempt + 1, owner |-> w]
         /\ jobs'[k].lease_expires_at = at + LeaseSeconds
         /\ jobs'[k].attempt_deadline_at \in Nat
         /\ jobs'[k].artifact_set_id = jobs[k].artifact_set_id
<1>1. jobs \in [Jobs -> Row] /\ jobs[k] \in Row /\ at \in Nat
  BY StampsType DEF CatalogInv, TypeOK
<1>2. AttemptDeadline(k, at) \in Nat
  BY <1>1, SpecAssumption DEF AttemptDeadline, BeforeDeadline, JobSpecType
<1> QED BY <1>1, <1>2
  DEF ClaimNext, Eligible, AttemptsLeft, NextAttempt, Row

\* claim_next touches one row, and reads those of its dependencies.
LEMMA ClaimOthers ==
  ASSUME CatalogInv, NEW w \in Workers, NEW k \in Jobs, NEW at \in Stamps,
         ClaimNext(w, k, at)
  PROVE  /\ \A j \in Jobs : j # k => jobs'[j] = jobs[j]
         /\ \A d \in JobSpec[k].dependency_ids : jobs[d].state = "succeeded"
BY DEF ClaimNext, Eligible, DependenciesSucceeded, CatalogInv, TypeOK

\* The lease columns keep matching the state machine.
LEMMA NextLease ==
  ASSUME CatalogInv, [Next]_vars
  PROVE  LeaseMatchesAttempt'
<1> DEFINE OK(row) ==
      /\ row.state = "running" => row.lease_token # NoLease
      /\ row.lease_token # NoLease => /\ row.state \in ActiveStates
                                      /\ row.lease_token.attempt = row.attempt
                                      /\ row.attempt_deadline_at # NULL
                                      /\ row.lease_expires_at # NULL
<1>0. \A j \in Jobs : OK(jobs[j]) BY DEF CatalogInv, LeaseMatchesAttempt
<1>1. ASSUME NEW k \in Jobs, NEW at \in Stamps, CreateJob(k, at),
             NEW j \in Jobs
      PROVE  OK(jobs'[j])
  <2>1. jobs[k].lease_token = NoLease BY <1>0, <1>1, CreateColumns DEF ActiveStates
  <2> QED BY <1>0, <1>1, <2>1, CreateColumns, ZenonT(40)
<1>2. ASSUME NEW w \in Workers, NEW k \in Jobs, NEW at \in Stamps,
             ClaimNext(w, k, at), NEW j \in Jobs
      PROVE  OK(jobs'[j])
  <2>1. at + LeaseSeconds # NULL /\ jobs[k].attempt \in Nat
    BY StampsType, LeaseAssumption, RowFacts DEF CatalogInv, TypeOK, NULL
  <2>2. /\ jobs'[k].state = "running"
        /\ jobs'[k].attempt = jobs[k].attempt + 1
        /\ jobs'[k].lease_token = [attempt |-> jobs[k].attempt + 1, owner |-> w]
        /\ jobs'[k].lease_expires_at # NULL
        /\ jobs'[k].attempt_deadline_at # NULL BY <1>2, <2>1, ClaimColumns DEF NULL
  <2>3. jobs'[k].lease_token # NoLease BY <2>1, <2>2 DEF NoLease
  <2>4. CASE j = k BY <2>2, <2>3, <2>4 DEF ActiveStates
  <2>5. CASE j # k
    <3>1. jobs'[j] = jobs[j] BY <1>2, <2>5, ClaimOthers
    <3> QED BY <1>0, <3>1
  <2> QED BY <2>4, <2>5
<1>3. ASSUME NEW j \in Jobs, RowMove(j) PROVE OK(jobs'[j])
  BY <1>0, <1>3, RowMoveColumns DEF ActiveStates, NULL
<1> QED BY <1>1, <1>2, <1>3, StepCases DEF LeaseMatchesAttempt

\* No step runs a job past its budget.
LEMMA NextBudget ==
  ASSUME CatalogInv, [Next]_vars
  PROVE  AttemptBudget'
<1>0. \A j \in Jobs : jobs[j].attempt <= JobSpec[j].max_attempts
  BY DEF CatalogInv, AttemptBudget
<1>1. ASSUME NEW k \in Jobs, NEW at \in Stamps, CreateJob(k, at)
      PROVE  AttemptBudget' BY <1>0, <1>1, CreateColumns DEF AttemptBudget
<1>2. ASSUME NEW w \in Workers, NEW k \in Jobs, NEW at \in Stamps,
             ClaimNext(w, k, at)
      PROVE  AttemptBudget'
  <2>1. jobs[k].attempt \in Nat /\ JobSpec[k].max_attempts \in Nat
    BY RowFacts, SpecAssumption DEF CatalogInv, JobSpecType
  <2>2. /\ jobs[k].attempt < JobSpec[k].max_attempts
        /\ jobs'[k].attempt = jobs[k].attempt + 1 BY <1>2, ClaimColumns
  <2>3. \A j \in Jobs : j # k => jobs'[j] = jobs[j] BY <1>2, ClaimOthers
  <2> QED BY <1>0, <2>1, <2>2, <2>3 DEF AttemptBudget
<1>3. CASE \A j \in Jobs : RowMove(j) BY <1>0, <1>3, RowMoveColumns DEF AttemptBudget
<1> QED BY <1>1, <1>2, <1>3, StepCases

\* A succeeded job stays succeeded, so a dependency check made at the claim
\* holds from then on.
LEMMA NextDependency ==
  ASSUME CatalogInv, [Next]_vars
  PROVE  DependencyOrder'
<1>0. \A j \in Jobs : jobs[j].attempt > 0 =>
        \A d \in JobSpec[j].dependency_ids : jobs[d].state = "succeeded"
  BY DEF CatalogInv, DependencyOrder
<1>d. \A j \in Jobs : JobSpec[j].dependency_ids \subseteq Jobs
  BY SpecAssumption DEF JobSpecType
<1>1. ASSUME NEW k \in Jobs, NEW at \in Stamps, CreateJob(k, at)
      PROVE  DependencyOrder'
  <2>1. /\ \A j \in Jobs : j # k => jobs'[j] = jobs[j]
        /\ jobs[k].state # "succeeded"
        /\ jobs'[k].attempt = jobs[k].attempt BY <1>1, CreateColumns
  <2> QED BY <1>0, <1>d, <2>1 DEF DependencyOrder
<1>2. ASSUME NEW w \in Workers, NEW k \in Jobs, NEW at \in Stamps,
             ClaimNext(w, k, at)
      PROVE  DependencyOrder'
  <2>0. jobs[k].state # "succeeded" BY <1>2, ClaimColumns DEF PendingStates
  <2>1. /\ \A j \in Jobs : j # k => jobs'[j] = jobs[j]
        /\ \A d \in JobSpec[k].dependency_ids : jobs[d].state = "succeeded"
    BY <1>2, ClaimOthers
  <2>2. \A d \in Jobs : jobs[d].state = "succeeded" =>
                          jobs'[d].state = "succeeded" BY <2>0, <2>1
  <2>3. \A j \in Jobs : jobs'[j].attempt > 0 =>
          \A d \in JobSpec[j].dependency_ids : jobs[d].state = "succeeded"
    BY <1>0, <2>1
  <2> QED BY <1>d, <2>2, <2>3 DEF DependencyOrder
<1>3. CASE \A j \in Jobs : RowMove(j)
  <2>1. \A d \in Jobs : jobs[d].state = "succeeded" =>
                          jobs'[d].state = "succeeded"
    BY <1>3, RowMoveColumns DEF AllowedTransitions
  <2>2. \A j \in Jobs : jobs'[j].attempt = jobs[j].attempt BY <1>3, RowMoveColumns
  <2> QED BY <1>0, <1>d, <2>1, <2>2 DEF DependencyOrder
<1> QED BY <1>1, <1>2, <1>3, StepCases

\* A waiting retry keeps a backoff that ends before the deadline.
LEMMA NextRetry ==
  ASSUME CatalogInv, [Next]_vars
  PROVE  RetryBeforeDeadline'
<1> DEFINE OK(j, row) ==
      row.state = "retrying" =>
        /\ row.retry_not_before_at # NULL
        /\ JobSpec[j].deadline_at # NULL =>
             row.retry_not_before_at < JobSpec[j].deadline_at
<1>0. \A j \in Jobs : OK(j, jobs[j]) BY DEF CatalogInv, RetryBeforeDeadline
<1>1. ASSUME NEW k \in Jobs, NEW at \in Stamps, CreateJob(k, at),
             NEW j \in Jobs
      PROVE  OK(j, jobs'[j]) BY <1>0, <1>1, CreateColumns
<1>2. ASSUME NEW w \in Workers, NEW k \in Jobs, NEW at \in Stamps,
             ClaimNext(w, k, at), NEW j \in Jobs
      PROVE  OK(j, jobs'[j])
  <2>1. CASE j = k
    <3>1. jobs'[k].state = "running" BY <1>2, ClaimColumns
    <3> QED BY <2>1, <3>1
  <2>2. CASE j # k
    <3>1. jobs'[j] = jobs[j] BY <1>2, <2>2, ClaimOthers
    <3> QED BY <1>0, <3>1
  <2> QED BY <2>1, <2>2
<1>3. ASSUME NEW j \in Jobs, RowMove(j) PROVE OK(j, jobs'[j])
  BY <1>0, <1>3, RowMoveColumns DEF BeforeDeadline
<1> QED BY <1>1, <1>2, <1>3, StepCases DEF RetryBeforeDeadline

\* Only succeed_job records artifacts, and it leaves the job succeeded.
LEMMA NextArtifacts ==
  ASSUME CatalogInv, [Next]_vars
  PROVE  ArtifactsImplySuccess'
<1> DEFINE OK(row) == row.artifact_set_id # NULL => row.state = "succeeded"
<1>0. \A j \in Jobs : OK(jobs[j]) BY DEF CatalogInv, ArtifactsImplySuccess
<1>1. ASSUME NEW k \in Jobs, NEW at \in Stamps, CreateJob(k, at),
             NEW j \in Jobs
      PROVE  OK(jobs'[j]) BY <1>0, <1>1, CreateColumns, ZenonT(40)
<1>2. ASSUME NEW w \in Workers, NEW k \in Jobs, NEW at \in Stamps,
             ClaimNext(w, k, at), NEW j \in Jobs
      PROVE  OK(jobs'[j])
  <2>1. CASE j = k
    <3>1. /\ jobs[k].state \in PendingStates
          /\ jobs'[k].artifact_set_id = jobs[k].artifact_set_id BY <1>2, ClaimColumns
    <3> QED BY <1>0, <2>1, <3>1 DEF PendingStates
  <2>2. CASE j # k
    <3>1. jobs'[j] = jobs[j] BY <1>2, <2>2, ClaimOthers
    <3> QED BY <1>0, <3>1
  <2> QED BY <2>1, <2>2
<1>3. ASSUME NEW j \in Jobs, RowMove(j) PROVE OK(jobs'[j])
  <2>1. CASE Committed(j)
    <3>1. jobs'[j].state = "succeeded"
      BY <2>1, RowFacts DEF Committed, Released, Row, CatalogInv
    <3> QED BY <3>1
  <2>2. CASE ~Committed(j)
    <3>1. /\ jobs'[j].artifact_set_id = jobs[j].artifact_set_id
          /\ \/ jobs'[j].state = jobs[j].state
             \/ jobs[j].state # "succeeded"
      BY <1>3, <2>2, RowMoveColumns DEF AllowedTransitions
    <3> QED BY <1>0, <3>1
  <2> QED BY <2>1, <2>2
<1> QED BY <1>1, <1>2, <1>3, StepCases DEF ArtifactsImplySuccess

\* Time does not run backwards.
LEMMA ClockGrows ==
  ASSUME CatalogInv, [Next]_vars
  PROVE  clock \in Nat /\ clock' \in Nat /\ clock <= clock'
<1>0. clock \in Nat BY DEF CatalogInv, TypeOK
<1>1. CASE Tick BY <1>0, <1>1 DEF Tick
<1>2. ASSUME clock' = clock PROVE clock' \in Nat /\ clock <= clock' BY <1>0, <1>2
<1>3. ASSUME NEW w \in Workers, WorkerStep(w)
      PROVE  clock' = clock
  BY <1>3 DEF WorkerStep, AttemptStep, ClaimNext, HeartbeatRead, HeartbeatWrite,
    SucceedJob, SaveCheckpoint, MayCheckpoint, Abandon
<1>4. ASSUME NEW c \in Callers, CallerStep(c) PROVE clock' = clock
  BY <1>4 DEF CallerStep, ScheduleRetryRead, ScheduleRetryWrite, Settle, FailJob,
    QuarantineJob, FinishCancelled, RequestCancel, RecoverTimedOutAttempt
<1>5. CASE SystemStep
  BY <1>2, <1>5, <1>0 DEF SystemStep, CreateJob, ReclaimOrphans, ExpirePendingDeadlines
<1> QED BY <1>0, <1>1, <1>2, <1>3, <1>4, <1>5 DEF Next, vars

\* No lease reaches further than LeaseSeconds into the future.
LEMMA NextRecovery ==
  ASSUME CatalogInv, [Next]_vars
  PROVE  BoundedRecovery'
<1> DEFINE OK(row) == row.lease_expires_at <= clock' + LeaseSeconds
<1>t. /\ clock \in Nat /\ clock' \in Nat /\ clock <= clock'
      /\ LeaseSeconds \in Nat BY ClockGrows, LeaseAssumption
<1>0. \A j \in Jobs : jobs[j].lease_expires_at \in Nat \union {NULL}
                        /\ jobs[j].lease_expires_at <= clock + LeaseSeconds
  BY RowFacts DEF CatalogInv, BoundedRecovery, TimeOrNull
<1>o. \A j \in Jobs : OK(jobs[j]) BY <1>0, <1>t DEF NULL
<1>1. ASSUME NEW k \in Jobs, NEW at \in Stamps, CreateJob(k, at),
             NEW j \in Jobs
      PROVE  OK(jobs'[j])
  <2>1. jobs'[j].lease_expires_at = jobs[j].lease_expires_at BY <1>1, CreateColumns
  <2> QED BY <1>o, <2>1
<1>2. ASSUME NEW w \in Workers, NEW k \in Jobs, NEW at \in Stamps,
             ClaimNext(w, k, at), NEW j \in Jobs
      PROVE  OK(jobs'[j])
  <2>1. CASE j = k
    <3>1. jobs'[k].lease_expires_at = at + LeaseSeconds
      BY <1>2 DEF ClaimNext, CatalogInv, TypeOK, Row
    <3>2. at \in Nat /\ at <= clock BY <1>t DEF Stamps
    <3> QED BY <1>t, <2>1, <3>1, <3>2
  <2>2. CASE j # k
    <3>1. jobs'[j] = jobs[j] BY <1>2, <2>2, ClaimOthers
    <3> QED BY <1>o, <3>1
  <2> QED BY <2>1, <2>2
<1>3. ASSUME NEW j \in Jobs, RowMove(j) PROVE OK(jobs'[j])
  <2>1. \/ jobs'[j].lease_expires_at \in {NULL, jobs[j].lease_expires_at}
        \/ /\ jobs'[j].lease_expires_at \in Nat
           /\ jobs'[j].lease_expires_at <= clock + LeaseSeconds BY <1>3, RowMoveColumns
  <2> QED BY <1>t, <1>o, <2>1 DEF NULL
<1> QED BY <1>1, <1>2, <1>3, StepCases DEF BoundedRecovery

-----------------------------------------------------------------------------
(* Preservation of the invariants about callers. *)

\* A step leaves a caller's pending call alone, ends it, or starts one whose
\* value is sound.
LEMMA NextPending ==
  ASSUME CatalogInv, [Next]_vars
  PROVE  PendingSound'
<1> DEFINE OK(call, now) ==
      /\ call.op = "heartbeat" => call.until <= now + LeaseSeconds
      /\ call.op = "retry" => BeforeDeadline(call.job, call.until)
<1>t. /\ clock \in Nat /\ clock' \in Nat /\ clock <= clock'
      /\ LeaseSeconds \in Nat /\ TypeOK BY ClockGrows, LeaseAssumption DEF CatalogInv
<1>0. \A c \in Callers : OK(pending[c], clock) BY DEF CatalogInv, PendingSound
<1>o. \A c \in Callers : OK(pending[c], clock')
  <2>1. \A c \in Callers : pending[c].until \in Nat BY <1>t DEF TypeOK, Call, NoCall
  <2> QED BY <1>0, <1>t, <2>1
<1>n. OK(NoCall, clock') BY DEF NoCall
<1>1. ASSUME NEW w \in Workers, NEW at \in Stamps, HeartbeatRead(w, at),
             NEW c \in Callers
      PROVE  OK(pending'[c], clock')
  <2> DEFINE row == jobs[held[w].job]
  <2>1. at \in Nat /\ at <= clock BY <1>t DEF Stamps
  <2>2. row.attempt_deadline_at \in TimeOrNull
    BY <1>1, <1>t DEF HeartbeatRead, MayHeartbeat, TypeOK, Holding, Row
  <2>3. Extended(row, at) <= clock' + LeaseSeconds
    BY <1>t, <2>1, <2>2 DEF Extended, Reached, TimeOrNull, NULL
  <2>4. CASE c = w
    <3>1. pending'[c] = [op |-> "heartbeat", job |-> held[w].job, at |-> at,
                         until |-> Extended(row, at)]
      BY <1>1, <1>t, <2>4 DEF HeartbeatRead, MayHeartbeat, TypeOK
    <3> QED BY <2>3, <3>1
  <2>5. CASE c # w BY <1>1, <1>o, <1>t, <2>5 DEF HeartbeatRead, MayHeartbeat, TypeOK
  <2> QED BY <2>4, <2>5
<1>2. ASSUME NEW b \in Callers, NEW j \in Jobs, NEW at \in Stamps, NEW code,
             ScheduleRetryRead(b, j, at, code), NEW c \in Callers
      PROVE  OK(pending'[c], clock')
  <2>1. CASE c = b
    <3>1. pending'[c] = [op |-> "retry", job |-> j, at |-> at,
                         until |-> at + BackoffAfter(j, jobs[j].attempt)]
      BY <1>2, <1>t, <2>1 DEF ScheduleRetryRead, TypeOK
    <3>2. BeforeDeadline(j, at + BackoffAfter(j, jobs[j].attempt))
      BY <1>2 DEF ScheduleRetryRead, MayRetry
    <3> QED BY <3>1, <3>2
  <2>2. CASE c # b BY <1>2, <1>o, <1>t, <2>2 DEF ScheduleRetryRead, TypeOK
  <2> QED BY <2>1, <2>2
<1>3. ASSUME NEW b \in Callers, pending' = [pending EXCEPT ![b] = NoCall],
             NEW c \in Callers
      PROVE  OK(pending'[c], clock') BY <1>3, <1>o, <1>n, <1>t DEF TypeOK
<1>4. ASSUME pending' = pending, NEW c \in Callers
      PROVE  OK(pending'[c], clock') BY <1>4, <1>o
<1> DEFINE Sound == \A c \in Callers : OK(pending'[c], clock')
<1>5. ASSUME NEW w \in Workers, WorkerStep(w) PROVE Sound BY <1>5, <1>1, <1>3, <1>4
  DEF WorkerStep, AttemptStep, HeartbeatWrite, Abandon, ClaimNext, SucceedJob,
      SaveCheckpoint, MayCheckpoint, Callers
<1>6. ASSUME NEW b \in Callers, CallerStep(b) PROVE Sound BY <1>6, <1>2, <1>3, <1>4
  DEF CallerStep, ScheduleRetryWrite, Settle, FailJob, QuarantineJob,
      FinishCancelled, RequestCancel, RecoverTimedOutAttempt
<1>7. ASSUME SystemStep \/ Tick \/ UNCHANGED vars PROVE pending' = pending BY <1>7
  DEF SystemStep, CreateJob, ReclaimOrphans, ExpirePendingDeadlines, Tick, vars
<1>8. Sound BY <1>4, <1>5, <1>6, <1>7 DEF Next
<1> QED BY <1>8 DEF PendingSound

\* Attempt numbers never fall.
LEMMA AttemptsGrow ==
  ASSUME CatalogInv, [Next]_vars, NEW j \in Jobs
  PROVE  /\ jobs[j].attempt \in Nat /\ jobs'[j].attempt \in Nat
         /\ jobs[j].attempt <= jobs'[j].attempt
<1>0. jobs[j].attempt \in Nat BY RowFacts DEF CatalogInv
<1>1. ASSUME NEW k \in Jobs, NEW at \in Stamps, CreateJob(k, at)
      PROVE  jobs'[j].attempt = jobs[j].attempt BY <1>1, CreateColumns
<1>2. ASSUME NEW w \in Workers, NEW k \in Jobs, NEW at \in Stamps,
             ClaimNext(w, k, at)
      PROVE  jobs'[j].attempt \in {jobs[j].attempt, jobs[j].attempt + 1}
  <2>1. CASE j = k BY <1>2, <2>1, ClaimColumns
  <2>2. CASE j # k BY <1>2, <2>2, ClaimOthers
  <2> QED BY <2>1, <2>2
<1>3. ASSUME RowMove(j) PROVE jobs'[j].attempt = jobs[j].attempt
  BY <1>3, RowMoveColumns
<1>4. jobs'[j].attempt \in {jobs[j].attempt, jobs[j].attempt + 1}
  BY <1>1, <1>2, <1>3, StepCases
<1> QED BY <1>0, <1>4

\* A claim numbers its attempt above every attempt any worker still holds.
LEMMA NextDistinct ==
  ASSUME CatalogInv, [Next]_vars
  PROVE  AttemptsDistinct'
<1>t. /\ held \in [Workers -> Holding] /\ jobs \in [Jobs -> Row]
  BY DEF CatalogInv, TypeOK
<1>0. \A v, w \in Workers : held[v] # Idle =>
        /\ held[v].attempt <= jobs[held[v].job].attempt
        /\ v # w => held[v] # held[w] BY DEF CatalogInv, AttemptsDistinct
<1>h. \A v \in Workers : held[v] # Idle =>
        held[v].job \in Jobs /\ held[v].attempt \in Nat \ {0} BY <1>t DEF Holding
<1>b. ASSUME NEW v \in Workers, held[v] # Idle
      PROVE  held[v].attempt <= jobs'[held[v].job].attempt
  BY <1>b, <1>0, <1>h, AttemptsGrow
<1>1. ASSUME NEW w \in Workers, NEW k \in Jobs, NEW at \in Stamps,
             ClaimNext(w, k, at)
      PROVE  AttemptsDistinct'
  <2> DEFINE mine == [job |-> k, attempt |-> jobs[k].attempt + 1]
  <2>1. held' = [held EXCEPT ![w] = mine] BY <1>1 DEF ClaimNext, NextAttempt
  <2>2. jobs'[k].attempt = jobs[k].attempt + 1 /\ jobs[k].attempt \in Nat
    BY <1>1, <1>t DEF ClaimNext, NextAttempt, Row
  <2>3. \A v \in Workers : v # w => held[v] # mine
    <3> SUFFICES ASSUME NEW v \in Workers, v # w, held[v] = mine PROVE FALSE OBVIOUS
    <3>1. held[v].job = k /\ held[v].attempt = jobs[k].attempt + 1 OBVIOUS
    <3>2. held[v] # Idle BY <2>2, <3>1 DEF Idle
    <3> QED BY <1>0, <2>2, <3>1, <3>2
  <2>4. mine.job = k /\ mine.attempt = jobs[k].attempt + 1 OBVIOUS
  <2>5. ASSUME NEW v \in Workers, held'[v] # Idle
        PROVE  held'[v].attempt <= jobs'[held'[v].job].attempt
    BY <1>b, <1>t, <2>1, <2>2, <2>4, <2>5
  <2>6. ASSUME NEW u \in Workers, NEW v \in Workers, held'[v] # Idle, v # u
        PROVE  held'[v] # held'[u] BY <1>0, <1>t, <2>1, <2>3, <2>6
  <2> QED BY <2>5, <2>6 DEF AttemptsDistinct
<1>2. ASSUME NEW w \in Workers, Abandon(w) PROVE AttemptsDistinct'
  BY <1>2, <1>0, <1>b, <1>t DEF Abandon, AttemptsDistinct
<1>3. ASSUME held' = held PROVE AttemptsDistinct'
  BY <1>3, <1>0, <1>b DEF AttemptsDistinct
<1>4. ASSUME NEW w \in Workers, WorkerStep(w)
      PROVE  AttemptsDistinct' BY <1>1, <1>2, <1>3, <1>4
  DEF WorkerStep, AttemptStep, HeartbeatWrite, HeartbeatRead, SucceedJob,
      SaveCheckpoint
<1>5. ASSUME NEW c \in Callers, CallerStep(c) PROVE held' = held BY <1>5
  DEF CallerStep, ScheduleRetryRead, ScheduleRetryWrite, Settle, FailJob,
      QuarantineJob, FinishCancelled, RequestCancel, RecoverTimedOutAttempt
<1>6. CASE SystemStep \/ Tick \/ UNCHANGED vars BY <1>3, <1>6
  DEF SystemStep, CreateJob, ReclaimOrphans, ExpirePendingDeadlines, Tick, vars
<1> QED BY <1>3, <1>4, <1>5, <1>6 DEF Next

-----------------------------------------------------------------------------
(* The theorems. *)

LEMMA InitCatalogInv == Init => CatalogInv
<1> SUFFICES ASSUME Init PROVE CatalogInv OBVIOUS
<1>1. \A j \in Jobs : jobs[j] = AbsentRow BY DEF Init
<1>2. /\ LeaseMatchesAttempt /\ AttemptBudget /\ DependencyOrder
      /\ RetryBeforeDeadline /\ ArtifactsImplySuccess BY <1>1, SpecAssumption
  DEF AbsentRow, LeaseMatchesAttempt, AttemptBudget, DependencyOrder,
      RetryBeforeDeadline, ArtifactsImplySuccess, JobSpecType
<1>3. BoundedRecovery
  BY <1>1, LeaseAssumption DEF Init, AbsentRow, BoundedRecovery, NULL
<1>4. AttemptsDistinct /\ PendingSound
  BY DEF Init, AttemptsDistinct, PendingSound, NoCall
<1> QED BY <1>2, <1>3, <1>4, InitTypeOK DEF CatalogInv

\* CatalogInv is inductive.
LEMMA CatalogStep ==
  ASSUME CatalogInv, [Next]_vars
  PROVE  CatalogInv'
<1>1. TypeOK' BY NextTypeOK DEF CatalogInv
<1> QED
  BY <1>1, NextLease, NextBudget, NextDependency, NextRetry, NextRecovery,
    NextArtifacts, NextPending, NextDistinct
  DEF CatalogInv

THEOREM CatalogInvariant == Spec => []CatalogInv
BY InitCatalogInv, CatalogStep, PTL DEF Spec

\* Every variable keeps its type in every reachable state.
THEOREM TypeCorrect == Spec => []TypeOK
BY CatalogInvariant, PTL DEF CatalogInv

\* For any workers, operators, policies and clocks: a running job is leased
\* to its current attempt and no other row carries a usable token.
THEOREM LeaseSafety == Spec => []LeaseMatchesAttempt
BY CatalogInvariant, PTL DEF CatalogInv

\* No two workers ever believe they own the same attempt.
THEOREM AttemptExclusion == Spec => []AttemptsDistinct
BY CatalogInvariant, PTL DEF CatalogInv

\* No job is ever run more often than its max_attempts.
THEOREM BudgetSafety == Spec => []AttemptBudget
BY CatalogInvariant, PTL DEF CatalogInv

\* A job that ever started has only succeeded dependencies.
THEOREM DependencySafety == Spec => []DependencyOrder
BY CatalogInvariant, PTL DEF CatalogInv

\* Every scheduled retry can be claimed before the job deadline.
THEOREM RetrySafety == Spec => []RetryBeforeDeadline
BY CatalogInvariant, PTL DEF CatalogInv

\* A lost worker's job is reclaimable at most LeaseSeconds from now.
THEOREM RecoveryBound == Spec => []BoundedRecovery
BY CatalogInvariant, PTL DEF CatalogInv

\* Only the owner of the current attempt commits artifacts, and only once.
THEOREM CommitSafety == Spec => CommitByOwner
<1> DEFINE Step == \A j \in Jobs :
      jobs[j].artifact_set_id # jobs'[j].artifact_set_id =>
        /\ jobs[j].artifact_set_id = NULL
        /\ jobs'[j].state = "succeeded"
        /\ \E w \in Workers : held[w] = [job |-> j, attempt |-> jobs[j].attempt]
<1>1. CatalogInv /\ [Next]_vars => [Step]_vars
  <2> SUFFICES ASSUME CatalogInv, [Next]_vars, NEW j \in Jobs,
                      jobs[j].artifact_set_id # jobs'[j].artifact_set_id
               PROVE  /\ jobs[j].artifact_set_id = NULL
                      /\ jobs'[j].state = "succeeded"
                      /\ \E w \in Workers :
                           held[w] = [job |-> j, attempt |-> jobs[j].attempt] BY Zenon
  <2>1. Committed(j)
    <3>1. ASSUME NEW k \in Jobs, NEW at \in Stamps, CreateJob(k, at)
          PROVE  jobs'[j].artifact_set_id = jobs[j].artifact_set_id
      BY <3>1, CreateColumns
    <3>2. ASSUME NEW w \in Workers, NEW k \in Jobs, NEW at \in Stamps,
                 ClaimNext(w, k, at)
          PROVE  jobs'[j].artifact_set_id = jobs[j].artifact_set_id
      <4>1. CASE j = k BY <3>2, <4>1, ClaimColumns
      <4>2. CASE j # k BY <3>2, <4>2, ClaimOthers
      <4> QED BY <4>1, <4>2
    <3>3. ASSUME RowMove(j) PROVE Committed(j) BY <3>3, RowMoveColumns
    <3> QED BY <3>1, <3>2, <3>3, StepCases
  <2>2. PICK w \in Workers : /\ held[w] # Idle /\ held[w].job = j
                             /\ jobs[j].lease_token = Token(w) BY <2>1 DEF Committed
  <2>3. jobs'[j].state = "succeeded" /\ jobs[j].state = "running" BY <2>1, RowFacts
    DEF Committed, Released, Row, CatalogInv, AllowedTransitions
  <2>4. jobs[j].artifact_set_id = NULL BY <2>3 DEF CatalogInv, ArtifactsImplySuccess
  <2>5. held[w].attempt = jobs[j].attempt BY <2>2, OwnerIsCurrent DEF CatalogInv
  <2>6. held[w] = [job |-> j, attempt |-> jobs[j].attempt]
    BY <2>2, <2>5 DEF CatalogInv, TypeOK, Holding
  <2> QED BY <2>3, <2>4, <2>6
<1> QED BY <1>1, CatalogInvariant, PTL DEF Spec, CommitByOwner

-----------------------------------------------------------------------------
(* The checkpoint log. *)

\* The calls that leave or release an attempt keep the recovery position.
LEMMA PositionReleased ==
  ASSUME NEW row \in Row, NEW target, NEW until
  PROVE  Released(row, target, until).recovery_position = row.recovery_position
BY DEF Released, Row

LEMMA PositionRecovered ==
  ASSUME TypeOK, NEW j \in Jobs, NEW at, NEW code
  PROVE  Recovered(j, at, code).recovery_position = jobs[j].recovery_position
<1>1. jobs[j] \in Row BY DEF TypeOK
<1> QED BY <1>1, PositionReleased DEF Recovered

\* Only save_checkpoint touches the log and the position of a job.
LEMMA CheckpointCases ==
  ASSUME CatalogInv, [Next]_vars
  PROVE  \/ \E w \in Workers, p \in Positions, n \in Units, t \in Totals,
               at \in Stamps : SaveCheckpoint(w, p, n, t, at)
         \/ /\ checkpoints' = checkpoints
            /\ \A j \in Jobs :
                 jobs'[j].recovery_position = jobs[j].recovery_position
<1> DEFINE Kept == /\ checkpoints' = checkpoints
                   /\ \A j \in Jobs :
                        jobs'[j].recovery_position = jobs[j].recovery_position
<1>t. jobs \in [Jobs -> Row] /\ TypeOK BY DEF CatalogInv, TypeOK
<1>1. ASSUME NEW k \in Jobs, NEW row, row.recovery_position = jobs[k].recovery_position,
             jobs' = [jobs EXCEPT ![k] = row], checkpoints' = checkpoints
      PROVE  Kept BY <1>1, <1>t
<1>2. ASSUME jobs' = jobs, checkpoints' = checkpoints PROVE Kept BY <1>2
<1>h. \A w \in Workers : held[w] # Idle => held[w].job \in Jobs
  BY <1>t DEF TypeOK, Holding
<1>p. \A c \in Callers : pending[c] # NoCall => pending[c].job \in Jobs
  BY <1>t DEF TypeOK, Call
<1>3. ASSUME NEW k \in Jobs, NEW at \in Stamps, CreateJob(k, at) PROVE Kept
  BY <1>3, <1>t DEF CreateJob, Row
<1>4. ASSUME NEW w \in Workers, NEW k \in Jobs, NEW at \in Stamps,
             ClaimNext(w, k, at)
      PROVE  Kept BY <1>4, <1>t DEF ClaimNext, Row
<1>5. ASSUME NEW w \in Workers, HeartbeatWrite(w) PROVE Kept
  <2>1. pending[w].job \in Jobs BY <1>5, <1>p DEF HeartbeatWrite, NoCall, Callers
  <2> QED BY <1>5, <1>t, <2>1 DEF HeartbeatWrite, Row
<1>6. ASSUME NEW c \in Callers, ScheduleRetryWrite(c) PROVE Kept
  <2> DEFINE k == pending[c].job
             row == Released(jobs[k], "retrying", pending[c].until)
  <2>1. k \in Jobs BY <1>6, <1>p DEF ScheduleRetryWrite, NoCall
  <2>2. row.recovery_position = jobs[k].recovery_position
    BY <1>t, <2>1, PositionReleased
  <2>3. /\ checkpoints' = checkpoints
        /\ jobs' = jobs \/ jobs' = [jobs EXCEPT ![k] = row]
    BY <1>6 DEF ScheduleRetryWrite
  <2> HIDE DEF row, k
  <2> QED BY <1>1, <1>2, <2>1, <2>2, <2>3
<1>7. ASSUME NEW c \in Callers, NEW k \in Jobs, NEW at \in Stamps,
             NEW target, Settle(c, k, target, at)
      PROVE  Kept
  <2>1. Released(jobs[k], target, NULL).recovery_position = jobs[k].recovery_position
    BY <1>t, PositionReleased
  <2> QED BY <1>1, <1>7, <2>1 DEF Settle
<1>8. ASSUME NEW c \in Callers, NEW k \in Jobs, RequestCancel(c, k) PROVE Kept
  BY <1>8, <1>t DEF RequestCancel, Row
<1>9. ASSUME NEW w \in Workers, NEW set \in ArtifactSets, NEW at \in Stamps,
             SucceedJob(w, set, at)
      PROVE  Kept
  <2> DEFINE k == held[w].job
             old == Released(jobs[k], "succeeded", NULL)
             row == [old EXCEPT !.artifact_set_id = set]
  <2>1. k \in Jobs BY <1>9, <1>h DEF SucceedJob, MaySucceed
  <2>2. row.recovery_position = jobs[k].recovery_position
    BY <1>t, <2>1 DEF Released, Row
  <2>3. checkpoints' = checkpoints /\ jobs' = [jobs EXCEPT ![k] = row]
    BY <1>9 DEF SucceedJob
  <2> HIDE DEF row, k
  <2> QED BY <1>1, <2>1, <2>2, <2>3
<1>10. ASSUME NEW at \in Stamps, ReclaimOrphans(at) PROVE Kept
  BY <1>10, <1>t, PositionRecovered DEF ReclaimOrphans
<1>11. ASSUME NEW c \in Callers, NEW k \in Jobs, NEW at \in Stamps,
              RecoverTimedOutAttempt(c, k, at)
       PROVE  Kept
  <2>1. Recovered(k, at, "hard_timeout").recovery_position
          = jobs[k].recovery_position BY <1>t, PositionRecovered
  <2> QED BY <1>1, <1>11, <2>1 DEF RecoverTimedOutAttempt
<1>12. ASSUME NEW at \in Stamps, ExpirePendingDeadlines(at) PROVE Kept
  BY <1>12, <1>t DEF ExpirePendingDeadlines, Row
<1> QED BY <1>2, <1>3, <1>4, <1>5, <1>6, <1>7, <1>8, <1>9, <1>10, <1>11, <1>12
  DEF Next, WorkerStep, AttemptStep, CallerStep, SystemStep, FailJob, QuarantineJob,
      FinishCancelled, HeartbeatRead, ScheduleRetryRead, Abandon, Tick, vars

\* A log in order, as CheckpointOrder has it, whose last entry belongs to an
\* attempt up to a.
Ordered(log, a) ==
  /\ \A m, n \in 1 .. Len(log) : m < n =>
       /\ log[m].attempt <= log[n].attempt
       /\ log[m].completed_units <= log[n].completed_units
       /\ log[m].total_units \in {NULL, log[n].total_units}
       /\ log[m].recovery_position # log[n].recovery_position
  /\ Len(log) > 0 => log[Len(log)].attempt <= a

\* Appending what save_checkpoint admits keeps the order.
LEMMA OrderedAppend ==
  ASSUME NEW log \in Seq(Checkpoint), NEW new \in Checkpoint, NEW a \in Nat,
         Ordered(log, a), new.attempt = a,
         FollowsLatest(log, new.completed_units, new.total_units),
         \A i \in 1 .. Len(log) : log[i].recovery_position # new.recovery_position
  PROVE  Ordered(Append(log, new), a)
<1> DEFINE q == Len(log)
           all == Append(log, new)
<1>1. q \in Nat /\ Len(all) = q + 1 /\ all[q + 1] = new OBVIOUS
<1>2. \A i \in 1 .. q : all[i] = log[i] /\ log[i] \in Checkpoint OBVIOUS
<1>3. /\ new.completed_units \in Nat /\ new.attempt = a
      /\ \A i \in 1 .. q : log[i].attempt \in Nat /\ log[i].completed_units \in Nat
  BY <1>2 DEF Checkpoint
<1> HIDE DEF all
<1>4. ASSUME NEW m \in 1 .. q
      PROVE  /\ log[m].attempt <= a
             /\ log[m].completed_units <= new.completed_units
             /\ log[m].total_units \in {NULL, new.total_units}
             /\ log[m].recovery_position # new.recovery_position
  <2> DEFINE last == log[q]
  <2>1. q \in 1 .. q /\ q > 0 BY <1>1
  <2>2. /\ last.attempt <= a /\ last.completed_units <= new.completed_units
        /\ last.total_units \in {NULL, new.total_units}
    BY <2>1, <1>3 DEF Ordered, FollowsLatest
  <2>3. CASE m = q BY <2>2, <2>3
  <2>4. CASE m # q
    <3>1. m < q BY <1>1, <2>4
    <3>2. /\ log[m].attempt <= last.attempt
          /\ log[m].completed_units <= last.completed_units
          /\ log[m].total_units \in {NULL, last.total_units} BY <2>1, <3>1 DEF Ordered
    <3>3. /\ log[m].attempt \in Nat /\ last.attempt \in Nat
          /\ log[m].completed_units \in Nat /\ last.completed_units \in Nat
      BY <1>3, <2>1
    <3> HIDE DEF last
    <3> QED BY <1>3, <2>2, <3>2, <3>3
  <2> QED BY <2>3, <2>4
<1>5. ASSUME NEW m \in 1 .. Len(all), NEW n \in 1 .. Len(all), m < n
      PROVE  /\ all[m].attempt <= all[n].attempt
             /\ all[m].completed_units <= all[n].completed_units
             /\ all[m].total_units \in {NULL, all[n].total_units}
             /\ all[m].recovery_position # all[n].recovery_position
  <2>1. m \in 1 .. q /\ all[m] = log[m] BY <1>1, <1>2, <1>5
  <2>2. CASE n = q + 1 BY <1>1, <1>3, <1>4, <2>1, <2>2
  <2>3. CASE n # q + 1
    <3>1. n \in 1 .. q /\ all[n] = log[n] BY <1>1, <1>2, <2>3
    <3> QED BY <1>5, <2>1, <3>1 DEF Ordered
  <2> QED BY <2>2, <2>3
<1>6. all[Len(all)].attempt <= a BY <1>1, <1>3
<1> HIDE DEF q
<1>7. Ordered(all, a) BY <1>5, <1>6, Zenon DEF Ordered
<1> QED BY <1>7 DEF all

\* save_checkpoint, at whatever time, keeps every log in order.
LEMMA SaveKeepsOrder ==
  ASSUME CatalogInv, CheckpointOrder, NEW w \in Workers, NEW p \in Positions,
         NEW n \in Nat, NEW t \in Nat \union {NULL}, NEW at,
         SaveCheckpoint(w, p, n, t, at)
  PROVE  /\ CheckpointOrder'
         /\ checkpoints' \in [Jobs -> Seq(Checkpoint)]
         /\ checkpoints'[held[w].job] # <<>>
<1> DEFINE k == held[w].job
           a == jobs[k].attempt
           log == checkpoints[k]
           new == [attempt |-> a, recovery_position |-> p,
                   completed_units |-> n, total_units |-> t]
           all == Append(log, new)
<1>t. TypeOK /\ LeaseMatchesAttempt BY DEF CatalogInv
<1>c. /\ jobs \in [Jobs -> Row]
      /\ checkpoints \in [Jobs -> Seq(Checkpoint)] BY <1>t DEF TypeOK
<1>1. k \in Jobs /\ a \in Nat \ {0}
  BY <1>t, OwnerIsCurrent DEF SaveCheckpoint, MayCheckpoint, LeaseValid
<1>2. new \in Checkpoint BY <1>1 DEF Checkpoint
<1>3. log \in Seq(Checkpoint) /\ Ordered(log, a)
  BY <1>c, <1>1 DEF CheckpointOrder, Ordered
<1>4. /\ FollowsLatest(log, new.completed_units, new.total_units)
      /\ \A i \in 1 .. Len(log) : log[i].recovery_position # new.recovery_position
  BY DEF SaveCheckpoint, MayCheckpoint
<1>5. Ordered(all, a) BY <1>1, <1>2, <1>3, <1>4, OrderedAppend
<1>6. /\ all \in Seq(Checkpoint) /\ Len(all) > 0 /\ all # <<>>
      /\ all[Len(all)].recovery_position = p
  <2> DEFINE q == Len(log)
  <2>1. q \in Nat /\ all \in Seq(Checkpoint) /\ Len(all) = q + 1 /\ all[q + 1] = new
    BY <1>2, <1>3
  <2>2. new.recovery_position = p OBVIOUS
  <2>3. Len(<<>>) = 0 OBVIOUS
  <2> HIDE DEF all, new, q
  <2> QED BY <2>1, <2>2, <2>3
<1>7. /\ checkpoints' = [checkpoints EXCEPT ![k] = all]
      /\ jobs'[k].attempt = a /\ jobs'[k].recovery_position = p
      /\ \A j \in Jobs : j # k => jobs'[j] = jobs[j]
  BY <1>c, <1>1 DEF SaveCheckpoint, Row
<1> SUFFICES ASSUME NEW kk, kk = k
             PROVE  /\ CheckpointOrder'
                    /\ checkpoints' \in [Jobs -> Seq(Checkpoint)]
                    /\ checkpoints'[kk] # <<>> OBVIOUS
<1>8. /\ kk \in Jobs /\ checkpoints' = [checkpoints EXCEPT ![kk] = all]
      /\ jobs'[kk].attempt = a /\ jobs'[kk].recovery_position = p
      /\ \A j \in Jobs : j # kk => jobs'[j] = jobs[j] BY <1>1, <1>7
<1> HIDE DEF all, a, k, new, log
<1> DEFINE Good(l, row) ==
      /\ Ordered(l, row.attempt)
      /\ Len(l) > 0 => l[Len(l)].recovery_position = row.recovery_position
<1>9. \A j \in Jobs : Good(checkpoints[j], jobs[j]) BY DEF CheckpointOrder, Ordered
<1>10. Good(checkpoints'[kk], jobs'[kk]) /\ checkpoints'[kk] = all
  BY <1>c, <1>5, <1>6, <1>8
<1>11. ASSUME NEW j \in Jobs PROVE Good(checkpoints'[j], jobs'[j])
  <2>1. CASE j = kk BY <1>10, <2>1
  <2>2. CASE j # kk BY <1>c, <1>8, <1>9, <2>2
  <2> HIDE DEF Good
  <2> QED BY <2>1, <2>2
<1>12. CheckpointOrder' BY <1>11 DEF CheckpointOrder, Ordered
<1> QED BY <1>c, <1>6, <1>8, <1>10, <1>12

\* A step that leaves the logs and the positions alone keeps the order, as
\* attempt numbers never fall.
LEMMA LogKept ==
  ASSUME TypeOK, CheckpointOrder, checkpoints' = checkpoints,
         \A j \in Jobs : /\ jobs'[j].recovery_position = jobs[j].recovery_position
                        /\ jobs'[j].attempt \in Nat
                        /\ jobs[j].attempt <= jobs'[j].attempt
  PROVE  CheckpointOrder'
<1>c. /\ jobs \in [Jobs -> Row]
      /\ checkpoints \in [Jobs -> Seq(Checkpoint)] BY DEF TypeOK
<1> SUFFICES ASSUME NEW j \in Jobs
             PROVE  LET log == checkpoints'[j]
                    IN  /\ \A m, n \in 1 .. Len(log) : m < n =>
                             /\ log[m].attempt <= log[n].attempt
                             /\ log[m].completed_units <= log[n].completed_units
                             /\ log[m].total_units \in {NULL, log[n].total_units}
                             /\ log[m].recovery_position # log[n].recovery_position
                        /\ Len(log) > 0 =>
                             /\ log[Len(log)].attempt <= jobs'[j].attempt
                             /\ log[Len(log)].recovery_position
                                  = jobs'[j].recovery_position BY DEF CheckpointOrder
<1> DEFINE log == checkpoints[j]
<1>1. /\ jobs[j].attempt \in Nat /\ jobs'[j].attempt \in Nat
      /\ jobs[j].attempt <= jobs'[j].attempt BY <1>c DEF Row
<1>2. Len(log) > 0 => log[Len(log)].attempt \in Nat
  <2>1. log \in Seq(Checkpoint) /\ Len(log) \in Nat BY <1>c
  <2>2. ASSUME Len(log) > 0 PROVE log[Len(log)] \in Checkpoint BY <2>1, <2>2
  <2> QED BY <2>2 DEF Checkpoint
<1>3. Len(log) > 0 => log[Len(log)].attempt <= jobs'[j].attempt
  <2>1. Len(log) > 0 => log[Len(log)].attempt <= jobs[j].attempt BY DEF CheckpointOrder
  <2> HIDE DEF log
  <2> QED BY <1>1, <1>2, <2>1
<1> QED BY <1>3 DEF CheckpointOrder

LEMMA NextCheckpoint ==
  ASSUME CatalogInv, CheckpointOrder, [Next]_vars
  PROVE  CheckpointOrder'
<1>1. ASSUME NEW w \in Workers, NEW p \in Positions, NEW n \in Units,
             NEW t \in Totals, NEW at \in Stamps,
             SaveCheckpoint(w, p, n, t, at)
      PROVE  CheckpointOrder' BY <1>1, SaveKeepsOrder, CheckpointAssumption
<1>2. ASSUME checkpoints' = checkpoints,
             \A j \in Jobs : jobs'[j].recovery_position = jobs[j].recovery_position
      PROVE  CheckpointOrder' BY <1>2, LogKept, AttemptsGrow DEF CatalogInv
<1> QED BY <1>1, <1>2, CheckpointCases

\* The checkpoints of all attempts of a job form one log in order, and its
\* newest entry is where the next attempt resumes.
THEOREM CheckpointSafety == Spec => []CheckpointOrder
<1>1. Init => CheckpointOrder BY DEF Init, CheckpointOrder
<1>2. CatalogInv /\ CheckpointOrder /\ [Next]_vars => CheckpointOrder'
  BY NextCheckpoint
<1> QED BY <1>1, <1>2, CatalogInvariant, PTL DEF Spec

-----------------------------------------------------------------------------
(* Steps of the programs that use the catalog and that no Next step covers: *)
(* a call with a timestamp the caller held on to for longer than MaxLag, a  *)
(* checkpoint with any progress, and the end of the process of all workers. *)

\* CatalogInv survives any moves of the rows, whatever the call.
LEMMA MovesKeepCatalog ==
  ASSUME CatalogInv, TypeOK', UNCHANGED <<held, pending, clock>>,
         \A j \in Jobs : RowMove(j)
  PROVE  CatalogInv'
<1>t. /\ held \in [Workers -> Holding] /\ pending \in [Callers -> Call]
      /\ clock \in Nat /\ LeaseSeconds \in Nat
      /\ \A j \in Jobs : JobSpec[j].dependency_ids \subseteq Jobs
  BY SpecAssumption, LeaseAssumption DEF CatalogInv, TypeOK, JobSpecType
<1>a. \A j \in Jobs : jobs'[j].attempt = jobs[j].attempt BY RowMoveColumns
<1>1. LeaseMatchesAttempt'
  <2> SUFFICES ASSUME NEW j \in Jobs
               PROVE  /\ jobs'[j].state = "running" => jobs'[j].lease_token # NoLease
                      /\ jobs'[j].lease_token # NoLease =>
                           /\ jobs'[j].state \in ActiveStates
                           /\ jobs'[j].lease_token.attempt = jobs'[j].attempt
                           /\ jobs'[j].attempt_deadline_at # NULL
                           /\ jobs'[j].lease_expires_at # NULL
    BY DEF LeaseMatchesAttempt
  <2>1. /\ jobs[j].state = "running" => jobs[j].lease_token # NoLease
        /\ jobs[j].lease_token # NoLease =>
             /\ jobs[j].state \in ActiveStates
             /\ jobs[j].lease_token.attempt = jobs[j].attempt
             /\ jobs[j].attempt_deadline_at # NULL
             /\ jobs[j].lease_expires_at # NULL BY DEF CatalogInv, LeaseMatchesAttempt
  <2> QED BY <1>a, <2>1, RowMoveColumns DEF ActiveStates, NULL
<1>2. AttemptsDistinct' /\ AttemptBudget'
  BY <1>a, <1>t DEF CatalogInv, AttemptsDistinct, AttemptBudget, Holding
<1>3. DependencyOrder'
  <2>1. \A d \in Jobs : jobs[d].state = "succeeded" => jobs'[d].state = "succeeded"
    BY RowMoveColumns DEF AllowedTransitions
  <2> QED BY <1>a, <1>t, <2>1 DEF CatalogInv, DependencyOrder
<1>4. RetryBeforeDeadline'
  BY RowMoveColumns DEF CatalogInv, RetryBeforeDeadline, BeforeDeadline
<1>5. BoundedRecovery'
  <2> SUFFICES ASSUME NEW j \in Jobs
               PROVE  jobs'[j].lease_expires_at <= clock + LeaseSeconds
    BY DEF BoundedRecovery
  <2>1. jobs[j].lease_expires_at <= clock + LeaseSeconds
    BY DEF CatalogInv, BoundedRecovery
  <2>2. \/ jobs'[j].lease_expires_at \in {NULL, jobs[j].lease_expires_at}
        \/ jobs'[j].lease_expires_at <= clock + LeaseSeconds BY RowMoveColumns
  <2> QED BY <1>t, <2>1, <2>2 DEF NULL
<1>6. PendingSound' BY DEF CatalogInv, PendingSound, BeforeDeadline
<1>7. ArtifactsImplySuccess'
  <2> SUFFICES ASSUME NEW j \in Jobs, jobs'[j].artifact_set_id # NULL
               PROVE  jobs'[j].state = "succeeded" BY DEF ArtifactsImplySuccess
  <2>1. CASE Committed(j) BY <2>1, RowFacts DEF Committed, Released, Row, CatalogInv
  <2>2. CASE ~Committed(j)
    <3>1. /\ jobs'[j].artifact_set_id = jobs[j].artifact_set_id
          /\ jobs'[j].state = jobs[j].state \/ jobs[j].state # "succeeded"
      BY <2>2, RowMoveColumns DEF AllowedTransitions
    <3> QED BY <3>1 DEF CatalogInv, ArtifactsImplySuccess
  <2> QED BY <2>1, <2>2
<1> QED BY <1>1, <1>2, <1>3, <1>4, <1>5, <1>6, <1>7 DEF CatalogInv

\* publish commits with the `now` of its control check, which may be older
\* than any `now` of a single call.
LEMMA LateCommit ==
  ASSUME CatalogInv, NEW w \in Workers, NEW set \in ArtifactSets, NEW at \in Nat,
         SucceedJob(w, set, at)
  PROVE  CatalogInv'
<1>1. held[w].job \in Jobs /\ jobs \in [Jobs -> Row]
  BY DEF SucceedJob, MaySucceed, CatalogInv, TypeOK, Holding
<1>2. Released(jobs[held[w].job], "succeeded", NULL) \in Row
  BY <1>1, ReleasedType DEF RowState, JobState, TimeOrNull
<1>3. TypeOK' BY <1>1, <1>2 DEF SucceedJob, CatalogInv, TypeOK, Row
<1>4. \A j \in Jobs : RowMove(j) BY SucceedMoves DEF RowMove, PlainMove
<1> QED BY <1>3, <1>4, MovesKeepCatalog DEF SucceedJob

\* recover_timed_out_attempt gets the `now` of the check that ended the child.
LEMMA LateTimeout ==
  ASSUME CatalogInv, NEW w \in Workers, NEW k \in Jobs, NEW at \in Nat,
         RecoverTimedOutAttempt(w, k, at)
  PROVE  CatalogInv'
<1>1. TypeOK' BY RecoveredType DEF RecoverTimedOutAttempt, CatalogInv, TypeOK
<1>2. \A j \in Jobs : RowMove(j) BY PlainCalls DEF RowMove, Callers
<1> QED BY <1>1, <1>2, MovesKeepCatalog DEF RecoverTimedOutAttempt

\* A checkpoint may carry any progress.
LEMMA AnySave ==
  ASSUME CatalogInv, CheckpointOrder, NEW w \in Workers, NEW p \in Positions,
         NEW n \in Nat, NEW t \in Nat \union {NULL}, NEW at,
         SaveCheckpoint(w, p, n, t, at)
  PROVE  CatalogInv'
<1>1. checkpoints' \in [Jobs -> Seq(Checkpoint)] BY SaveKeepsOrder
<1>2. held[w].job \in Jobs /\ jobs \in [Jobs -> Row]
  BY DEF SaveCheckpoint, MayCheckpoint, CatalogInv, TypeOK, Holding
<1>3. jobs' \in [Jobs -> Row] BY <1>2, ZenonT(40) DEF SaveCheckpoint, Row
<1>4. TypeOK' BY <1>1, <1>3 DEF SaveCheckpoint, CatalogInv, TypeOK
<1>5. \A j \in Jobs : RowMove(j) BY SaveMoves DEF RowMove, PlainMove
<1> QED BY <1>4, <1>5, MovesKeepCatalog DEF SaveCheckpoint

\* A host that ends forgets what its workers held and what was half finished.
LEMMA ForgottenByAll ==
  ASSUME CatalogInv, held' = [w \in Workers |-> Idle],
         pending' = [c \in Callers |-> NoCall],
         UNCHANGED <<jobs, checkpoints, clock>>
  PROVE  CatalogInv'
<1>1. TypeOK' BY DEF CatalogInv, TypeOK, Holding, Call
<1>2. AttemptsDistinct' /\ PendingSound' BY DEF AttemptsDistinct, PendingSound, NoCall
<1> QED BY <1>1, <1>2
  DEF CatalogInv, LeaseMatchesAttempt, AttemptBudget, DependencyOrder,
      RetryBeforeDeadline, BoundedRecovery, ArtifactsImplySuccess

\* What a plain move leaves alone: it keeps the attempt, the recovery position
\* and the token (or clears it), and it does not make a job succeed.
LEMMA PlainKeeps ==
  ASSUME CatalogInv, NEW j \in Jobs, PlainMove(j)
  PROVE  /\ jobs'[j].attempt = jobs[j].attempt
         /\ jobs'[j].recovery_position = jobs[j].recovery_position
         /\ jobs'[j].lease_token \in {jobs[j].lease_token, NoLease}
         /\ jobs'[j].state = "succeeded" => jobs[j].state = "succeeded"
<1>1. jobs[j] \in Row BY DEF CatalogInv, TypeOK
<1> QED
  BY <1>1 DEF PlainMove, Renewed, CancelRequested, LeftAttempt, Expired, Released, Row

-----------------------------------------------------------------------------
(* Calls as the programs make them, one per step. *)

\* A worker names the job it claimed.
LEMMA NamedJob ==
  ASSUME CatalogInv, NEW w \in Workers, NEW j \in Named(w)
  PROVE  j = held[w].job /\ j \in Jobs /\ held[w] # Idle
BY DEF Named, CatalogInv, TypeOK, Holding, Idle

\* Tokens of different workers differ.
LEMMA TokenOwner ==
  ASSUME NEW v \in Workers, NEW w \in Workers, held[v] # Idle, held[w] # Idle,
         Token(v) = Token(w)
  PROVE  v = w
<1>1. [attempt |-> held[v].attempt, owner |-> v]
        = [attempt |-> held[w].attempt, owner |-> w] BY DEF Token
<1> QED BY <1>1

\* A worker's token is never the empty one.
LEMMA TokenExists ==
  ASSUME NEW w \in Workers, held[w] # Idle
  PROVE  Token(w) # NoLease
<1>1. Token(w) = [attempt |-> held[w].attempt, owner |-> w] /\ w # NULL
  BY CallerAssumption DEF Token
<1>2. Token(w).owner = w /\ NoLease.owner = NULL BY <1>1 DEF NoLease
<1> QED BY <1>1, <1>2

\* The logs and what the workers hold stay; every row keeps its attempt, its
\* position and its token (or loses it), and no job comes to succeed.
Undisturbed ==
  /\ checkpoints' = checkpoints /\ held' = held
  /\ \A j \in Jobs :
       /\ jobs'[j].attempt = jobs[j].attempt
       /\ jobs'[j].recovery_position = jobs[j].recovery_position
       /\ jobs'[j].lease_token \in {jobs[j].lease_token, NoLease}
       /\ jobs'[j].state = "succeeded" => jobs[j].state = "succeeded"

LEMMA PlainUndisturbs ==
  ASSUME CatalogInv, checkpoints' = checkpoints, held' = held,
         \A j \in Jobs : PlainMove(j)
  PROVE  Undisturbed
BY PlainKeeps DEF Undisturbed

\* A call that is stamped with the time at which it is made.
LEMMA ClockIsStamp ==
  ASSUME CatalogInv
  PROVE  clock \in Nat /\ clock \in Stamps
BY BoundAssumption DEF CatalogInv, TypeOK, Stamps

LEMMA Unmoved ==
  ASSUME CatalogInv, UNCHANGED vars
  PROVE  Undisturbed /\ CatalogInv'
<1>1. jobs' = jobs /\ checkpoints' = checkpoints /\ held' = held BY DEF vars
<1> QED BY <1>1, CatalogStep, PlainCalls, PlainUndisturbs

\* The calls that do so, each at the time it is made (a timeout recovery at
\* any time): they keep the catalog's invariant.
LEMMA UndisturbingCalls ==
  ASSUME CatalogInv,
         \/ \E w \in Workers : HeartbeatWrite(w) \/ HeartbeatRead(w, clock)
         \/ \E w \in Workers : ScheduleRetryWrite(w)
         \/ \E w \in Workers, j \in Jobs : \E code : ScheduleRetryRead(w, j, clock, code)
         \/ \E c \in Callers, j \in Jobs,
               target \in {"failed", "quarantined", "cancelled"} :
              Settle(c, j, target, clock)
         \/ \E b \in Operators, j \in Jobs : RequestCancel(b, j)
         \/ ReclaimOrphans(clock)
         \/ \E w \in Workers, j \in Jobs, at \in Nat : RecoverTimedOutAttempt(w, j, at)
  PROVE  Undisturbed /\ CatalogInv'
<1>c. clock \in Nat /\ clock \in Stamps BY ClockIsStamp
<1> USE DEF Callers
<1>1. ASSUME NEW w \in Workers, HeartbeatWrite(w) PROVE Undisturbed /\ CatalogInv'
  <2>1. CatalogInv' BY <1>1, CatalogStep DEF Next, WorkerStep, AttemptStep
  <2>2. \A j \in Jobs : PlainMove(j) BY <1>1, PlainCalls
  <2> QED BY <1>1, <2>1, <2>2, PlainUndisturbs DEF HeartbeatWrite
<1>2. ASSUME NEW w \in Workers, HeartbeatRead(w, clock) PROVE Undisturbed /\ CatalogInv'
  <2>1. CatalogInv' BY <1>2, <1>c, CatalogStep DEF Next, WorkerStep, AttemptStep
  <2>2. jobs' = jobs /\ checkpoints' = checkpoints /\ held' = held
    BY <1>2 DEF HeartbeatRead
  <2> QED BY <2>1, <2>2, PlainCalls, PlainUndisturbs
<1>3. ASSUME NEW w \in Workers, ScheduleRetryWrite(w) PROVE Undisturbed /\ CatalogInv'
  <2>1. CatalogInv' BY <1>3, CatalogStep DEF Next, CallerStep
  <2>2. \A j \in Jobs : PlainMove(j) BY <1>3, PlainCalls
  <2> QED BY <1>3, <2>1, <2>2, PlainUndisturbs DEF ScheduleRetryWrite
<1>4. ASSUME NEW w \in Workers, NEW j \in Jobs, NEW code,
             ScheduleRetryRead(w, j, clock, code)
      PROVE  Undisturbed /\ CatalogInv'
  <2>0. code \in JobSpec[j].retryable_error_codes
    BY <1>4 DEF ScheduleRetryRead, MayRetry
  <2>1. CatalogInv' BY <1>4, <1>c, <2>0, CatalogStep DEF Next, CallerStep
  <2>2. jobs' = jobs /\ checkpoints' = checkpoints /\ held' = held
    BY <1>4 DEF ScheduleRetryRead
  <2> QED BY <2>1, <2>2, PlainCalls, PlainUndisturbs
<1>5. ASSUME NEW c \in Callers, NEW j \in Jobs,
             NEW target \in {"failed", "quarantined", "cancelled"},
             Settle(c, j, target, clock)
      PROVE  Undisturbed /\ CatalogInv'
  <2>1. CatalogInv' BY <1>5, <1>c, CatalogStep
    DEF Next, CallerStep, FailJob, QuarantineJob, FinishCancelled
  <2>2. \A j1 \in Jobs : PlainMove(j1) BY <1>5, <1>c, PlainCalls
  <2> QED BY <1>5, <2>1, <2>2, PlainUndisturbs DEF Settle
<1>6. ASSUME NEW b \in Operators, NEW j \in Jobs, RequestCancel(b, j)
      PROVE  Undisturbed /\ CatalogInv'
  <2>1. CatalogInv' BY <1>6, CatalogStep DEF Next, CallerStep
  <2>2. \A j1 \in Jobs : PlainMove(j1) BY <1>6, PlainCalls
  <2> QED BY <1>6, <2>1, <2>2, PlainUndisturbs DEF RequestCancel
<1>7. CASE ReclaimOrphans(clock)
  <2>1. CatalogInv' BY <1>7, <1>c, CatalogStep DEF Next, SystemStep
  <2>2. \A j1 \in Jobs : PlainMove(j1) BY <1>7, <1>c, PlainCalls
  <2> QED BY <1>7, <2>1, <2>2, PlainUndisturbs DEF ReclaimOrphans
<1>8. ASSUME NEW w \in Workers, NEW j \in Jobs, NEW at \in Nat,
             RecoverTimedOutAttempt(w, j, at)
      PROVE  Undisturbed /\ CatalogInv'
  <2>1. CatalogInv' BY <1>8, LateTimeout
  <2>2. \A j1 \in Jobs : PlainMove(j1) BY <1>8, PlainCalls
  <2> QED BY <1>8, <2>1, <2>2, PlainUndisturbs DEF RecoverTimedOutAttempt
<1> QED BY <1>1, <1>2, <1>3, <1>4, <1>5, <1>6, <1>7, <1>8

-----------------------------------------------------------------------------
(* The catalog implements JobLifecycle. *)

\* A row that moves keeps its state or takes an edge of the table other than
\* the one into running, and keeps its attempt number.
LEMMA RowMoveFollowsTable ==
  ASSUME CatalogInv, NEW j \in Jobs, RowMove(j)
  PROVE  /\ jobs'[j].attempt = jobs[j].attempt
         /\ \/ jobs'[j].state = jobs[j].state
            \/ jobs'[j].state \in AllowedTransitions(jobs[j].state) \ {"running"}
<1>1. jobs'[j].attempt = jobs[j].attempt BY RowMoveColumns
<1>2. CASE jobs'[j].state = jobs[j].state BY <1>1, <1>2
<1>3. CASE /\ jobs'[j].state = "cancelling"
           /\ jobs[j].state \in {"queued", "running", "retrying"}
  BY <1>1, <1>3 DEF AllowedTransitions
<1>4. CASE /\ jobs'[j].state \in AllowedTransitions(jobs[j].state)
           /\ jobs'[j].state \in {"failed", "quarantined", "cancelled",
                                  "retrying", "succeeded"} BY <1>1, <1>4
<1> QED BY <1>2, <1>3, <1>4, RowMoveColumns

\* Every behaviour of the catalog is a behaviour of the published lifecycle:
\* states move along the table only, an attempt starts only at a claim, and a
\* claim never precedes a dependency or exceeds the budget.
THEOREM CatalogImplementsLifecycle == Spec => ImplementsLifecycle
<1> DEFINE st == [j \in Jobs |-> jobs[j].state]
           at0 == [j \in Jobs |-> jobs[j].attempt]
<1>1. Init => Lifecycle!Init BY DEF Init, Lifecycle!Init, AbsentRow
<1>2. CatalogInv /\ TypeOK' /\ [Next]_vars => [Lifecycle!Next]_(Lifecycle!vars)
  <2> SUFFICES ASSUME CatalogInv, TypeOK', [Next]_vars
               PROVE  [Lifecycle!Next]_(Lifecycle!vars) OBVIOUS
  <2>t. /\ jobs \in [Jobs -> Row] /\ jobs' \in [Jobs -> Row]
        /\ \A j \in Jobs : JobSpec[j].dependency_ids \subseteq Jobs
    BY SpecAssumption DEF CatalogInv, TypeOK, JobSpecType
  <2>1. ASSUME NEW k \in Jobs, NEW at \in Stamps, CreateJob(k, at)
        PROVE  Lifecycle!Create(k)
    <3>1. /\ jobs[k].state = "absent" /\ jobs'[k].state = "queued"
          /\ \A j \in Jobs : j # k => jobs'[j] = jobs[j]
          /\ jobs'[k].attempt = jobs[k].attempt BY <2>1, CreateColumns
    <3>2. \A d \in JobSpec[k].dependency_ids : jobs[d].state # "absent"
      BY <2>1 DEF CreateJob
    <3>3. st' = [st EXCEPT ![k] = "queued"] /\ at0' = at0 BY <3>1
    <3> QED BY <2>t, <3>1, <3>2, <3>3 DEF Lifecycle!Create
  <2>2. ASSUME NEW w \in Workers, NEW k \in Jobs, NEW at \in Stamps,
               ClaimNext(w, k, at)
        PROVE  Lifecycle!Claim(k)
    <3>1. /\ jobs[k].state \in PendingStates /\ jobs'[k].state = "running"
          /\ jobs[k].attempt < JobSpec[k].max_attempts
          /\ jobs'[k].attempt = jobs[k].attempt + 1 BY <2>2, ClaimColumns
    <3>2. \A d \in JobSpec[k].dependency_ids : jobs[d].state = "succeeded"
      BY <2>2, ClaimOthers
    <3>3. \A j \in Jobs : j # k => jobs'[j] = jobs[j] BY <2>2, ClaimOthers
    <3>4. "running" \in AllowedTransitions(jobs[k].state)
      BY <3>1 DEF PendingStates, AllowedTransitions
    <3>5. st' = [st EXCEPT ![k] = "running"] BY <3>1, <3>3
    <3>6. at0' = [at0 EXCEPT ![k] = at0[k] + 1] BY <3>1, <3>3
    <3> QED BY <2>t, <3>1, <3>2, <3>4, <3>5, <3>6
      DEF Lifecycle!Claim, Lifecycle!AllowedTransitions, AllowedTransitions
  <2>3. CASE \A j \in Jobs : RowMove(j)
    <3>1. \A j \in Jobs :
            /\ jobs'[j].attempt = jobs[j].attempt
            /\ \/ jobs'[j].state = jobs[j].state
               \/ jobs'[j].state \in AllowedTransitions(jobs[j].state)
                                       \ {"running"} BY <2>3, RowMoveFollowsTable
    <3>2. at0' = at0 BY <3>1
    <3>3. st' \in [Jobs -> RowState] BY <2>t DEF Row
    <3> QED BY <3>1, <3>2, <3>3
      DEF Lifecycle!Next, Lifecycle!Move, Lifecycle!AllowedTransitions,
          AllowedTransitions, Lifecycle!RowState, RowState,
          Lifecycle!JobState, JobState
  <2> QED BY <2>1, <2>2, <2>3, StepCases DEF Lifecycle!Next
<1>3. Spec => []CatalogInv /\ []TypeOK BY CatalogInvariant, TypeCorrect
<1> QED BY <1>1, <1>2, <1>3, PTL DEF Spec, ImplementsLifecycle, Lifecycle!Spec

============================================================================
