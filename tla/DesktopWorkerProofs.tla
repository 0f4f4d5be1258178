------------------------- MODULE DesktopWorkerProofs -------------------------
(***************************************************************************)
(* Proofs about DesktopWorker for any number of supervisor threads, jobs,  *)
(* host restarts and bridge calls, any lease length and any delay between  *)
(* the steps of a thread.                                                  *)
(***************************************************************************)
EXTENDS DesktopWorker, JobCatalogProofs

\* An attempt that recorded its completion and is being published.
Finishing == {"stage", "publish", "commit"}

\* The row still carries the token of the attempt that w works on.
Owns(w) == held[w] # Idle /\ jobs[Job(w)].lease_token = Token(w)

\* While the lease lasts, the completion of an attempt that is being published
\* is the newest checkpoint of its job.
Saved(w) ==
  (phase[w] \in Finishing /\ Owns(w)) =>
    /\ checkpoints[Job(w)] # <<>>
    /\ jobs[Job(w)].recovery_position = 10 * held[w].attempt + Complete

\* A child runs in the poll loop of its supervisor only.
ChildPolled(w) == child[w] = "running" => phase[w] = "poll"

ThreadTypeOK == /\ phase \in [Workers -> Phases]
                /\ child \in [Workers -> {"none", "running"} \union Exits]
                /\ now \in [Workers -> Nat]
                /\ stop \in BOOLEAN
                /\ bridge \in [Operators -> Jobs \union {0}]
                /\ hosts \in Nat

WorkerInv ==
  /\ CatalogInv
  /\ CheckpointOrder
  /\ ThreadTypeOK
  /\ SuccessIsComplete
  /\ \A w \in Workers : Saved(w) /\ ChildPolled(w)

-----------------------------------------------------------------------------
(* What a step of a thread does to its own variables. *)

\* The thread goes to p and leaves its child as c: a running child stays in
\* the poll loop, the loop is left with the tree down and the rows as they
\* were, and publication starts from the exit of the child.
Moves(w, p, c) ==
  /\ phase' = [phase EXCEPT ![w] = p]
  /\ child' = [child EXCEPT ![w] = c]
  /\ now' = now \/ now' = [now EXCEPT ![w] = clock]
  /\ UNCHANGED <<stop, bridge, hosts>>
  /\ c = "running" => p = "poll"
  /\ child[w] = "running" /\ p # phase[w] => jobs' = jobs
  /\ p \in Finishing => phase[w] \in Finishing \union {"exit"}

Local(w) ==
  \E p \in Phases, c \in {"none", "running"} \union Exits : Moves(w, p, c)

LEMMA LocalKeeps ==
  ASSUME WorkerInv, NEW w \in Workers, NEW p \in Phases,
         phase' = [phase EXCEPT ![w] = p], child' = child,
         child[w] # "running",
         now' = now \/ now' = [now EXCEPT ![w] = clock],
         UNCHANGED <<stop, bridge, hosts>>,
         p \in Finishing => phase[w] \in Finishing \union {"exit"}
  PROVE  Local(w)
<1>1. /\ child[w] \in {"none", "running"} \union Exits
      /\ child' = [child EXCEPT ![w] = child[w]] BY DEF WorkerInv, ThreadTypeOK
<1>2. Moves(w, p, child[w]) BY <1>1 DEF Moves
<1> QED BY <1>1, <1>2 DEF Local

\* A thread that is not in the poll loop has no running child.
LEMMA NoChild ==
  ASSUME WorkerInv, NEW w \in Workers, phase[w] # "poll"
  PROVE  child[w] # "running"
BY DEF WorkerInv, ChildPolled

\* The steps of the supervisor loop.
LEMMA LoopLocal ==
  ASSUME WorkerInv, NEW w \in Workers,
         \/ LoopEnds(w) \/ Recover(w) \/ Claim(w) \/ ClaimNothing(w)
         \/ LaunchFails(w) \/ RetryRead(w) \/ RetryWrite(w) \/ ExitCrashed(w)
         \/ Stage(w) \/ Publish(w)
  PROVE  Local(w)
<1>1. /\ \E p \in Phases : /\ phase' = [phase EXCEPT ![w] = p]
                           /\ p \in Finishing => phase[w] \in Finishing \union {"exit"}
      /\ child' = child /\ phase[w] # "poll"
      /\ now' = now \/ now' = [now EXCEPT ![w] = clock]
      /\ UNCHANGED <<stop, bridge, hosts>>
  BY DEF LoopEnds, Recover, Claim, ClaimNothing, LaunchFails, RetryRead, RetryWrite,
    ExitCrashed, Stage, Publish, At, Go, Keep, Phases, Finishing
<1> QED BY <1>1, NoChild, LocalKeeps

\* The steps that make one call and end the thread when it is refused.
LEMMA DoLocal ==
  ASSUME WorkerInv, NEW w \in Workers, NEW call, NEW allowed, NEW next \in Phases,
         Do(w, call, allowed, next), Keep, phase[w] # "poll",
         next \in Finishing => phase[w] = "exit"
  PROVE  Local(w)
<1>1. PICK p \in Phases : /\ phase' = [phase EXCEPT ![w] = p]
                          /\ p \in Finishing => phase[w] \in Finishing \union {"exit"}
  BY DEF Do, Go, Phases, Finishing
<1> QED BY <1>1, NoChild, LocalKeeps DEF Keep

LEMMA CallLocal ==
  ASSUME WorkerInv, NEW w \in Workers,
         \/ InputsInvalid(w) \/ SaveClaimed(w) \/ SaveHostStop(w)
         \/ SaveCancelled(w) \/ FinishCancel(w) \/ RecoverTimeout(w)
         \/ RetryFails(w) \/ ExitFailed(w) \/ ExitInvalid(w) \/ ExitOk(w)
         \/ Commit(w)
  PROVE  Local(w)
<1> USE DEF At, Phases, Finishing
<1>1. CASE InputsInvalid(w) BY <1>1, DoLocal, Zenon DEF InputsInvalid, End
<1>2. CASE SaveClaimed(w) BY <1>2, DoLocal DEF SaveClaimed, Save
<1>3. CASE SaveHostStop(w) \/ SaveCancelled(w)
  BY <1>3, DoLocal DEF SaveHostStop, SaveCancelled, Save
<1>4. CASE FinishCancel(w) \/ RetryFails(w)
  BY <1>4, DoLocal DEF FinishCancel, RetryFails, End
<1>5. CASE RecoverTimeout(w) BY <1>5, DoLocal DEF RecoverTimeout
<1>6. CASE ExitFailed(w) \/ ExitInvalid(w)
  BY <1>6, DoLocal DEF ExitFailed, ExitInvalid, End
<1>7. CASE ExitOk(w) BY <1>7, DoLocal DEF ExitOk, Save
<1>8. CASE Commit(w) BY <1>8, DoLocal DEF Commit
<1> QED BY <1>1, <1>2, <1>3, <1>4, <1>5, <1>6, <1>7, <1>8

\* The poll loop, the launch and the end of the child.
LEMMA PollLocal ==
  ASSUME WorkerInv, NEW w \in Workers,
         \/ Launch(w) \/ PollStop(w) \/ PollLost(w) \/ PollCancel(w)
         \/ PollTimeout(w) \/ PollHeartbeat(w) \/ PollHeartbeatWrite(w)
         \/ PollExit(w) \/ ChildExits(w) \/ Return(w)
  PROVE  Local(w)
<1>t. /\ phase \in [Workers -> Phases] /\ phase[w] \in Phases
      /\ child \in [Workers -> {"none", "running"} \union Exits]
      /\ child[w] \in {"none", "running"} \union Exits
      /\ phase = [phase EXCEPT ![w] = phase[w]]
      /\ child = [child EXCEPT ![w] = child[w]]
      /\ ChildPolled(w) BY DEF WorkerInv, ThreadTypeOK
<1>p. {"poll", "hostStop", "dead", "cancelAck", "timeout", "exit", "recover"}
        \subseteq Phases BY DEF Phases
<1>1. CASE Launch(w)
  <2>1. Moves(w, "poll", "running")
    BY <1>1, <1>t, NoChild DEF Launch, At, Go, Moves, Finishing
  <2> QED BY <1>p, <2>1 DEF Local
<1>2. CASE PollStop(w) \/ PollLost(w) \/ PollCancel(w) \/ PollTimeout(w)
  <2>1. \E p \in {"hostStop", "dead", "cancelAck", "timeout"} : Moves(w, p, "none")
    BY <1>2, <1>t
    DEF PollStop, PollLost, PollCancel, PollTimeout, Polling, Terminated, Go, Moves,
        Finishing, vars
  <2> QED BY <1>p, <2>1 DEF Local
<1>3. CASE PollHeartbeat(w)
  <2>1. Moves(w, phase[w], child[w]) \/ Moves(w, "dead", "none") BY <1>3, <1>t
    DEF PollHeartbeat, Polling, Terminated, Go, Moves, Finishing, vars, ChildPolled, At
  <2> QED BY <1>p, <1>t, <2>1 DEF Local
<1>4. CASE PollHeartbeatWrite(w)
  <2>1. Moves(w, phase[w], child[w])
    BY <1>4, <1>t DEF PollHeartbeatWrite, workerVars, Moves, ChildPolled
  <2> QED BY <1>t, <2>1 DEF Local
<1>5. CASE PollExit(w)
  <2>1. Moves(w, "exit", child[w])
    BY <1>5, <1>t DEF PollExit, Go, Keep, Moves, Finishing, Exits
  <2> QED BY <1>p, <1>t, <2>1 DEF Local
<1>6. CASE ChildExits(w)
  <2>1. PICK how \in Exits : child' = [child EXCEPT ![w] = how] BY <1>6 DEF ChildExits
  <2>2. Moves(w, phase[w], how) BY <1>6, <1>t, <2>1 DEF ChildExits, Moves, Exits
  <2> QED BY <1>t, <2>2 DEF Local
<1>7. CASE Return(w)
  <2>1. child[w] # "running" BY <1>7, NoChild DEF Return, At
  <2>2. Moves(w, "recover", "none")
    BY <1>7, <2>1 DEF Return, Go, Terminated, Moves, Finishing
  <2> QED BY <1>p, <2>2 DEF Local
<1> QED BY <1>1, <1>2, <1>3, <1>4, <1>5, <1>6, <1>7

LEMMA ThreadLocal ==
  ASSUME WorkerInv, NEW w \in Workers,
         ThreadStep(w) \/ PollHeartbeat(w) \/ ChildExits(w)
  PROVE  Local(w)
BY LoopLocal, CallLocal, PollLocal DEF ThreadStep

\* A step of the host, the bridge or the catalog's other users.
Outside == \/ \E b \in Operators : JobCancelFinish(b) \/ \E j \in Jobs : JobCancel(b, j)
           \/ \E j \in Jobs : EnqueueSearch(j) \/ EnqueueReplay(j)
           \/ CloseHost \/ ReclaimElsewhere \/ Time
           \/ UNCHANGED allVars

LEMMA OutsideTypes ==
  ASSUME WorkerInv, Outside
  PROVE  /\ UNCHANGED <<phase, child, now, hosts>>
         /\ stop' \in BOOLEAN
         /\ bridge' \in [Operators -> Jobs \union {0}]
BY DEF WorkerInv, ThreadTypeOK, Outside, JobCancelFinish, JobCancel, EnqueueSearch,
  EnqueueReplay, CloseHost, ReclaimElsewhere, Time, workerVars, allVars

LEMMA WorkerCases ==
  ASSUME [WorkerNext]_allVars
  PROVE  \/ \E w \in Workers : ThreadStep(w) \/ PollHeartbeat(w) \/ ChildExits(w)
         \/ NewHost
         \/ Outside
BY DEF WorkerNext, Outside

LEMMA ThreadTypes ==
  ASSUME WorkerInv, [WorkerNext]_allVars
  PROVE  ThreadTypeOK' /\ \A w \in Workers : ChildPolled(w)'
<1>t. ThreadTypeOK /\ clock \in Nat /\ \A w \in Workers : ChildPolled(w)
  BY DEF WorkerInv, CatalogInv, TypeOK
<1>1. ASSUME NEW w \in Workers, Local(w)
      PROVE  ThreadTypeOK' /\ \A v \in Workers : ChildPolled(v)'
  BY <1>1, <1>t DEF Local, Moves, ThreadTypeOK, ChildPolled
<1>2. CASE NewHost
  <2>1. /\ phase' = [w \in Workers |-> "recover"]
        /\ child' = [w \in Workers |-> "none"]
        /\ bridge' = [b \in Operators |-> 0]
        /\ hosts' = hosts + 1 /\ stop' = FALSE /\ now' = now BY <1>2 DEF NewHost
  <2>s. stop' \in BOOLEAN BY <2>1, Zenon
  <2>2. now' \in [Workers -> Nat] /\ hosts' \in Nat BY <1>t, <2>1 DEF ThreadTypeOK
  <2>3. /\ phase' \in [Workers -> Phases]
        /\ child' \in [Workers -> {"none", "running"} \union Exits]
        /\ bridge' \in [Operators -> Jobs \union {0}] BY <2>1 DEF Phases
  <2>4. \A w \in Workers : ChildPolled(w)' BY <2>1 DEF ChildPolled
  <2> QED BY <2>s, <2>2, <2>3, <2>4 DEF ThreadTypeOK
<1>3. CASE Outside BY <1>3, <1>t, OutsideTypes DEF ThreadTypeOK, ChildPolled
<1> QED BY <1>1, <1>2, <1>3, WorkerCases, ThreadLocal

-----------------------------------------------------------------------------
(* What a step does to the catalog. *)

\* A step of thread w that saves a checkpoint.
Saves(w) ==
  \E label \in {Claimed, HostStop, Cancelled, Complete}, n \in Nat, next \in Phases :
    /\ SaveCheckpoint(w, Position(w, label), n, Total[Job(w)], clock)
    /\ Go(w, next)
    /\ next \in Finishing => label = Complete

\* A step of thread w that commits the artifacts of its job.
Commits(w) ==
  /\ phase[w] = "commit" /\ Go(w, "return")
  /\ \E set \in ArtifactSets : SucceedJob(w, set, now[w])

\* A step that moves no thread into publication.
NoFinish == \A w \in Workers : phase'[w] \in Finishing => phase[w] \in Finishing

\* A step of the catalog that this program makes is one of these.
CallCases ==
  \/ Undisturbed /\ CatalogInv' /\ NoFinish
  \/ \E w \in Workers, j \in Jobs : ClaimNext(w, j, clock) /\ Go(w, "prepare")
  \/ \E w \in Workers : Abandon(w) /\ Go(w, "recover")
  \/ \E w \in Workers : Saves(w) \/ Commits(w)
  \/ NewHost

\* A step of a thread that does not start a publication.
LEMMA GoesOn ==
  ASSUME WorkerInv, NEW w \in Workers, NEW p, p \notin Finishing, Go(w, p)
  PROVE  NoFinish
BY DEF WorkerInv, ThreadTypeOK, Go, NoFinish

\* A call of a thread that may be refused: it happens, or nothing does.
LEMMA DoCases ==
  ASSUME WorkerInv, NEW w \in Workers, NEW next, next \notin Finishing,
         NEW call, NEW allowed, Do(w, call, allowed, next),
         call => Undisturbed /\ CatalogInv'
  PROVE  Undisturbed /\ CatalogInv' /\ NoFinish
<1>1. CASE call /\ Go(w, next) BY <1>1, GoesOn
<1>2. CASE Go(w, "dead") /\ UNCHANGED vars
  BY <1>2, Unmoved, GoesOn DEF WorkerInv, Finishing
<1> QED BY <1>1, <1>2 DEF Do

LEMMA EndCases ==
  ASSUME WorkerInv, NEW w \in Workers,
         NEW target \in {"failed", "quarantined", "cancelled"},
         End(w, target, "return")
  PROVE  CallCases
<1>1. CatalogInv BY DEF WorkerInv
<1>2. ASSUME Settle(w, Job(w), target, clock) PROVE Undisturbed /\ CatalogInv'
  <2>1. Job(w) \in Jobs BY <1>1, <1>2, NamedJob DEF Settle
  <2> QED BY <1>1, <1>2, <2>1, UndisturbingCalls DEF Callers
<1>3. Undisturbed /\ CatalogInv' /\ NoFinish BY <1>2, DoCases DEF End, Finishing
<1> QED BY <1>3 DEF CallCases

LEMMA SaveCases ==
  ASSUME WorkerInv, NEW w \in Workers,
         NEW label \in {Claimed, HostStop, Cancelled, Complete}, NEW n,
         held[w] # Idle => n \in Nat,
         NEW next \in Phases, next \in Finishing => label = Complete,
         Save(w, label, n, next)
  PROVE  CallCases
<1>1. CASE /\ SaveCheckpoint(w, Position(w, label), n, Total[Job(w)], clock)
           /\ Go(w, next)
  <2>1. n \in Nat BY <1>1 DEF SaveCheckpoint, MayCheckpoint
  <2> QED BY <1>1, <2>1 DEF Saves, CallCases
<1>2. CASE Go(w, "dead") /\ UNCHANGED vars
  BY <1>2, Unmoved, GoesOn DEF WorkerInv, Finishing, CallCases
<1> QED BY <1>1, <1>2 DEF Save, Do

\* Progress that a search resumes was checkpointed as a number.
LEMMA ResumedType ==
  ASSUME CatalogInv, NEW j \in Jobs
  PROVE  ResumedUnits(j) \in Nat
<1>1. checkpoints[j] \in Seq(Checkpoint) BY DEF CatalogInv, TypeOK
<1>2. ASSUME checkpoints[j] # <<>>
      PROVE  checkpoints[j][Len(checkpoints[j])].completed_units \in Nat
  <2> DEFINE log == checkpoints[j]
  <2>1. log \in Seq(Checkpoint) /\ log # <<>> BY <1>1, <1>2
  <2> HIDE DEF log
  <2>2. Len(log) \in 1 .. Len(log) BY <2>1
  <2>3. log[Len(log)] \in Checkpoint BY <2>1, <2>2
  <2>4. log[Len(log)].completed_units \in Nat BY <2>3 DEF Checkpoint
  <2> QED BY <2>4 DEF log
<1> QED BY <1>2 DEF ResumedUnits

LEMMA ThreadCalls ==
  ASSUME WorkerInv, NEW w \in Workers,
         ThreadStep(w) \/ PollHeartbeat(w) \/ ChildExits(w)
  PROVE  CallCases
<1>c. CatalogInv /\ ThreadTypeOK BY DEF WorkerInv
<1>h. held[w] # Idle => Job(w) \in Jobs BY <1>c DEF CatalogInv, TypeOK, Holding, Job
<1>u. ASSUME NEW p, Go(w, p), p \notin Finishing, UNCHANGED vars PROVE CallCases
  BY <1>c, <1>u, Unmoved, GoesOn DEF CallCases
<1>f. ASSUME UNCHANGED phase PROVE NoFinish BY <1>f DEF NoFinish
<1>p. \A p \in Phases : p \notin Finishing \/ p \in Finishing OBVIOUS
<1>1. CASE \/ LoopEnds(w) \/ ClaimNothing(w) \/ Launch(w) \/ LaunchFails(w)
           \/ PollStop(w) \/ PollLost(w) \/ PollCancel(w) \/ PollTimeout(w)
           \/ PollExit(w) \/ ExitCrashed(w)
  <2>1. UNCHANGED vars
    BY <1>1 DEF LoopEnds, ClaimNothing, Launch, LaunchFails, PollStop, PollLost,
      PollCancel, PollTimeout, PollExit, ExitCrashed, vars
  <2>2. \E p \in {"stopped", "recover", "poll", "retry", "hostStop", "dead",
                  "cancelAck", "timeout", "exit"} : Go(w, p)
    BY <1>1 DEF LoopEnds, ClaimNothing, Launch, LaunchFails, PollStop, PollLost,
      PollCancel, PollTimeout, PollExit, ExitCrashed
  <2> QED BY <1>u, <2>1, <2>2 DEF Finishing
<1>2. CASE Recover(w)
  <2>1. CASE ReclaimOrphans(clock) /\ Go(w, "claim")
    BY <1>c, <2>1, UndisturbingCalls, GoesOn DEF CallCases, Finishing
  <2>2. CASE UNCHANGED vars /\ Go(w, "claim") BY <1>u, <2>2 DEF Finishing
  <2> QED BY <1>2, <2>1, <2>2 DEF Recover
<1>3. CASE Claim(w) BY <1>3 DEF Claim, CallCases
<1>4. CASE Return(w) BY <1>4 DEF Return, CallCases
<1>5. CASE InputsInvalid(w) \/ FinishCancel(w) \/ RetryFails(w) \/ ExitFailed(w)
           \/ ExitInvalid(w)
  BY <1>5, EndCases DEF InputsInvalid, FinishCancel, RetryFails, ExitFailed, ExitInvalid
<1>6. CASE SaveClaimed(w)
  <2>1. held[w] # Idle => ResumedUnits(Job(w)) \in Nat BY <1>c, <1>h, ResumedType
  <2> QED BY <1>6, <2>1, SaveCases DEF SaveClaimed, Phases, Finishing
<1>7. CASE SaveHostStop(w) \/ SaveCancelled(w)
  BY <1>7, SaveCases DEF SaveHostStop, SaveCancelled, Phases, Finishing
<1>8. CASE ExitOk(w)
  <2>1. PICK n \in FinalUnits[Job(w)] : Save(w, Complete, n, "stage")
    BY <1>8 DEF ExitOk
  <2>2. held[w] # Idle => n \in Nat
    BY <1>h, <2>1, WorkerAssumption, CheckpointAssumption
  <2> QED BY <2>1, <2>2, SaveCases DEF Phases
<1>9. CASE RecoverTimeout(w)
  <2>1. ASSUME RecoverTimedOutAttempt(w, Job(w), now[w]) PROVE Undisturbed /\ CatalogInv'
    <3>1. Job(w) \in Jobs /\ now[w] \in Nat
      BY <1>c, <2>1, NamedJob DEF RecoverTimedOutAttempt, ThreadTypeOK
    <3> QED BY <1>c, <2>1, <3>1, UndisturbingCalls
  <2>2. Undisturbed /\ CatalogInv' /\ NoFinish
    BY <1>9, <2>1, DoCases DEF RecoverTimeout, Finishing
  <2> QED BY <2>2 DEF CallCases
<1>10. CASE RetryRead(w)
  <2>1. CASE /\ ScheduleRetryRead(w, Job(w), clock, "worker_crash")
             /\ Go(w, "retryWrite")
    <3>1. Job(w) \in Jobs BY <1>c, <2>1, NamedJob DEF ScheduleRetryRead
    <3> QED BY <1>c, <2>1, <3>1, UndisturbingCalls, GoesOn DEF CallCases, Finishing
  <2>2. CASE Go(w, "fail") /\ UNCHANGED vars BY <1>u, <2>2 DEF Finishing
  <2> QED BY <1>10, <2>1, <2>2 DEF RetryRead
<1>11. CASE RetryWrite(w)
  <2>1. \E p \in {"return", "fail", "dead"} : Go(w, p) BY <1>11 DEF RetryWrite
  <2>2. NoFinish BY <2>1, GoesOn DEF Finishing
  <2> QED BY <1>11, <1>c, <2>2, UndisturbingCalls DEF RetryWrite, CallCases
<1>12. CASE Stage(w) \/ Publish(w)
  <2>1. UNCHANGED vars /\ phase[w] \in Finishing /\ \E p : Go(w, p)
    BY <1>12 DEF Stage, Publish, At, Finishing
  <2>2. NoFinish BY <1>c, <2>1 DEF NoFinish, Go, ThreadTypeOK
  <2> QED BY <1>c, <2>1, <2>2, Unmoved DEF CallCases
<1>13. CASE Commit(w)
  <2>1. CASE Commits(w) BY <2>1 DEF CallCases
  <2>2. CASE Go(w, "dead") /\ UNCHANGED vars BY <1>u, <2>2 DEF Finishing
  <2> QED BY <1>13, <2>1, <2>2 DEF Commit, Commits, Do, At
<1>14. CASE PollHeartbeat(w)
  <2>1. CASE HeartbeatRead(w, clock) /\ UNCHANGED phase
    BY <1>c, <1>f, <2>1, UndisturbingCalls DEF CallCases
  <2>2. CASE Go(w, "dead") /\ UNCHANGED vars BY <1>u, <2>2 DEF Finishing
  <2> QED BY <1>14, <2>1, <2>2 DEF PollHeartbeat
<1>15. CASE PollHeartbeatWrite(w)
  BY <1>15, <1>c, <1>f, UndisturbingCalls DEF PollHeartbeatWrite, workerVars, CallCases
<1>16. CASE ChildExits(w) BY <1>16, <1>c, <1>f, Unmoved DEF ChildExits, CallCases
<1> QED BY <1>1, <1>2, <1>3, <1>4, <1>5, <1>6, <1>7, <1>8, <1>9, <1>10, <1>11, <1>12,
     <1>13, <1>14, <1>15, <1>16
  DEF ThreadStep

LEMMA OutsideCalls ==
  ASSUME WorkerInv, Outside
  PROVE  CallCases
<1>c. CatalogInv /\ clock \in Stamps /\ NoFinish
  BY ClockIsStamp, OutsideTypes DEF WorkerInv, NoFinish
<1>s. ASSUME [Next]_vars, checkpoints' = checkpoints, held' = held,
             \A j \in Jobs : PlainMove(j)
      PROVE  CallCases BY <1>c, <1>s, CatalogStep, PlainUndisturbs DEF CallCases
<1>u. ASSUME UNCHANGED vars PROVE CallCases BY <1>c, <1>u, Unmoved DEF CallCases
<1>1. ASSUME NEW b \in Operators, JobCancelFinish(b) PROVE CallCases
  <2>1. CASE FinishCancelled(b, bridge[b], clock)
    <3>1. bridge[b] \in Jobs BY <1>1 DEF JobCancelFinish, WorkerInv, ThreadTypeOK
    <3> QED
      BY <1>c, <2>1, <3>1, UndisturbingCalls DEF FinishCancelled, Callers, CallCases
  <2> QED BY <1>1, <1>u, <2>1 DEF JobCancelFinish
<1>2. ASSUME NEW b \in Operators, NEW j \in Jobs, JobCancel(b, j) PROVE CallCases
  BY <1>c, <1>2, UndisturbingCalls DEF JobCancel, CallCases
<1>3. ASSUME NEW k \in Jobs, CreateJob(k, clock) PROVE CallCases
  <2>1. CatalogInv' BY <1>c, <1>3, CatalogStep DEF Next, SystemStep
  <2>2. jobs \in [Jobs -> Row] BY <1>c DEF CatalogInv, TypeOK
  <2>3. Undisturbed BY <1>3, <2>2 DEF CreateJob, Undisturbed, Row
  <2> QED BY <1>c, <2>1, <2>3 DEF CallCases
<1>4. CASE ReclaimElsewhere
  BY <1>4, <1>c, UndisturbingCalls DEF ReclaimElsewhere, CallCases
<1>5. CASE Time
  <2>1. Tick /\ jobs' = jobs BY <1>5 DEF Time, Tick
  <2> QED BY <1>c, <1>s, <2>1, PlainCalls DEF Tick, Next
<1>6. CASE CloseHost \/ UNCHANGED allVars BY <1>6, <1>u DEF CloseHost, allVars
<1> QED BY <1>1, <1>2, <1>3, <1>4, <1>5, <1>6 DEF Outside, EnqueueSearch, EnqueueReplay

LEMMA StepCalls ==
  ASSUME WorkerInv, [WorkerNext]_allVars
  PROVE  CallCases
BY WorkerCases, ThreadCalls, OutsideCalls DEF CallCases

-----------------------------------------------------------------------------
(* Preservation, one lemma per kind of call. *)

\* The part of the invariant about checkpoints and success.
LogInv == CheckpointOrder /\ SuccessIsComplete /\ \A w \in Workers : Saved(w)

\* The parts of the invariant that the arguments below read.
LEMMA Facts ==
  ASSUME WorkerInv
  PROVE  /\ CatalogInv /\ TypeOK /\ LeaseMatchesAttempt /\ CheckpointOrder
         /\ SuccessIsComplete /\ \A w \in Workers : Saved(w)
         /\ jobs \in [Jobs -> Row] /\ checkpoints \in [Jobs -> Seq(Checkpoint)]
         /\ held \in [Workers -> Holding] /\ phase \in [Workers -> Phases]
         /\ \A j \in Jobs : jobs[j].attempt \in Nat
         /\ \A w \in Workers : held[w] # Idle =>
              held[w].job \in Jobs /\ held[w].attempt \in Nat \ {0}
BY DEF WorkerInv, CatalogInv, TypeOK, ThreadTypeOK, Holding, Row

LEMMA QuietStep ==
  ASSUME WorkerInv, Undisturbed, NoFinish
  PROVE  LogInv'
<1>1. CheckpointOrder' BY Facts, LogKept DEF Undisturbed
<1>2. SuccessIsComplete' BY Facts DEF Undisturbed, SuccessIsComplete
<1>3. ASSUME NEW w \in Workers PROVE Saved(w)'
  <2> SUFFICES ASSUME NEW h, h = held[w], phase'[w] \in Finishing, h # Idle,
                      jobs'[h.job].lease_token = Token(w)'
               PROVE  /\ checkpoints'[h.job] # <<>>
                      /\ jobs'[h.job].recovery_position = 10 * h.attempt + Complete
    BY DEF Saved, Owns, Job, Undisturbed
  <2>1. h.job \in Jobs /\ phase[w] \in Finishing BY Facts DEF NoFinish
  <2>2. Token(w)' = Token(w) BY DEF Token, Undisturbed
  <2>3. jobs[h.job].lease_token = Token(w) BY <2>1, <2>2, TokenExists DEF Undisturbed
  <2>4. /\ checkpoints[h.job] # <<>>
        /\ jobs[h.job].recovery_position = 10 * h.attempt + Complete
    BY <2>1, <2>3, Facts DEF Saved, Owns, Job
  <2> QED BY <2>1, <2>4 DEF Undisturbed
<1> QED BY <1>1, <1>2, <1>3 DEF LogInv

LEMMA ClaimStep ==
  ASSUME WorkerInv, NEW w \in Workers, NEW k \in Jobs, ClaimNext(w, k, clock),
         Go(w, "prepare")
  PROVE  CatalogInv' /\ LogInv'
<1>c. clock \in Stamps /\ CatalogInv BY ClockIsStamp DEF WorkerInv
<1>1. CatalogInv' BY <1>c, CatalogStep DEF Next, WorkerStep
<1>2. CheckpointOrder' BY <1>c, Facts, NextCheckpoint DEF Next, WorkerStep
<1>3. /\ jobs'[k].state = "running" /\ jobs[k].state # "succeeded"
      /\ jobs'[k].lease_token = [attempt |-> jobs[k].attempt + 1, owner |-> w]
      /\ \A j \in Jobs : j # k => jobs'[j] = jobs[j]
      /\ checkpoints' = checkpoints
      /\ \A v \in Workers : v # w => held'[v] = held[v]
  <2>1. /\ jobs'[k].state = "running" /\ jobs[k].state \in PendingStates
        /\ jobs'[k].lease_token = [attempt |-> jobs[k].attempt + 1, owner |-> w]
    BY <1>c, ClaimColumns
  <2>2. \A j \in Jobs : j # k => jobs'[j] = jobs[j] BY <1>c, ClaimOthers
  <2>3. checkpoints' = checkpoints /\ \A v \in Workers : v # w => held'[v] = held[v]
    BY Facts DEF ClaimNext
  <2> QED BY <2>1, <2>2, <2>3 DEF PendingStates
<1>4. SuccessIsComplete' BY <1>3, Facts DEF SuccessIsComplete
<1>5. ASSUME NEW v \in Workers PROVE Saved(v)'
  <2>1. CASE v = w BY <2>1, Facts DEF Saved, Go, Finishing
  <2>2. CASE v # w
    <3> SUFFICES ASSUME NEW h, h = held[v], phase'[v] \in Finishing, h # Idle,
                        jobs'[h.job].lease_token = Token(v)'
                 PROVE  /\ checkpoints'[h.job] # <<>>
                        /\ jobs'[h.job].recovery_position = 10 * h.attempt + Complete
      BY <1>3, <2>2 DEF Saved, Owns, Job
    <3>1. h.job \in Jobs /\ phase[v] \in Finishing BY <2>2, Facts DEF Go
    <3>2. /\ Token(v)' = Token(v)
          /\ Token(v) = [attempt |-> h.attempt, owner |-> v] BY <1>3, <2>2 DEF Token
    <3>3. h.job # k
      <4> SUFFICES ASSUME h.job = k PROVE FALSE OBVIOUS
      <4>1. jobs'[k].lease_token.owner = w /\ Token(v).owner = v BY <1>3, <3>2
      <4> QED BY <2>2, <3>2, <4>1
    <3>4. jobs'[h.job] = jobs[h.job] /\ jobs[h.job].lease_token = Token(v)
      BY <1>3, <3>1, <3>2, <3>3
    <3>5. /\ checkpoints[h.job] # <<>>
          /\ jobs[h.job].recovery_position = 10 * h.attempt + Complete
      BY <3>1, <3>4, Facts DEF Saved, Owns, Job
    <3> QED BY <1>3, <3>4, <3>5
  <2> QED BY <2>1, <2>2
<1> QED BY <1>1, <1>2, <1>4, <1>5 DEF LogInv

\* A thread that moves on, or a host that ends, forgets what it held.
LEMMA ForgetStep ==
  ASSUME WorkerInv, UNCHANGED <<jobs, checkpoints>>,
         \A v \in Workers : \/ held'[v] = held[v] /\ phase'[v] = phase[v]
                            \/ phase'[v] = "recover"
  PROVE  LogInv'
<1>1. CheckpointOrder' /\ SuccessIsComplete'
  BY Facts DEF CheckpointOrder, SuccessIsComplete
<1>2. ASSUME NEW v \in Workers PROVE Saved(v)'
  <2>1. CASE phase'[v] = "recover" BY <2>1 DEF Saved, Finishing
  <2>2. CASE held'[v] = held[v] /\ phase'[v] = phase[v]
    <3>1. Token(v)' = Token(v) BY <2>2 DEF Token
    <3> QED BY <2>2, <3>1, Facts DEF Saved, Owns, Job
  <2> QED BY <2>1, <2>2
<1> QED BY <1>1, <1>2 DEF LogInv

LEMMA ReturnStep ==
  ASSUME WorkerInv, NEW w \in Workers, Abandon(w), Go(w, "recover")
  PROVE  CatalogInv' /\ LogInv'
<1>1. CatalogInv' BY CatalogStep DEF WorkerInv, Next, WorkerStep
<1>2. UNCHANGED <<jobs, checkpoints>> BY DEF Abandon
<1>3. \A v \in Workers : \/ held'[v] = held[v] /\ phase'[v] = phase[v]
                         \/ phase'[v] = "recover" BY Facts DEF Abandon, Go
<1> QED BY <1>1, <1>2, <1>3, ForgetStep

LEMMA NewHostStep ==
  ASSUME WorkerInv, NewHost
  PROVE  CatalogInv' /\ LogInv'
<1>1. CatalogInv' BY ForgottenByAll DEF NewHost, WorkerInv
<1>2. UNCHANGED <<jobs, checkpoints>> /\ \A v \in Workers : phase'[v] = "recover"
  BY DEF NewHost
<1> QED BY <1>1, <1>2, ForgetStep

\* A checkpoint lands on the row of its owner, under the position of the
\* attempt that is being run.
LEMMA SaveStep ==
  ASSUME WorkerInv, NEW w \in Workers, Saves(w)
  PROVE  CatalogInv' /\ LogInv'
<1>1. PICK label \in {Claimed, HostStop, Cancelled, Complete}, n \in Nat,
           next \in Phases :
        /\ SaveCheckpoint(w, Position(w, label), n, Total[Job(w)], clock)
        /\ Go(w, next)
        /\ next \in Finishing => label = Complete BY DEF Saves
<1> SUFFICES ASSUME NEW h, h = held[w], NEW k, k = held[w].job
             PROVE  CatalogInv' /\ LogInv' OBVIOUS
<1>2. /\ h # Idle /\ k = h.job /\ h.job \in Jobs /\ h.attempt \in Nat \ {0}
      /\ jobs[h.job].lease_token = Token(w)
      /\ jobs[h.job].attempt = h.attempt
      /\ jobs[h.job].state \in ActiveStates
  BY <1>1, Facts, OwnerIsCurrent DEF SaveCheckpoint, MayCheckpoint, LeaseValid
<1>3. Position(w, label) \in Positions
  <2>1. h.attempt <= JobSpec[h.job].max_attempts
    BY <1>2, Facts DEF CatalogInv, AttemptBudget
  <2>2. h.attempt \in 1 .. JobSpec[h.job].max_attempts
    BY <1>2, <2>1, SpecAssumption DEF JobSpecType
  <2> QED BY <1>2, <2>2, PositionAssumption DEF Position
<1>4. Total[Job(w)] \in Nat \union {NULL}
  BY <1>2, WorkerAssumption, CheckpointAssumption DEF Job
<1>5. CatalogInv' /\ CheckpointOrder' /\ checkpoints'[k] # <<>>
  BY <1>1, <1>3, <1>4, Facts, AnySave, SaveKeepsOrder
<1>6. /\ held' = held
      /\ jobs'[k].recovery_position = 10 * h.attempt + label
      /\ jobs'[k].state \in ActiveStates
      /\ \A j \in Jobs : j # k => jobs'[j] = jobs[j] /\ checkpoints'[j] = checkpoints[j]
  BY <1>1, <1>2, Facts DEF SaveCheckpoint, Position, Row
<1>7. SuccessIsComplete' BY <1>2, <1>6, Facts DEF SuccessIsComplete, ActiveStates
<1>8. ASSUME NEW v \in Workers PROVE Saved(v)'
  <2>1. CASE v = w
    <3>1. phase'[w] = next /\ held'[w] = h BY <1>1, <1>6, Facts DEF Go
    <3> QED BY <1>1, <1>2, <1>5, <1>6, <2>1, <3>1 DEF Saved, Job
  <2>2. CASE v # w
    <3> SUFFICES ASSUME NEW g, g = held[v], phase'[v] \in Finishing, g # Idle,
                        jobs'[g.job].lease_token = Token(v)'
                 PROVE  /\ checkpoints'[g.job] # <<>>
                        /\ jobs'[g.job].recovery_position = 10 * g.attempt + Complete
      BY <1>6 DEF Saved, Owns, Job
    <3>1. g.job \in Jobs /\ phase[v] \in Finishing BY <1>1, <2>2, Facts DEF Go
    <3>2. Token(v)' = Token(v) BY <1>6 DEF Token
    <3>3. jobs'[k].lease_token = jobs[k].lease_token
      BY <1>1, <1>2, Facts DEF SaveCheckpoint, Row
    <3>4. g.job # k BY <1>2, <2>2, <3>2, <3>3, TokenOwner
    <3>5. jobs'[g.job] = jobs[g.job] /\ checkpoints'[g.job] = checkpoints[g.job]
      BY <1>6, <3>1, <3>4
    <3>6. /\ checkpoints[g.job] # <<>>
          /\ jobs[g.job].recovery_position = 10 * g.attempt + Complete
      BY <3>1, <3>2, <3>5, Facts DEF Saved, Owns, Job
    <3> QED BY <3>5, <3>6
  <2> QED BY <2>1, <2>2
<1> QED BY <1>5, <1>7, <1>8 DEF LogInv

\* The commit happens under the token under which the completion was saved.
LEMMA CommitStep ==
  ASSUME WorkerInv, NEW w \in Workers, Commits(w)
  PROVE  CatalogInv' /\ LogInv'
<1>1. PICK set \in ArtifactSets : SucceedJob(w, set, now[w]) BY DEF Commits
<1> SUFFICES ASSUME NEW h, h = held[w], NEW k, k = held[w].job
             PROVE  CatalogInv' /\ LogInv' OBVIOUS
<1>2. /\ h # Idle /\ k = h.job /\ k \in Jobs /\ h.attempt \in Nat \ {0}
      /\ jobs[k].lease_token = Token(w)
      /\ jobs[k].attempt = h.attempt
  BY <1>1, Facts, OwnerIsCurrent DEF SucceedJob, MaySucceed, LeaseValid
<1>3. CatalogInv'
  <2>1. now[w] \in Nat BY DEF WorkerInv, ThreadTypeOK
  <2> QED BY <1>1, <2>1, Facts, LateCommit
<1>4. /\ checkpoints[k] # <<>>
      /\ jobs[k].recovery_position = 10 * h.attempt + Complete
  BY <1>2, Facts DEF Commits, Saved, Owns, Job, Finishing
<1>5. /\ held' = held /\ checkpoints' = checkpoints
      /\ \A j \in Jobs : j # k => jobs'[j] = jobs[j]
      /\ jobs'[k].attempt = jobs[k].attempt
      /\ jobs'[k].recovery_position = jobs[k].recovery_position
      /\ jobs'[k].lease_token = NoLease
  BY <1>1, <1>2, Facts DEF SucceedJob, Released, Row
<1>6. CheckpointOrder'
  <2>1. ASSUME NEW j \in Jobs
        PROVE  /\ jobs'[j].recovery_position = jobs[j].recovery_position
               /\ jobs'[j].attempt = jobs[j].attempt
               /\ jobs[j].attempt \in Nat BY <1>5, Facts
  <2>2. \A j \in Jobs : /\ jobs'[j].recovery_position = jobs[j].recovery_position
                       /\ jobs'[j].attempt \in Nat
                       /\ jobs[j].attempt <= jobs'[j].attempt BY <2>1
  <2> QED BY <1>5, <2>2, Facts, LogKept
<1>7. SuccessIsComplete' BY <1>2, <1>4, <1>5, Facts DEF SuccessIsComplete
<1>8. ASSUME NEW v \in Workers PROVE Saved(v)'
  <2>1. CASE v = w BY <2>1, Facts DEF Commits, Go, Saved, Finishing
  <2>2. CASE v # w
    <3> SUFFICES ASSUME NEW g, g = held[v], phase'[v] \in Finishing, g # Idle,
                        jobs'[g.job].lease_token = Token(v)'
                 PROVE  /\ checkpoints'[g.job] # <<>>
                        /\ jobs'[g.job].recovery_position = 10 * g.attempt + Complete
      BY <1>5 DEF Saved, Owns, Job
    <3>1. g.job \in Jobs /\ phase[v] \in Finishing BY <2>2, Facts DEF Commits, Go
    <3>2. Token(v)' = Token(v) /\ Token(v) # NoLease BY <1>5, TokenExists DEF Token
    <3>3. jobs'[g.job] = jobs[g.job] BY <1>5, <3>1, <3>2
    <3>4. /\ checkpoints[g.job] # <<>>
          /\ jobs[g.job].recovery_position = 10 * g.attempt + Complete
      BY <3>1, <3>2, <3>3, Facts DEF Saved, Owns, Job
    <3> QED BY <1>5, <3>3, <3>4
  <2> QED BY <2>1, <2>2
<1> QED BY <1>3, <1>6, <1>7, <1>8 DEF LogInv

-----------------------------------------------------------------------------
(* The theorems. *)

LEMMA WorkerInitially == WorkerInit => WorkerInv
<1> SUFFICES ASSUME WorkerInit PROVE WorkerInv OBVIOUS
<1>1. CatalogInv BY InitCatalogInv DEF WorkerInit
<1>2. CheckpointOrder /\ SuccessIsComplete
  BY DEF WorkerInit, Init, CheckpointOrder, SuccessIsComplete, AbsentRow
<1>3. /\ phase \in [Workers -> Phases]
      /\ child \in [Workers -> {"none", "running"} \union Exits]
      /\ now \in [Workers -> Nat] /\ hosts \in Nat
      /\ bridge \in [Operators -> Jobs \union {0}] BY DEF WorkerInit, Phases
<1>4. stop \in BOOLEAN BY Zenon DEF WorkerInit
<1>5. \A w \in Workers : Saved(w) /\ ChildPolled(w)
  BY DEF WorkerInit, Saved, ChildPolled, Finishing
<1> QED BY <1>1, <1>2, <1>3, <1>4, <1>5 DEF WorkerInv, ThreadTypeOK

LEMMA WorkerInvStep ==
  ASSUME WorkerInv, [WorkerNext]_allVars
  PROVE  WorkerInv'
<1>1. CatalogInv' /\ LogInv'
  BY StepCalls, QuietStep, ClaimStep, ReturnStep, SaveStep, CommitStep, NewHostStep
  DEF CallCases
<1> QED BY <1>1, ThreadTypes DEF WorkerInv, LogInv

\* WorkerInv is inductive.
LEMMA WorkerInvariant == WorkerSpec => []WorkerInv
BY WorkerInitially, WorkerInvStep, PTL DEF WorkerSpec

\* For any number of threads, jobs, restarts and delays: every variable has its
\* type, the checkpoints of all attempts of a job form one log in order, and a
\* job that succeeded ends its log with the completion of its own last attempt.
THEOREM WorkerSafety == WorkerSpec => []WorkerCorrect
<1>1. WorkerInv => WorkerCorrect
  BY DEF WorkerInv, WorkerCorrect, WorkerTypeOK, ThreadTypeOK, CatalogInv
<1> QED BY <1>1, WorkerInvariant, PTL

\* The process tree of an attempt is down before the worker moves its job out
\* of the attempt: no step that takes a thread on while its child runs changes
\* the row of the job.
THEOREM TreeDown == WorkerSpec => TreeDownBeforeTransition
<1> DEFINE Step == \A w \in Workers :
      child[w] = "running" /\ phase'[w] # phase[w] =>
        jobs'[Job(w)].state = jobs[Job(w)].state
<1>1. WorkerInv /\ [WorkerNext]_allVars => [Step]_allVars
  <2> SUFFICES ASSUME WorkerInv, [WorkerNext]_allVars, NEW w \in Workers,
                      child[w] = "running", phase'[w] # phase[w]
               PROVE  jobs' = jobs BY Zenon
  <2>1. ASSUME NEW v \in Workers, Local(v) PROVE jobs' = jobs
    <3>1. PICK p \in Phases : \E c \in {"none", "running"} \union Exits : Moves(v, p, c)
      BY <2>1 DEF Local
    <3>2. v = w /\ p # phase[w] BY <3>1, Facts DEF Moves
    <3> QED BY <3>1, <3>2 DEF Moves
  <2>2. CASE NewHost BY <2>2 DEF NewHost
  <2>3. CASE Outside BY <2>3, OutsideTypes
  <2> QED BY <2>1, <2>2, <2>3, WorkerCases, ThreadLocal
<1> QED BY <1>1, WorkerInvariant, PTL DEF WorkerSpec, TreeDownBeforeTransition

============================================================================
