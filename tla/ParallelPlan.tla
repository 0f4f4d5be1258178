---------------------------- MODULE ParallelPlan ----------------------------
(***************************************************************************)
(* engine/search/parallel.py (ParallelExecutionPlan) driven the way        *)
(* prototype/real_core_stress.py drives it: a plan is built from           *)
(* candidates, a pool of threads runs the tasks with retries, and the      *)
(* results are aggregated whatever order they finished in.  The driver     *)
(* repeats the plan with several pool sizes, then once more with injected  *)
(* failures, and raises unless the runs agree.  FrontierWorker retries     *)
(* too; what holds of the attempts of both is stated together at the end.  *)
(***************************************************************************)
EXTENDS FrontierWorker, Integers, Sequences, FiniteSets

CONSTANTS
  Submissions,  \* the candidate lists a plan may be built from
  PpPools,      \* pool_sizes: policy.pool_size of one run after the other
  FailurePool,  \* pool_size of the run with injected failures
  PpRetries     \* policy.max_retries

(* Submissions are lists of candidates, PpPools is a list of sizes.        *)
ASSUME PlanAssumption ==
  /\ \A cs \in Submissions :
       /\ Len(cs) \in Nat
       /\ \A i \in 1..Len(cs) : cs[i].work \in Nat
  /\ Len(PpPools) \in Nat /\ \A i \in 1..Len(PpPools) : PpPools[i] \in Nat
  /\ FailurePool \in Nat /\ PpRetries \in Nat

VARIABLE ppPlan \* tasks, the threads running them, what they returned, and
                \* what the driver keeps from run to run

FailureRun == ppPlan.run > Len(PpPools)
PpPool == IF FailureRun THEN FailurePool ELSE PpPools[ppPlan.run]

(* A candidate is [id, node, work].  build keeps the first candidate of    *)
(* each work key, in work key order, and rejects a work key that names two *)
(* nodes.                                                                  *)
Works(cs) == {cs[i].work : i \in 1..Len(cs)}
OfWork(cs, w) == {c \in {cs[i] : i \in 1..Len(cs)} : c.work = w}
Conflict(cs) ==
  \E w \in Works(cs) : Cardinality({c.node : c \in OfWork(cs, w)}) > 1
Kept(cs, w) == CHOOSE c \in OfWork(cs, w) :
                 \A d \in OfWork(cs, w) : c.id <= d.id
Build(cs) ==
  LET rank(w) == Cardinality({v \in Works(cs) : v < w})
  IN [i \in 1..Cardinality(Works(cs)) |->
        Kept(cs, CHOOSE w \in Works(cs) : rank(w) = i - 1)]

NoRun == [pc |-> "queued", results |-> <<>>]

PpInit ==
  \E cs \in Submissions :
    ppPlan = [pc |-> IF Conflict(cs) THEN "rejected" ELSE "running",
            tasks |-> IF Conflict(cs) THEN <<>> ELSE Build(cs),
            runs |-> [i \in 1..Len(Build(cs)) |-> NoRun],
            completed |-> <<>>, aggregate |-> "none",
            run |-> 1, answers |-> <<>>, baseline |-> "none", failed |-> {}]

Tasks == 1..Len(ppPlan.tasks)
Running == {i \in Tasks : ppPlan.runs[i].pc = "running"}

(* The executor starts queued tasks in submission order on idle threads.   *)
PpStart(i) ==
  /\ ppPlan.pc = "running" /\ ppPlan.runs[i].pc = "queued"
  /\ \A j \in 1..(i - 1) : ppPlan.runs[j].pc # "queued"
  /\ Cardinality(Running) < PpPool
  /\ ppPlan' = [ppPlan EXCEPT !.runs[i].pc = "running"]

Result(i, n, status, score) ==
  [task |-> i, attempt |-> n, status |-> status, score |-> score]
AttemptStatuses == {"success", "retryable", "permanent", "experiment"}

(* _failure_schedules: the first attempt of every task fails, and both     *)
(* attempts of the last one.                                               *)
Injected(i, n) == FailureRun /\ (n = 0 \/ (n = 1 /\ i = Len(ppPlan.tasks)))

(* A worker is a fresh process with the seeds of its task: a later run of  *)
(* the pools gets the answers of the first one.                            *)
Answered(i, n, status, score) ==
  /\ Injected(i, n) => status = "retryable"
  /\ ppPlan.run \in 2..Len(PpPools) =>
       Result(i, n, status, score) = ppPlan.answers[i][n + 1]

(* _execute_task, one attempt: stop after a success or a failure that is   *)
(* not retryable, or when the attempts are used up.                        *)
PpAttempt(i, status, score) ==
  LET n == Len(ppPlan.runs[i].results)
      more == status = "retryable" /\ n < PpRetries
      new == Append(ppPlan.runs[i].results, Result(i, n, status, score))
  IN /\ ppPlan.runs[i].pc = "running"
     /\ Answered(i, n, status, score)
     /\ ppPlan' = [ppPlan EXCEPT !.runs[i] =
          [pc |-> IF more THEN "running" ELSE "finished", results |-> new]]

InCompleted(i) == \E j \in 1..Len(ppPlan.completed) : ppPlan.completed[j] = i
Aborts(i) == \E r \in {ppPlan.runs[i].results[j] :
                         j \in 1..Len(ppPlan.runs[i].results)} :
               r.status = "experiment"

(* as_completed: an experiment failure cancels what has not started and    *)
(* raises; the threads that run are not waited for.                        *)
PpComplete(i) ==
  /\ ppPlan.pc = "running"
  /\ ppPlan.runs[i].pc = "finished" /\ ~InCompleted(i)
  /\ ppPlan' = IF Aborts(i) THEN [ppPlan EXCEPT !.pc = "aborted"]
             ELSE [ppPlan EXCEPT !.completed = Append(@, i)]

(***************************************************************************)
(* ParallelExecutionPlan.aggregate over a sequence of results.             *)
(***************************************************************************)
ResultsOf(rs, i) == {rs[j] : j \in {h \in 1..Len(rs) : rs[h].task = i}}
AttemptsOf(rs, i) == {r.attempt : r \in ResultsOf(rs, i)}
FinalIn(results) ==
  CHOOSE r \in results : \A q \in results : q.attempt <= r.attempt
FinalOf(rs, i) == FinalIn(ResultsOf(rs, i))

BadResults(rs) ==
  \/ \E j \in 1..Len(rs) :
       rs[j].status = "experiment" \/ rs[j].attempt > PpRetries
  \/ \E j, h \in 1..Len(rs) :
       j # h /\ rs[j].task = rs[h].task /\ rs[j].attempt = rs[h].attempt
  \/ \E i \in Tasks : ResultsOf(rs, i) # {} /\
       \/ AttemptsOf(rs, i) # 0..(Cardinality(ResultsOf(rs, i)) - 1)
       \/ \E r \in ResultsOf(rs, i) :
            r # FinalOf(rs, i) /\ r.status # "retryable"

OutcomeStatus(rs, i) ==
  IF ResultsOf(rs, i) = {} THEN "pending_initial"
  ELSE LET last == FinalOf(rs, i) IN
       CASE last.status = "success" -> "success"
         [] last.status = "permanent" -> "failed_permanent"
         [] last.status = "retryable" /\ last.attempt < PpRetries ->
              "pending_retry"
         [] OTHER -> "failed_retry_exhausted"

Succeeded(rs) == {i \in Tasks : OutcomeStatus(rs, i) = "success"}
(* mutant: ties go to the result that arrived first *)
BestTaskByArrival(rs) ==
  LET first(i) == CHOOSE j \in 1..Len(rs) : rs[j] = FinalOf(rs, i)
  IN IF Succeeded(rs) = {} THEN 0
     ELSE CHOOSE i \in Succeeded(rs) : \A j \in Succeeded(rs) \ {i} :
            \/ FinalOf(rs, i).score > FinalOf(rs, j).score
            \/ /\ FinalOf(rs, i).score = FinalOf(rs, j).score
               /\ first(i) < first(j)

(* The highest score, and the first task among equals.                     *)
BestOf(final) ==
  IF DOMAIN final = {} THEN 0
  ELSE CHOOSE i \in DOMAIN final : \A j \in DOMAIN final \ {i} :
         \/ final[i].score > final[j].score
         \/ final[i].score = final[j].score /\ i < j
BestTask(rs) == BestOf([i \in Succeeded(rs) |-> FinalOf(rs, i)])

Aggregate(rs) ==
  IF BadResults(rs) THEN [ok |-> FALSE]
  ELSE [ok |-> TRUE, best |-> BestTask(rs),
        outcomes |-> [i \in Tasks |-> OutcomeStatus(rs, i)],
        history |-> [i \in Tasks |-> ResultsOf(rs, i)]]

Concat(order) ==
  LET upto[n \in 0..Len(order)] ==
        IF n = 0 THEN <<>> ELSE upto[n - 1] \o ppPlan.runs[order[n]].results
  IN upto[Len(order)]

(* reverse_aggregation_input: every second run of the pools and the run    *)
(* with failures hand their results over in the reverse of plan order.     *)
InputOrder ==
  [i \in Tasks |-> IF FailureRun \/ ppPlan.run % 2 = 0
                     THEN Len(ppPlan.tasks) + 1 - i ELSE i]

PpAggregate ==
  /\ ppPlan.pc = "running" /\ Len(ppPlan.completed) = Len(ppPlan.tasks)
  /\ ppPlan' = [ppPlan EXCEPT !.pc = "aggregated",
                          !.aggregate = Aggregate(Concat(InputOrder))]

(* run_real_core_parallel_stress, its checks of one run of the pools: the  *)
(* same aggregate as the first run, and one worker per task.               *)
PoolChecks ==
  {c \in {"semantic", "single_flight"} :
     \/ c = "semantic" /\ ppPlan.run > 1 /\ ppPlan.aggregate # ppPlan.baseline
     \/ c = "single_flight" /\ \E i \in Tasks : Len(ppPlan.runs[i].results) # 1}

(* _failure_verification: a task that failed once recovered, the one that  *)
(* failed twice is out of attempts, and each of them was replaced once.    *)
FailureChecks ==
  LET outcome(i) == ppPlan.aggregate.outcomes[i]
      twice == {i \in Tasks : Injected(i, 1)}
  IN {c \in {"recovered", "exhausted", "replaced"} :
        \/ c = "recovered" /\ \E i \in Tasks \ twice : outcome(i) # "success"
        \/ c = "exhausted" /\ \E i \in twice : outcome(i) # "failed_retry_exhausted"
        \/ c = "replaced" /\ \E i \in Tasks : Len(ppPlan.runs[i].results) # 2}

(* The next run of the same plan, the one with failures behind the pools.  *)
PpNextRun ==
  /\ ppPlan.pc = "aggregated" /\ ~FailureRun
  /\ LET first == ppPlan.run = 1
          last == ppPlan.run = Len(PpPools)
     IN ppPlan' = [ppPlan EXCEPT
          !.pc = "running", !.run = @ + 1,
          !.failed = @ \cup PoolChecks,
          !.baseline = IF last THEN "none" ELSE IF first THEN ppPlan.aggregate ELSE @,
          !.answers = IF last THEN <<>>
                      ELSE IF first THEN [i \in Tasks |-> ppPlan.runs[i].results] ELSE @,
          !.runs = [i \in Tasks |-> NoRun],
          !.completed = <<>>, !.aggregate = "none"]

(* The AssertionError over the checks that failed.                         *)
PpVerify ==
  /\ ppPlan.pc = "aggregated" /\ FailureRun
  /\ LET failed == ppPlan.failed \cup FailureChecks
     IN ppPlan' = [ppPlan EXCEPT !.failed = failed,
                             !.pc = IF failed = {} THEN "verified" ELSE "refuted"]

PpNext ==
  \/ \E i \in Tasks :
       \/ PpStart(i) \/ PpComplete(i)
       \/ \E s \in AttemptStatuses, v \in 0..1 :
            (s # "success" => v = 0) /\ PpAttempt(i, s, v)
  \/ PpAggregate \/ PpNextRun \/ PpVerify

PpSpec == PpInit /\ [][PpNext]_ppPlan

(***************************************************************************)
(* Properties                                                              *)
(***************************************************************************)
Swapped(rs, j, h) == [rs EXCEPT ![j] = rs[h], ![h] = rs[j]]

(* The aggregate of a plan does not depend on the order its results are    *)
(* handed over in: not on the direction the driver walks the tasks, not on *)
(* the completion order, and not on two results, of one task or of two,    *)
(* changing places.                                                        *)
AggregateOrderFree ==
  ppPlan.pc = "aggregated" =>
    LET rs == Concat(ppPlan.completed) IN
    /\ Aggregate(rs) = ppPlan.aggregate
    /\ \A j, h \in 1..Len(rs) :
         j < h => Aggregate(Swapped(rs, j, h)) = ppPlan.aggregate

(* What the retry loop of a task hands over is never rejected, every task  *)
(* of an aggregated plan is settled (none pending), each within its        *)
(* attempts, and an experiment failure never ends in an aggregate.         *)
AggregateSettled ==
  /\ ppPlan.pc = "aggregated" =>
       /\ ppPlan.aggregate.ok
       /\ \A i \in Tasks : ppPlan.aggregate.outcomes[i] \in
            {"success", "failed_permanent", "failed_retry_exhausted"}
       /\ \A i \in Tasks : ~Aborts(i)
  /\ Cardinality(Running) <= PpPool

(* The report of the driver is about the workers alone: its comparison of  *)
(* the pools never fails however the threads interleave, a verified plan   *)
(* has a route for every task but the exhausted one, and a refuted one had *)
(* a worker that failed without being told to.                             *)
StressDecided ==
  /\ "semantic" \notin ppPlan.failed
  /\ ppPlan.pc = "verified" => Succeeded(Concat(ppPlan.completed)) = Tasks \ {Len(ppPlan.tasks)}
  /\ ppPlan.pc = "refuted" =>
       \/ "single_flight" \in ppPlan.failed
       \/ \E i \in Tasks : \E r \in ResultsOf(Concat(ppPlan.completed), i) :
            ~Injected(i, r.attempt) /\ r.status # "success"

(* Retries and completion orders leave no trace in a result: every attempt *)
(* of a replay is accounted for, and an aggregate of parallel tasks is the *)
(* same for all orders and pool sizes and final for every task.            *)
AttemptsAccounted ==
  /\ QuarantineExact /\ RetriesAccounted
  /\ AggregateOrderFree /\ AggregateSettled /\ StressDecided

=============================================================================
