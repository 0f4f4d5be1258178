--------------------------- MODULE FrontierWorker ---------------------------
(***************************************************************************)
(* prototype/frontier.py: RealCoreFrontierAdapter.  A replay starts a      *)
(* fresh worker process per attempt, retries what is retryable and         *)
(* quarantines what failed.  The search's thread pool calls replay of ONE  *)
(* adapter from several threads, so the adapter's fields are shared and    *)
(* nothing locks them; a call's own list of attempts is a local of         *)
(* _invoke, reachable by others through _last_replay_attempts.  What a     *)
(* failure means is decided in engine/failures.py.                         *)
(***************************************************************************)
EXTENDS Naturals, Sequences, FiniteSets

CONSTANTS
  FwThreads,  \* the threads that call replay
  FwCalls,    \* bound: replays each thread makes
  MaxRetries  \* the adapter's max_retries

ASSUME MaxRetriesAssumption == MaxRetries \in Nat

VARIABLES
  adapter,  \* the RealCoreFrontierAdapter: counters, attempts, quarantine
  call      \* call[t]: the replay thread t is in

fwVars == <<adapter, call>>

(***************************************************************************)
(* engine/failures.py: what a failed path means for the experiment.  An    *)
(* error is named by the branch of classify_failure that catches it.       *)
(***************************************************************************)
Dispositions == {"legal_dead_end", "path_failure", "experiment_failure"}
Recoveries == {"none", "stop_path", "replace_worker", "abort_experiment"}

AllowedRecoveries ==
  [legal_dead_end |-> {"none"},
   path_failure |-> {"stop_path", "replace_worker"},
   experiment_failure |-> {"abort_experiment"}]

(* FailureRecord.__post_init__ *)
FailureRecords ==
  {r \in [category : STRING, disposition : Dispositions,
          recovery : Recoveries, retryable : BOOLEAN] :
     /\ r.recovery \in AllowedRecoveries[r.disposition]
     /\ r.retryable => /\ r.disposition = "path_failure"
                       /\ r.recovery = "replace_worker"}

StopPath(c) == [category |-> c, disposition |-> "path_failure",
                recovery |-> "stop_path", retryable |-> FALSE]
ReplaceWorker(c, again) ==
  [category |-> c, disposition |-> "path_failure",
   recovery |-> "replace_worker", retryable |-> again]
AbortExperiment(c) ==
  [category |-> c, disposition |-> "experiment_failure",
   recovery |-> "abort_experiment", retryable |-> FALSE]

Errors == {"interruption_runtime", "interruption_config", "lifecycle_path",
           "lifecycle_config", "timeout", "crash", "protocol", "asset",
           "replay_mismatch", "bridge_message", "bridge_other", "internal"}

(* classify_failure, one line per branch in the order of its tests *)
Classify(error) ==
  CASE error \in {"interruption_runtime", "lifecycle_path"} -> StopPath(error)
    [] error \in {"interruption_config", "lifecycle_config"} ->
         AbortExperiment(error)
    [] error \in {"timeout", "crash"} -> ReplaceWorker(error, TRUE)
    [] error = "protocol" -> ReplaceWorker(error, FALSE)
    [] error \in {"asset", "replay_mismatch"} -> AbortExperiment(error)
    [] error = "bridge_message" -> StopPath(error)
    [] error = "bridge_other" -> ReplaceWorker(error, FALSE)
    [] OTHER -> AbortExperiment(error)

(* No branch of classify_failure builds a record its own constructor       *)
(* rejects.                                                                *)
ASSUME ClassifyWellFormed == \A e \in Errors : Classify(e) \in FailureRecords

(* What a worker process can do to one attempt.                            *)
Outcomes == {"cannot_start", "timeout", "ipc", "garbage", "crash",
             "envelope_path", "envelope_retry", "bad_envelope", "document"}

(* The failure _invoke records for an outcome (_failure_from_worker_output *)
(* for a non-zero return code).                                            *)
FailureOf(o) ==
  CASE o \in {"cannot_start", "ipc"} -> ReplaceWorker("worker_ipc", TRUE)
    [] o \in {"timeout", "crash"} -> Classify(o)
    [] o = "envelope_path" -> Classify("bridge_message")
    [] o = "envelope_retry" -> Classify("timeout")
    [] OTHER -> Classify("protocol")

NoCall == [pc |-> "idle", n |-> 0, attempt |-> 0, read |-> 0,
           attempts |-> <<>>, result |-> "none", exhausted |-> FALSE]

FwInit ==
  /\ adapter = [invocations |-> 0, retries |-> 0, attempts |-> <<>>,
                quarantined |-> <<>>, owner |-> "none",
                retained |-> FALSE]
  /\ call = [t \in FwThreads |-> NoCall]

AttemptId(t) == <<t, call[t].n, call[t].attempt>>

(* _invoke, first lines: this call's list becomes _last_replay_attempts.   *)
FwCall(t) ==
  /\ call[t].pc = "idle" /\ call[t].n < FwCalls
  /\ call' = [call EXCEPT ![t] =
               [NoCall EXCEPT !.pc = "count", !.n = call[t].n + 1]]
  /\ adapter' = [adapter EXCEPT !.owner = t, !.retained = FALSE]

(* self.worker_invocations += 1 reads and writes the shared counter.       *)
FwCountRead(t) ==
  /\ call[t].pc = "count"
  /\ call' = [call EXCEPT ![t].pc = "counted",
                          ![t].read = adapter.invocations]
  /\ UNCHANGED adapter

FwCountWrite(t) ==
  /\ call[t].pc = "counted"
  /\ call' = [call EXCEPT ![t].pc = "running"]
  /\ adapter' = [adapter EXCEPT !.invocations = call[t].read + 1]

Record(t, failed) == [id |-> AttemptId(t), failed |-> failed]

(* _append_attempt: a failure, or a success after failures, is kept by the *)
(* adapter; a first-time success is only in the call's own list.           *)
AppendAttempt(t, failed) ==
  LET retain == failed \/ call[t].attempts # <<>>
  IN [adapter EXCEPT
        !.attempts = IF retain THEN Append(@, Record(t, failed)) ELSE @,
        !.retained = retain,
        !.quarantined = IF failed THEN Append(@, AttemptId(t)) ELSE @]

(* An attempt that failed: retried when the failure is retryable and the   *)
(* attempts are not used up; else RealCoreFrontierWorkerError.  Unreadable *)
(* output of a successful process is raised at once.                       *)
FwFails(t, o) ==
  LET c == call[t]
      list == Append(c.attempts, Record(t, TRUE))
      again == FailureOf(o).retryable /\ c.attempt < MaxRetries
      raised == [c EXCEPT !.pc = "raised", !.attempts = list,
                  !.result = "worker_error",
                  !.exhausted = /\ FailureOf(o).retryable
                                /\ Len(list) = MaxRetries + 1]
  IN /\ c.pc = "running" /\ o # "document"
     /\ call' = [call EXCEPT ![t] =
          IF again THEN [c EXCEPT !.pc = "count", !.attempts = list,
                                  !.attempt = @ + 1]
          ELSE raised]
     /\ adapter' = [AppendAttempt(t, TRUE) EXCEPT
                      !.retries = IF again THEN @ + 1 ELSE @]

FwDocument(t) ==
  /\ call[t].pc = "running"
  /\ call' = [call EXCEPT ![t].pc = "parse",
                          ![t].attempts = Append(@, Record(t, FALSE))]
  /\ adapter' = AppendAttempt(t, FALSE)

FwParsed(t) ==
  /\ call[t].pc = "parse"
  /\ call' = [call EXCEPT ![t].pc = "returned", ![t].result = "frontier"]
  /\ UNCHANGED adapter

(* The document does not describe a frontier: _mark_last_attempt_failed    *)
(* rewrites the last record of _last_replay_attempts and of the adapter,   *)
(* and the error carries that list.  The list is the one of the call that  *)
(* set it last.                                                            *)
LastAttempt(s) == s[Len(s)]
Failed(r) == [r EXCEPT !.failed = TRUE]
ReplaceLast(s, r) == [s EXCEPT ![Len(s)] = r]

FwRejected(t) ==
  LET o == adapter.owner
      list == call[o].attempts
      marked == Failed(LastAttempt(list))
      shared == ReplaceLast(list, marked)
      seen == {adapter.quarantined[i] : i \in 1..Len(adapter.quarantined)}
  IN /\ call[t].pc = "parse"
     /\ IF list = <<>>
        THEN /\ call' = [call EXCEPT ![t].pc = "raised",
                                     ![t].result = "raw_error"]
             /\ UNCHANGED adapter
        ELSE /\ call' = [[call EXCEPT ![o].attempts = shared] EXCEPT
                           ![t].pc = "raised", ![t].result = "worker_error",
                           ![t].attempts = shared]
             /\ adapter' = [adapter EXCEPT
                  !.attempts = IF adapter.retained THEN ReplaceLast(@, marked)
                               ELSE Append(@, marked),
                  !.retained = TRUE,
                  !.quarantined = IF marked.id \in seen THEN @
                                  ELSE Append(@, marked.id)]

FwReturn(t) ==
  /\ call[t].pc \in {"returned", "raised"} /\ call[t].n < FwCalls
  /\ call' = [call EXCEPT ![t].pc = "idle"]
  /\ UNCHANGED adapter

FwStep(t) ==
  \/ FwCall(t) \/ FwCountRead(t) \/ FwCountWrite(t)
  \/ \E o \in Outcomes : FwFails(t, o)
  \/ FwDocument(t) \/ FwParsed(t) \/ FwRejected(t) \/ FwReturn(t)

FwNext == \E t \in FwThreads : FwStep(t)
FwSpec == FwInit /\ [][FwNext]_fwVars

(***************************************************************************)
(* Properties                                                              *)
(***************************************************************************)
Ids(s) == {s[i].id : i \in 1..Len(s)}
FailedIds(s) == {r.id : r \in {s[i] : i \in {j \in 1..Len(s) : s[j].failed}}}

(* With one caller the quarantine is exact: the ids quarantined are those  *)
(* of the failed attempts the adapter kept, each once, and an attempt a    *)
(* finished replay calls successful is in neither.                         *)
QuarantineExact ==
  LET q == adapter.quarantined IN
  /\ {q[i] : i \in 1..Len(q)} = FailedIds(adapter.attempts)
  /\ Cardinality(FailedIds(adapter.attempts)) = Len(q)
  /\ \A t \in FwThreads :
       call[t].result = "frontier"
         => ~LastAttempt(call[t].attempts).failed

(* Retries are bounded and honest: a replay makes at most MaxRetries + 1   *)
(* attempts, it says retry_exhausted only after that many failures, and    *)
(* the shared counters account for every process started.                  *)
RetriesAccounted ==
  /\ \A t \in FwThreads :
       /\ Len(call[t].attempts) <= MaxRetries + 1
       /\ call[t].exhausted
            => Cardinality(FailedIds(call[t].attempts)) = MaxRetries + 1
       /\ call[t].pc = "idle" /\ Cardinality(FwThreads) = 1
            => adapter.invocations = adapter.retries + call[t].n

=============================================================================
