--------------------------- MODULE MCExportWorker ---------------------------
(***************************************************************************)
(* A small instance of ExportWorker: one export job as                     *)
(* AnalyticsExportQueue.enqueue creates it, with two attempts.             *)
(***************************************************************************)
EXTENDS ExportWorker

CONSTANTS w1, op1

OneExport ==
  <<[idempotency_key |-> "export", kind |-> "export", priority |-> 0,
     max_attempts |-> 2, dependency_ids |-> {}, deadline_at |-> NULL,
     attempt_timeout |-> 3, initial_backoff |-> 0, backoff_multiplier |-> 2,
     max_backoff |-> 1,
     retryable_error_codes |-> {"disk_full", "hard_timeout", "lease_expired",
                                "transient_io", "worker_crash"}]>>

AcceptExports == [w \in Workers |-> {"export"}]
OneRow == [j \in Jobs |-> 1]
============================================================================
