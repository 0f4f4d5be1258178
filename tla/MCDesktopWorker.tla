--------------------------- MODULE MCDesktopWorker ---------------------------
(***************************************************************************)
(* Small instances of DesktopWorker.                                       *)
(***************************************************************************)
EXTENDS DesktopWorker, TLC

CONSTANTS w1, op1

Spec1(key, kind, deps, timeout) ==
  [idempotency_key |-> key, kind |-> kind, priority |-> 0,
   max_attempts |-> 2, dependency_ids |-> deps, deadline_at |-> NULL,
   attempt_timeout |-> timeout, initial_backoff |-> 0,
   backoff_multiplier |-> 1, max_backoff |-> 0,
   retryable_error_codes |-> {"lease_expired", "hard_timeout",
                              "worker_crash"}]

\* One search.
SearchSpec == <<Spec1("search", "search", {}, 2)>>

\* A search and the replay that verifies it.
ReplaySpec == <<Spec1("search", "search", {}, 2),
                Spec1("replay", "replay", {1}, 2)>>

AcceptAll == [w \in Workers |-> {"search", "replay"}]

TotalUnits == [j \in Jobs |-> 1]

\* A search may end with no node or with all, a replay verifies its route.
EndUnits == [j \in Jobs |-> IF JobSpec[j].kind = "search" THEN {0, 1} ELSE {1}]
============================================================================
