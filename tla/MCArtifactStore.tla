--------------------------- MODULE MCArtifactStore ---------------------------
(***************************************************************************)
(* Small instances of ArtifactStore.                                       *)
(***************************************************************************)
EXTENDS ArtifactStore, TLC

CONSTANTS w1, w2, op1, s1, s2

Spec1(key, kind, max) ==
  [idempotency_key |-> key, kind |-> kind, priority |-> 0,
   max_attempts |-> max, dependency_ids |-> {}, deadline_at |-> NULL,
   attempt_timeout |-> 2, initial_backoff |-> 0, backoff_multiplier |-> 1,
   max_backoff |-> 0, retryable_error_codes |-> {"lease_expired"}]

\* One job with two attempts.
SoloSpec == <<Spec1("solo", "search", 2)>>

\* A search and an export job.
PairSpec == <<Spec1("search", "search", 1), Spec1("export", "export", 1)>>

\* Set 1 has two files, set 2 shares one of them.
TwoAndOne == <<{1, 2}, {2}>>
OneEach == <<{1}>>

AcceptAll == [w \in Workers |-> {"search", "export"}]
AcceptOwn == (w1 :> {"search"}) @@ (w2 :> {"export"})

SharedStore == [w \in Workers |-> s1]
OwnStores == (w1 :> s1) @@ (w2 :> s2)
============================================================================
