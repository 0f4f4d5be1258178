---------------------------- MODULE MCJobCatalog ----------------------------
(***************************************************************************)
(* Small instances of JobCatalog: one contended job, and a parent with a   *)
(* child that depends on it.                                               *)
(***************************************************************************)
EXTENDS JobCatalog, TLC

CONSTANTS w1, w2, op1, op2

Spec1(key, kind, max, deps, deadline, codes) ==
  [idempotency_key |-> key, kind |-> kind, priority |-> 0,
   max_attempts |-> max, dependency_ids |-> deps, deadline_at |-> deadline,
   attempt_timeout |-> 3, initial_backoff |-> 1, backoff_multiplier |-> 2,
   max_backoff |-> 1, retryable_error_codes |-> codes]

AllCodes == {"lease_expired", "hard_timeout"}

\* One job, two attempts, a deadline that the last backoff can miss.
SoloSpec == <<Spec1("solo", "search", 2, {}, 6, AllCodes)>>

\* A parent, a child that needs it, and a rival of the child that reuses its
\* idempotency key.
FamilySpec == <<Spec1("parent", "search", 2, {}, NULL, {"lease_expired"}),
                Spec1("child", "search", 1, {1}, 4, AllCodes),
                Spec1("child", "export", 1, {}, NULL, {})>>

AcceptAll == [w \in Workers |-> {"search", "export"}]

\* total_units is unknown.
UnknownOnly == {NULL}

Symmetry == Permutations(Workers) \union Permutations(Operators)
============================================================================
