---------------------------- MODULE JobLifecycle ----------------------------
(***************************************************************************)
(* What the job catalog promises about a job, whatever workers, operators  *)
(* and the recovery code do: a job is created once, its state moves only   *)
(* along the published table, an attempt starts only at a claim, a claim   *)
(* is made only while attempts remain and only when every dependency has   *)
(* succeeded.  Leases, clocks, checkpoints and callers do not appear here; *)
(* JobCatalog is shown to implement this specification.                    *)
(***************************************************************************)
EXTENDS Integers, JobStates

CONSTANTS Jobs,         \* the jobs that may be created
          MaxAttempts,  \* MaxAttempts[j]: JobSpec.max_attempts
          Dependencies  \* Dependencies[j]: JobSpec.dependency_ids

VARIABLES state, attempt

vars == <<state, attempt>>

Init == /\ state = [j \in Jobs |-> "absent"]
        /\ attempt = [j \in Jobs |-> 0]

\* A dependency must already have a row when its child is created.
Create(j) == /\ state[j] = "absent"
             /\ \A d \in Dependencies[j] : state[d] # "absent"
             /\ state' = [state EXCEPT ![j] = "queued"]
             /\ UNCHANGED attempt

Claim(j) == /\ "running" \in AllowedTransitions(state[j])
            /\ attempt[j] < MaxAttempts[j]
            /\ \A d \in Dependencies[j] : state[d] = "succeeded"
            /\ state' = [state EXCEPT ![j] = "running"]
            /\ attempt' = [attempt EXCEPT ![j] = @ + 1]

\* One transaction may move several jobs: lease reclamation and deadline
\* expiry sweep the whole table.
Move == /\ state' \in [Jobs -> RowState]
        /\ \A j \in Jobs :
             \/ state'[j] = state[j]
             \/ state'[j] \in AllowedTransitions(state[j]) \ {"running"}
        /\ UNCHANGED attempt

Next == \/ \E j \in Jobs : Create(j) \/ Claim(j)
        \/ Move

Spec == Init /\ [][Next]_vars
============================================================================
