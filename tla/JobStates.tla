----------------------------- MODULE JobStates -----------------------------
(***************************************************************************)
(* The states of a durable job and the transition table that every writer  *)
(* of the job catalog consults (JobState, _ALLOWED_TRANSITIONS and         *)
(* is_job_transition_allowed in storage/jobs.py).  "absent" stands for a   *)
(* job without a row: create_job is the transition None -> queued.         *)
(***************************************************************************)

JobState == {"queued", "running", "cancelling", "cancelled",
             "succeeded", "failed", "retrying", "quarantined"}

RowState == JobState \union {"absent"}

\* States in which a worker attempt may be executing.
ActiveStates == {"running", "cancelling"}

\* States from which claim_next may start an attempt.
PendingStates == {"queued", "retrying"}

AllowedTransitions(s) ==
  CASE s = "queued"     -> {"running", "cancelling", "failed", "quarantined"}
    [] s = "running"    -> {"cancelling", "succeeded", "failed", "retrying",
                            "quarantined"}
    [] s = "cancelling" -> {"cancelled", "failed", "quarantined"}
    [] s = "failed"     -> {"retrying", "quarantined"}
    [] s = "retrying"   -> {"running", "cancelling", "failed", "quarantined"}
    [] OTHER            -> {}

\* States without an outgoing transition.
TerminalStates == {s \in JobState : AllowedTransitions(s) = {}}
============================================================================
