-------------------------- MODULE ReplayVerification --------------------------
(***************************************************************************)
(* experiment-replay: a recorded Route is replayed in a fresh worker       *)
(* process, compared with what the worker produces, and only then described*)
(* in a verification report written beside other verifiers of the same     *)
(* destination (cli/cmd_experiment.py, prototype/real_core.py,             *)
(* prototype/frontier.py, replay/manifest.py, replay/verifier.py,          *)
(* experiment/verification.py).                                            *)
(*                                                                         *)
(* An environment has a part the replay manifest names (locks, binary and  *)
(* asset hashes) and a part it does not; both may change between two steps *)
(* of a verifier.  What a worker produces is a function of the experiment  *)
(* and of the whole environment; the document names the manifest part.     *)
(***************************************************************************)
EXTENDS Integers, FiniteSets

CONSTANTS Verifiers,            \* processes given the same report path
          Experiments,          \* the recorded experiments
          NamedParts,           \* values of the part the manifest names
          HiddenParts,          \* values of the part it does not name
          ReplaceAttempts,      \* ATOMIC_REPLACE_ATTEMPTS
          MaxUpgrades           \* bound: changes of the environment

ASSUME VerificationAssumption ==
    /\ ReplaceAttempts \in Nat \ {0}
    /\ MaxUpgrades \in Nat
    /\ NamedParts # {} /\ HiddenParts # {}

VARIABLES env,        \* the environment of this machine
          upgrades,
          verifier,   \* Verifiers -> what the process is doing
          file,       \* the report path: <<>> or <<content>>
          temps,      \* temporary files beside it: owner and content
          replayed    \* every document a fresh worker delivered (not recorded)

rvfVars == <<env, upgrades, verifier, file, temps, replayed>>

-----------------------------------------------------------------------------
(* Documents.  signature is what assert_replay_request_signatures compares,*)
(* body everything else.                                                   *)

General(e) == e.schema = "0.4" /\ e.strategy = "random_search_v1"

Environments == [named : NamedParts, hidden : HiddenParts]

\* run_real_core_worker in an environment (the core is deterministic).
WorkerDocument(e, environment) ==
    [experiment |-> e, manifest |-> environment.named,
     signature |-> environment.named, body |-> <<environment.named, environment.hidden>>]

\* Route files: recorded in some environment, and possibly edited since.
RouteFiles ==
    {WorkerDocument(e, x) : e \in Experiments, x \in Environments}
      \cup {[WorkerDocument(e, x) EXCEPT !.body = <<"edited">>] :
                e \in Experiments, x \in Environments}

\* ReplayManifestV03a of this machine: the scripted path names no scenario,
\* so the manifest of a Route that has one never matches it.
ManifestMatches(doc, environment) ==
    /\ doc.manifest = environment.named
    /\ ~ doc.experiment.scenario

\* Mutant: only the answered requests are compared with the fresh replay.
SameSignatures(doc, fresh) == doc.signature = fresh.signature

\* The canonical text of the whole document, after the request signatures.
SameDocument(doc, fresh) == doc.signature = fresh.signature /\ doc = fresh

-----------------------------------------------------------------------------
(* The worker process as its parent sees it end.                           *)

WorkerOutputs == {"document", "invalid", "envelope", "bad envelope", "nothing"}
EndedWith(late, ok, outputs) ==
    {[timedOut |-> late, ok |-> ok, out |-> o] : o \in outputs}
\* A worker that is killed on time may have delivered its answer already.
Endings ==
    EndedWith(FALSE, TRUE, WorkerOutputs \ {"envelope", "bad envelope"})
      \cup EndedWith(FALSE, FALSE, WorkerOutputs \ {"document"})
      \cup UNION {EndedWith(TRUE, ok, {"document", "nothing"}) : ok \in BOOLEAN}

\* invoke_real_core_worker_process
Category(x) ==
    CASE x.timedOut -> "worker_timeout"
      [] ~ x.timedOut /\ ~ x.ok /\ x.out = "bad envelope" -> "worker_protocol"
      [] ~ x.timedOut /\ ~ x.ok /\ x.out = "envelope" -> "reported failure"
      [] ~ x.timedOut /\ ~ x.ok /\ x.out \notin {"envelope", "bad envelope"} -> "worker_crash"
      [] ~ x.timedOut /\ x.ok /\ x.out = "document" -> "none"
      [] ~ x.timedOut /\ x.ok /\ x.out # "document" -> "worker_protocol"

-----------------------------------------------------------------------------
(* Reports.                                                                *)

Scope(e) == IF General(e) THEN "general_search" ELSE "scripted_real_core"

\* build_fresh_replay_verification_report
BuildReport(v, doc) ==
    [run |-> v, route |-> doc, scope |-> Scope(doc.experiment),
     scenario |-> doc.experiment.scenario, runtime |-> doc.manifest]

\* validate_fresh_replay_verification_report: a report is of one of two kinds.
ReportValid(report) ==
    IF report.scope = "general_search"
    THEN report.route.experiment.schema = "0.4" /\ report.scenario
    ELSE report.route.experiment.schema # "0.4" /\ ~ report.scenario

Whole(report) == [whole |-> TRUE, report |-> report]
Torn(report) == [whole |-> FALSE, report |-> report]

-----------------------------------------------------------------------------
NoEnding == [timedOut |-> FALSE, ok |-> FALSE, out |-> "nothing"]
IdleVerifier == [at |-> "idle", doc |-> <<>>, fresh |-> <<>>, ending |-> NoEnding,
         category |-> "none", denials |-> 0]

RvfInit ==
    /\ env \in Environments
    /\ upgrades = 0
    /\ verifier = [v \in Verifiers |-> IdleVerifier]
    /\ file = <<>>
    /\ temps = {}
    /\ replayed = {}

Step(v, from, update) ==
    /\ verifier[v].at = from
    /\ verifier' = [verifier EXCEPT ![v] = update]

\* cmd_experiment_replay reads the Route and checks its experiment; a general
\* search Route goes straight to its replay.
Load(v) ==
    /\ \E doc \in RouteFiles :
          Step(v, "idle", [verifier[v] EXCEPT !.doc = <<doc>>,
                              !.at = IF doc.experiment.strategy = "random_search_v1"
                                     THEN "replay" ELSE "manifest"])
    /\ UNCHANGED <<env, upgrades, file, temps, replayed>>

\* verify_real_core_route before it starts its worker
CheckManifest(v) ==
    /\ Step(v, "manifest",
            [verifier[v] EXCEPT !.at = IF ManifestMatches(verifier[v].doc[1], env)
                                       THEN "replay" ELSE "refused"])
    /\ UNCHANGED <<env, upgrades, file, temps, replayed>>

\* A fresh worker runs in the environment of that moment and ends somehow.
Replay(v) ==
    /\ \E x \in Endings :
          LET fresh == WorkerDocument(verifier[v].doc[1].experiment, env)
              category == Category(x)
          IN  /\ Step(v, "replay",
                      [verifier[v] EXCEPT !.ending = x, !.category = category,
                         !.fresh = IF category = "none" THEN <<fresh>> ELSE <<>>,
                         !.at = IF category = "none" THEN "compare" ELSE "failed"])
              /\ replayed' = IF x.out = "document" THEN replayed \cup {fresh} ELSE replayed
    /\ UNCHANGED <<env, upgrades, file, temps>>

Compare(v) ==
    /\ Step(v, "compare",
            [verifier[v] EXCEPT !.at =
                IF /\ SameDocument(verifier[v].doc[1], verifier[v].fresh[1])
                   /\ ReportValid(BuildReport(v, verifier[v].doc[1]))
                THEN "write" ELSE "refused"])
    /\ UNCHANGED <<env, upgrades, file, temps, replayed>>

Mine(v) == {t \in temps : t.owner = v}
Content(v) == BuildReport(v, verifier[v].doc[1])

\* mkstemp beside the destination: nothing is in the file yet.
Creates(v) ==
    /\ temps' = temps \cup {[owner |-> v, content |-> Torn(Content(v))]}
    /\ UNCHANGED file

Create(v) ==
    /\ Step(v, "write", [verifier[v] EXCEPT !.at = "flush"])
    /\ Creates(v)
    /\ UNCHANGED <<env, upgrades, replayed>>

\* write, flush, fsync; the disk may refuse.
Removed(v) == temps \ Mine(v)
Flush(v) ==
    /\ \/ /\ Step(v, "flush", [verifier[v] EXCEPT !.at = "replace"])
          /\ temps' = Removed(v) \cup {[owner |-> v, content |-> Whole(Content(v))]}
       \/ /\ Step(v, "flush", [verifier[v] EXCEPT !.at = "failed", !.category = "disk"])
          /\ temps' = Removed(v)
    /\ UNCHANGED <<env, upgrades, file, replayed>>

\* The handler of every failure removes the temporary file.
AfterDenial(v) == Removed(v)

\* os.replace, denied while another process has the destination open.
Replace(v) ==
    /\ \/ /\ Step(v, "replace", [verifier[v] EXCEPT !.at = "done"])
          /\ \E t \in Mine(v) : file' = <<t.content>>
          /\ temps' = Removed(v)
       \/ /\ verifier[v].denials + 1 < ReplaceAttempts
          /\ Step(v, "replace", [verifier[v] EXCEPT !.denials = @ + 1])
          /\ UNCHANGED <<file, temps>>
       \/ /\ verifier[v].denials + 1 = ReplaceAttempts
          /\ Step(v, "replace", [verifier[v] EXCEPT !.at = "failed", !.category = "denied"])
          /\ temps' = AfterDenial(v)
          /\ UNCHANGED file
    /\ UNCHANGED <<env, upgrades, replayed>>

\* The process is killed: what it wrote stays.
Crash(v) ==
    /\ verifier[v].at \in {"manifest", "replay", "compare", "write", "flush", "replace"}
    /\ verifier' = [verifier EXCEPT ![v].at = "crashed"]
    /\ UNCHANGED <<env, upgrades, file, temps, replayed>>

\* A rebuilt core, updated assets, another interpreter.
Upgrade ==
    /\ upgrades < MaxUpgrades
    /\ \E x \in Environments \ {env} : env' = x
    /\ upgrades' = upgrades + 1
    /\ UNCHANGED <<verifier, file, temps, replayed>>

RvfNext ==
    \/ Upgrade
    \/ \E v \in Verifiers :
          \/ Load(v) \/ CheckManifest(v) \/ Replay(v) \/ Compare(v)
          \/ Create(v) \/ Flush(v) \/ Replace(v) \/ Crash(v)

RvfSpec == RvfInit /\ [][RvfNext]_rvfVars

-----------------------------------------------------------------------------
\* A report at the path describes a document that a fresh worker produced, in
\* full, in the environment the report names, even when the environment changed
\* between the manifest check and the replay or the Route file was edited.
ReportEarned ==
    file # <<>> => /\ file[1].report.route \in replayed
                   /\ file[1].report.runtime = file[1].report.route.body[1]

\* Whoever reads the path finds no report or a whole one, while any number of
\* verifiers write it, fail or are killed.
ReportWhole == file # <<>> => file[1].whole

\* A temporary file belongs to a verifier that is still writing or was killed.
TemporariesOwned ==
    \A t \in temps : verifier[t.owner].at \in {"flush", "replace", "crashed"}

\* The category given to a failed replay says what happened to the worker: a
\* timeout is never reported as a crash of the worker its parent killed, and a
\* late answer never counts.
OutcomeNamed ==
    \A v \in Verifiers :
        /\ verifier[v].ending.timedOut => verifier[v].category = "worker_timeout"
        /\ verifier[v].category = "worker_timeout" => verifier[v].ending.timedOut
        /\ verifier[v].category = "worker_crash" => ~ verifier[v].ending.ok
        /\ verifier[v].at \in {"compare", "write"} => verifier[v].ending.out = "document"

\* What is found at the report path and in the category of a failure is true,
\* whatever changes, fails or is killed while a Route is verified.
ReportsTrusted == ReportEarned /\ ReportWhole /\ TemporariesOwned /\ OutcomeNamed

=============================================================================
