--------------------------- MODULE RealCoreWorker ---------------------------
(***************************************************************************)
(* A worker process drives one fresh ocgcore duel.  In "route" mode a      *)
(* scripted policy answers the core, with interruptions at fixed steps; in *)
(* "search_frontier" and "player_view" mode a recorded action prefix is    *)
(* replayed and the worker reports what the core offers behind it.  The    *)
(* search starts a new worker for every prefix it extends.                 *)
(*                                                                         *)
(* The core is external: it answers with any of CoreOutputs the first      *)
(* time a prefix is played and with the same one every later time.         *)
(***************************************************************************)
EXTENDS Integers, Sequences, FiniteSets, SequencesExt, Functions

CONSTANTS
  CoreOutputs,        \* what the core can send: requests with their progress events
  GivenPrefixes,  \* the prefixes a caller brings from elsewhere
  Scripts,        \* the fixtures and interruption plans of route workers
  TurnLimit,      \* the experiment's turn_limit
  ResponseBudget, \* search.budget.max_nodes of a route worker
  MaxPrefix       \* bound: longest prefix the search tries

ASSUME WorkerAssumption ==
  TurnLimit \in Nat \ {0} /\ ResponseBudget \in Nat /\ MaxPrefix \in Nat

\* Definitions, their responses and recorded prefixes are lists.
IsList(s) == s \in Seq(Range(s))
ASSUME ScriptAssumption ==
  /\ \A s \in Scripts :
       /\ IsList(s.definitions) /\ s.mode \in {"none", "scripted", "sampled"}
       /\ \A i \in DOMAIN s.definitions : \A p \in s.definitions[i].policy : IsList(p.responses)
  /\ \A p \in GivenPrefixes : IsList(p)

VARIABLES
  rcMode,    \* document_kind of the worker
  rcScript,  \* [fixture, plans, recovery, resolved] of a route worker
  rcCore,    \* outputs of the core along the prefix, the initial one first
  rcPrefix,  \* the actions to replay
  rcEvents,  \* the actions answered so far, with their coordinates
  rcTurn, rcPhase, rcIndex,
  rcDone,    \* how often each role was selected
  rcPlan,    \* per plan: step of its activation (-1: not yet) and responses sent
  rcStop,    \* temporary_checkpoint_step
  rcPc,      \* "idle", "loop", "build", "document", "probe", "error", "path_failure"
  rcDoc      \* the last frontier document

rcVars == <<rcMode, rcScript, rcCore, rcPrefix, rcEvents, rcTurn, rcPhase, rcIndex,
            rcDone, rcPlan, rcStop, rcPc, rcDoc>>

PrefixMode == rcMode \in {"search_frontier", "player_view"}
Current == rcCore[Len(rcEvents) + 1]

-----------------------------------------------------------------------------
(* What the core says.                                                     *)

\* evaluate_legal_stop.
LegalStop(o) ==
  /\ o.chain = 0
  /\ \/ o.win
     \/ ~o.forced /\ o.type = "select_idle_command" /\ "END_TURN" \in o.kinds

\* apply_turn_lifecycle on the kinds of the frontier actions.
LifecycleActions(kinds, turn) == IF turn = TurnLimit THEN kinds \ {"END_TURN"} ELSE kinds

BoundaryReason(o, turn) ==
  IF o.win THEN "duel_end"
  ELSE IF LegalStop(o) THEN IF turn = TurnLimit THEN "turn_limit" ELSE "legal_stop"
  ELSE IF o.chain > 0 THEN "pending_chain"
  ELSE IF o.forced THEN "mandatory_response" ELSE "pending_process"

\* _apply_progress_events: at most one new turn, then the last new phase.
NextTurn(o) == IF o.newTurn THEN rcTurn + 1 ELSE rcTurn
NextPhase(o) == IF o.phase # "" THEN o.phase ELSE IF o.newTurn THEN "turn_start" ELSE rcPhase

\* The core is deterministic along one prefix, and the next main phase behind
\* an END_TURN belongs to a new turn.
CoreAnswers(n, kind) ==
  IF n <= Len(rcCore) THEN {rcCore[n]}
  ELSE {o \in CoreOutputs : kind = "END_TURN" /\ o.type = "select_idle_command" => o.newTurn \/ o.win}

-----------------------------------------------------------------------------
(* _resolve_interruption_plans.  A definition is [id, player, card, target, *)
(* base, policy]: the card it interrupts with, where, the Route it departs *)
(* from and at most one explicit candidate policy.                         *)

TargetedHandActivation(d) ==
  [activation |-> [type |-> "select_chain", player |-> d.player, card |-> d.card],
   responses |-> <<[type |-> "select_card", player |-> d.player, card |-> "field"]>>]

\* Without a policy of its own only Effect Veiler of player 1 is known; an
\* explicit one has to activate the card the definition names.
DefinitionValid(d) ==
  IF d.policy = {} THEN d.player = 1 /\ d.card = "veiler"
  ELSE \A p \in d.policy : p.activation.player = d.player /\ p.activation.card = d.card

PlanOf(d) ==
  LET policy == CHOOSE p \in (IF d.policy = {} THEN {TargetedHandActivation(d)} ELSE d.policy) : TRUE
  IN  [target |-> d.target, activation |-> policy.activation, responses |-> policy.responses]

StagedFixtures == {"sequence", "timing"}

\* Several scripted definitions are the stages of one line of play: explicit,
\* at later and later steps, each on the Route of the one before.
ScriptedPlans(s) ==
  LET ds == s.definitions
      ok == /\ ds # <<>> /\ \A i \in DOMAIN ds : DefinitionValid(ds[i])
            /\ \A i, j \in DOMAIN ds : i # j => ds[i].id # ds[j].id
            /\ Len(ds) > 1 => s.fixture \in StagedFixtures /\ \A i \in DOMAIN ds : ds[i].policy # {}
            /\ \A i \in 2..Len(ds) : /\ ds[i].target.step > ds[i - 1].target.step
                                     /\ ds[i].base # ds[i - 1].base
  IN  IF ok THEN {[i \in DOMAIN ds |-> PlanOf(ds[i])]} ELSE {}

\* A sampled experiment plays one definition; which one its digest decides.
SampledPlans(s) ==
  LET ds == s.definitions
      ok == /\ \A i \in DOMAIN ds : DefinitionValid(ds[i])
            /\ \A i, j \in DOMAIN ds : i # j => ds[i].id # ds[j].id
  IN  IF ok THEN {<<PlanOf(ds[i])>> : i \in DOMAIN ds} ELSE {}

\* The plans a script can resolve to, none when it is refused.
ResolvedPlans(s) ==
  CASE s.mode = "none" -> {<<>>}
    [] s.mode = "scripted" -> ScriptedPlans(s)
    [] s.mode = "sampled" -> SampledPlans(s)

-----------------------------------------------------------------------------
(* _selected_candidate: the scripted policy as a table of rules.           *)

Matrix == {"matrix", "sequence", "timing", "target_loss"}
Aggregating == {"aggregation", "selection", "rollback"}

Rule(fixtures, type, role, after, limit, card, must) ==
  [fixtures |-> fixtures, type |-> type, role |-> role, after |-> after,
   limit |-> limit, card |-> card, must |-> must]

Rules == <<
  Rule({"recovery"}, "select_effect_yes_no", "recovery_primary", {<<"summon", 1>>}, 1, "any", TRUE),
  Rule(Matrix, "select_effect_yes_no", "matrix_primary", {<<"summon", 1>>}, 1, "any", TRUE),
  Rule({"sequence"}, "select_effect_yes_no", "matrix_secondary", {<<"matrix_primary", 1>>}, 1, "any", TRUE),
  Rule(Aggregating, "select_effect_yes_no", "activation", {<<"summon", 1>>}, 1, "any", TRUE),
  Rule(Matrix, "select_chain", "matrix_primary", {<<"summon", 1>>}, 1, "primary", FALSE),
  Rule({"sequence"}, "select_chain", "matrix_secondary", {<<"matrix_primary", 1>>}, 1, "support", FALSE),
  Rule({"recovery"}, "select_chain", "recovery_card", {<<"recovery_primary", 1>>}, 1, "recovery", FALSE),
  Rule(Aggregating, "select_chain", "activation", {<<"summon", 1>>}, 1, "veiler", FALSE),
  Rule({"rollback"}, "select_card", "cancel", {<<"activation", 1>>}, 1, "cancel", TRUE),
  Rule({"aggregation"}, "select_card", "cost", {<<"activation", 1>>}, 1, "hand", TRUE),
  Rule({"aggregation"}, "select_card", "target", {<<"cost", 1>>}, 1, "field", TRUE),
  Rule({"target_loss"}, "select_card", "target", {<<"matrix_primary", 1>>}, 1, "support", TRUE),
  Rule({"selection"}, "select_card", "cost", {<<"activation", 1>>}, 2, "hand", TRUE),
  Rule({"selection"}, "select_card", "resolution", {<<"cost", 2>>}, 1, "grave", TRUE),
  Rule({"aggregation"}, "select_option", "option", {<<"target", 1>>}, 1, "any", TRUE),
  Rule({"selection"}, "select_option", "option", {<<"resolution", 1>>}, 1, "any", TRUE) >>

Roles == {"summon", "end", "matrix_primary", "matrix_secondary", "recovery_primary",
          "recovery_card", "activation", "cost", "target", "resolution", "option", "cancel"}

Applies(rule, o) ==
  /\ rcScript.fixture \in rule.fixtures /\ o.type = rule.type /\ o.player = 0
  /\ \A need \in rule.after : rcDone[need[1]] >= need[2]
  /\ rcDone[rule.role] < rule.limit
  /\ rule.must \/ rule.card \in o.cards

Choice(ok, kind, role) == [ok |-> ok, kind |-> kind, role |-> role, plan |-> 0]
Unsupported == Choice(FALSE, "", "")

RuleKind(type) ==
  CASE type = "select_card" -> "SELECT_CARD"
    [] type = "select_option" -> "SELECT_OPTION"
    [] OTHER -> "ACTIVATE_EFFECT"

ByRule(o) ==
  LET fitting == SelectSeq(Rules, LAMBDA r : Applies(r, o))
  IN  IF fitting # <<>>
      THEN Choice(fitting[1].card \in o.cards \cup {"any"},
                  IF fitting[1].role = "cancel" THEN "DECLINE" ELSE RuleKind(o.type),
                  fitting[1].role)
      ELSE IF o.type = "select_chain" THEN Choice("PASS" \in o.kinds, "PASS", "")
      ELSE Unsupported

IdleChoice(o) ==
  LET summoned == rcDone["summon"] > 0
      unfinished == \/ rcScript.fixture \in Aggregating /\ summoned /\ rcDone["option"] = 0
                    \/ rcScript.fixture = "recovery" /\ summoned /\ rcDone["recovery_primary"] = 0
      kind == IF summoned THEN "END_TURN" ELSE "NORMAL_SUMMON"
  IN  Choice(/\ ~unfinished /\ kind \in o.kinds
             /\ rcScript.fixture \in Matrix /\ ~summoned => "primary" \in o.cards,
             kind, "")

Responding(p) == rcPlan[p].at >= 0 /\ rcPlan[p].sent < Len(rcScript.plans[p].responses)

\* CoreInterruptionStep.select: request type, player and number of matches.
StepSelects(step, o) == o.type = step.type /\ o.player = step.player /\ step.card \in o.cards

PlanChoice(p, step, o, role) ==
  [ok |-> StepSelects(step, o), kind |-> RuleKind(o.type), role |-> role, plan |-> p]

Opportunity(o) == [step |-> Len(rcEvents), player |-> o.player, turn |-> rcTurn,
                   index |-> rcIndex, chain |-> o.chain]

AnyPlan == {}
RespondsFirst == {p \in DOMAIN rcPlan : Responding(p)}

Selected(o) ==
  LET due == {p \in DOMAIN rcPlan : rcPlan[p].at < 0 /\ rcScript.plans[p].target.step <= Len(rcEvents)}
      first == CHOOSE p \in due : \A q \in due : p <= q
  IN  IF RespondsFirst # {}
      THEN LET p == CHOOSE p \in RespondsFirst : TRUE
           IN  PlanChoice(p, rcScript.plans[p].responses[rcPlan[p].sent + 1], o, "response")
      ELSE IF due # {}
      THEN IF rcScript.plans[first].target = Opportunity(o)
           THEN PlanChoice(first, rcScript.plans[first].activation, o, "activate")
           ELSE Unsupported
      ELSE IF o.type = "select_idle_command" THEN IdleChoice(o)
      ELSE IF o.type = "select_place" THEN Choice("SELECT_ZONE" \in o.kinds, "SELECT_ZONE", "")
      ELSE ByRule(o)

\* _prefix_candidates and the action_id comparison: the recorded action has to
\* be offered again, and END_TURN is refused in the last turn.
Replayed(o) ==
  LET kind == rcPrefix[Len(rcEvents) + 1]
  IN  Choice(kind \in o.kinds, kind, "")

-----------------------------------------------------------------------------
NoDoc == [events |-> 0, turn |-> 0, actions |-> {}, route |-> FALSE, reason |-> ""]

RcInit ==
  /\ rcMode \in {"route", "activation_rollback_probe", "search_frontier"}
  /\ \E s \in Scripts :
       LET resolved == ResolvedPlans(s)
       IN  \E plans \in (IF resolved = {} THEN {<<>>} ELSE resolved) :
             /\ rcScript = [fixture |-> s.fixture, plans |-> plans, recovery |-> s.recovery,
                            resolved |-> resolved # {}]
             /\ PrefixMode => s.fixture = "" /\ s.mode = "none"
  /\ rcPrefix \in IF PrefixMode THEN GivenPrefixes ELSE {<<>>}
  /\ rcCore = <<>> /\ rcEvents = <<>>
  /\ rcTurn = 0 /\ rcPhase = "pre_duel" /\ rcIndex = 0
  /\ rcDone = [r \in Roles |-> 0]
  /\ rcPlan = [p \in DOMAIN rcScript.plans |-> [at |-> -1, sent |-> 0]]
  /\ rcStop = -1 /\ rcPc = "idle" /\ rcDoc = NoDoc

\* The rollback fixture yields probe evidence and nothing else does.
KindFits == (rcMode = "activation_rollback_probe") <=> (rcScript.fixture = "rollback")

\* run_real_core_worker up to its loop: a duel that ends before any action,
\* or a fixture that does not start in main phase 1 of turn 1, is an error.
StartWorker ==
  /\ rcPc = "idle" /\ KindFits /\ rcScript.resolved
  /\ \E o \in CoreAnswers(1, "") :
       /\ o.newTurn
       /\ rcCore' = IF rcCore = <<>> THEN <<o>> ELSE rcCore
       /\ rcTurn' = 1 /\ rcPhase' = (IF o.phase # "" THEN o.phase ELSE "turn_start")
       /\ rcPc' = IF o.win \/ (~PrefixMode /\ o.phase # "main1") THEN "error" ELSE "loop"
  /\ rcEvents' = <<>> /\ rcIndex' = 0 /\ rcStop' = -1
  /\ rcDone' = [r \in Roles |-> 0]
  /\ UNCHANGED <<rcMode, rcScript, rcPrefix, rcPlan, rcDoc>>

Ended(pc) ==
  /\ rcPc' = pc
  /\ UNCHANGED <<rcMode, rcScript, rcCore, rcPrefix, rcEvents, rcTurn, rcPhase,
                 rcIndex, rcDone, rcPlan, rcStop, rcDoc>>

\* A document kind or an interruption section the fixture does not support
\* ends the worker before there is a duel.
RefuseExperiment ==
  /\ rcPc = "idle" /\ ~(KindFits /\ rcScript.resolved)
  /\ Ended("error")

AtTarget == PrefixMode /\ Len(rcEvents) = Len(rcPrefix)

\* The stop at the first main phase behind an END_TURN is meant for the
\* scripted routes; the loop takes it in every mode.
BoundaryReached ==
  /\ rcDone["summon"] > 0 /\ LegalStop(Current) /\ rcDone["end"] > 0
  /\ rcTurn >= 2 /\ rcPhase = "main1"

Overflowed == PrefixMode /\ rcTurn > TurnLimit
OutOfBudget == ~PrefixMode /\ Len(rcEvents) >= ResponseBudget

TurnOverflow == rcPc = "loop" /\ Overflowed /\ Ended("path_failure")

BudgetExceeded == rcPc = "loop" /\ ~Overflowed /\ OutOfBudget /\ Ended("error")

FrontierDocument(o, turn, route) ==
  [events |-> Len(rcEvents), turn |-> turn, route |-> route,
   actions |-> IF o.win THEN {} ELSE LifecycleActions(o.kinds, turn),
   reason |-> BoundaryReason(o, turn)]

\* The whole prefix is replayed: a legal stop behind at least one action leads
\* to a complete Route, anything else to a bare frontier.
ReachTarget ==
  /\ rcPc = "loop" /\ ~Overflowed /\ ~OutOfBudget /\ AtTarget
  /\ IF LegalStop(Current) /\ rcEvents # <<>>
       THEN rcPc' = "build" /\ rcStop' = Len(rcEvents) - 1 /\ UNCHANGED rcDoc
     ELSE IF rcMode = "player_view"
       THEN rcPc' = "error" /\ UNCHANGED <<rcStop, rcDoc>>
     ELSE /\ rcDoc' = FrontierDocument(Current, rcTurn, FALSE)
          /\ rcPc' = "document" /\ UNCHANGED rcStop
  /\ UNCHANGED <<rcMode, rcScript, rcCore, rcPrefix, rcEvents, rcTurn, rcPhase,
                 rcIndex, rcDone, rcPlan>>

ReachBoundary ==
  /\ rcPc = "loop" /\ ~Overflowed /\ ~OutOfBudget /\ ~AtTarget /\ BoundaryReached
  /\ Ended("build")

Chosen == IF PrefixMode THEN Replayed(Current) ELSE Selected(Current)

NextIndex(turn) == IF turn # rcTurn THEN 0 ELSE rcIndex + 1

Progressed(done, kind, role) ==
  [r \in Roles |->
     done[r] + (IF \/ r = role
                   \/ r = "summon" /\ kind = "NORMAL_SUMMON"
                   \/ r = "end" /\ kind = "END_TURN" THEN 1 ELSE 0)]

\* A choice the policy or the prefix cannot make ends the worker.
Refuse ==
  /\ rcPc = "loop" /\ ~Overflowed /\ ~OutOfBudget /\ ~AtTarget /\ ~BoundaryReached
  /\ ~Chosen.ok
  /\ Ended("error")

LastEndTurn ==
  /\ rcPc = "loop" /\ ~Overflowed /\ ~OutOfBudget /\ ~AtTarget /\ ~BoundaryReached
  /\ PrefixMode /\ rcTurn >= TurnLimit /\ rcPrefix[Len(rcEvents) + 1] = "END_TURN"
  /\ Ended("path_failure")

\* The cancelled activation of the probe needs the event that began it.
ProbeOutcome ==
  IF \E s \in DOMAIN rcEvents : rcEvents[s].kind = "ACTIVATE_EFFECT" THEN "probe" ELSE "error"

\* One pass of the loop: choose, respond_action, process, record the event.
AnswerCore ==
  /\ rcPc = "loop" /\ ~Overflowed /\ ~OutOfBudget /\ ~AtTarget /\ ~BoundaryReached
  /\ PrefixMode /\ rcTurn >= TurnLimit => rcPrefix[Len(rcEvents) + 1] # "END_TURN"
  /\ \E c \in {Chosen} : \E o \in CoreAnswers(Len(rcEvents) + 2, c.kind) :
       /\ c.ok
       /\ rcEvents' = Append(rcEvents, [kind |-> c.kind, role |-> c.role, plan |-> c.plan,
                                        turn |-> rcTurn, index |-> rcIndex])
       /\ rcCore' = IF Len(rcEvents) + 2 <= Len(rcCore) THEN rcCore ELSE Append(rcCore, o)
       /\ rcStop' = IF o.win THEN Len(rcEvents)
                    ELSE IF rcDone["summon"] > 0 /\ LegalStop(Current) /\ rcDone["end"] = 0
                    THEN Len(rcEvents) - 1 ELSE rcStop
       /\ rcDone' = IF o.win THEN rcDone
                    ELSE Progressed(rcDone, c.kind, IF c.plan = 0 THEN c.role ELSE "")
       /\ rcPlan' = IF o.win \/ c.plan = 0 THEN rcPlan
                    ELSE IF c.role = "activate"
                    THEN [rcPlan EXCEPT ![c.plan].at = Len(rcEvents)]
                    ELSE [rcPlan EXCEPT ![c.plan].sent = @ + 1]
       /\ rcTurn' = NextTurn(o) /\ rcPhase' = NextPhase(o)
       /\ rcIndex' = NextIndex(NextTurn(o))
       /\ rcPc' = IF o.win THEN (IF o.chain = 0 THEN "build" ELSE "error")
                  ELSE IF c.role = "cancel" THEN ProbeOutcome ELSE "loop"
  /\ UNCHANGED <<rcMode, rcScript, rcPrefix, rcDoc>>

-----------------------------------------------------------------------------
(* The complete Route behind the loop.                                     *)

PlansComplete ==
  \A p \in DOMAIN rcPlan : rcPlan[p].at >= 0 /\ rcPlan[p].sent = Len(rcScript.plans[p].responses)

RequiredRoles(fixture) ==
  CASE fixture \in {"aggregation", "selection"} -> {"option"}
    [] fixture = "recovery" -> {"recovery_primary"}
    [] fixture = "sequence" -> {"matrix_primary", "matrix_secondary"}
    [] fixture \in Matrix \ {"sequence"} -> {"matrix_primary"}
    [] OTHER -> {}

ScriptComplete ==
  /\ PlansComplete
  /\ \A r \in RequiredRoles(rcScript.fixture) : rcDone[r] > 0
  /\ rcScript.fixture = "recovery" =>
       (rcDone["recovery_card"] > 0) = (rcScript.recovery /\ rcScript.plans # <<>>)

LegalSteps == {s \in DOMAIN rcEvents : LegalStop(rcCore[s + 1])}

\* A frontier document needs the legal stop the loop recorded at the end of
\* the prefix, or the terminal one.
StopRecorded == AtTarget \/ Current.win

BuildRoute ==
  /\ rcPc = "build"
  /\ IF \/ rcEvents = <<>> \/ LegalSteps = {} \/ rcStop < 0
        \/ ~PrefixMode /\ ~ScriptComplete
        \/ rcMode = "search_frontier" /\ ~StopRecorded
        \/ rcMode = "player_view" /\ Len(rcEvents) # rcDoc.events
       THEN rcPc' = "error" /\ UNCHANGED rcDoc
       ELSE /\ rcPc' = "document"
            /\ rcDoc' = FrontierDocument(Current, rcTurn, TRUE)
  /\ UNCHANGED <<rcMode, rcScript, rcCore, rcPrefix, rcEvents, rcTurn, rcPhase,
                 rcIndex, rcDone, rcPlan, rcStop>>

\* The search appends one of the actions offered and replays the new prefix
\* in a fresh worker; a route at a legal stop may be projected instead.
ExtendPrefix ==
  /\ rcPc = "document" /\ rcMode = "search_frontier" /\ Len(rcPrefix) < MaxPrefix
  /\ \E kind \in rcDoc.actions : rcPrefix' = Append(rcPrefix, kind)
  /\ rcPc' = "idle"
  /\ UNCHANGED <<rcMode, rcScript, rcCore, rcEvents, rcTurn, rcPhase, rcIndex,
                 rcDone, rcPlan, rcStop, rcDoc>>

ProjectRoute ==
  /\ rcPc = "document" /\ rcMode = "search_frontier" /\ rcDoc.route
  /\ rcMode' = "player_view" /\ rcPc' = "idle"
  /\ UNCHANGED <<rcScript, rcCore, rcPrefix, rcEvents, rcTurn, rcPhase, rcIndex,
                 rcDone, rcPlan, rcStop, rcDoc>>

RcNext == \/ StartWorker \/ RefuseExperiment \/ TurnOverflow \/ BudgetExceeded \/ ReachTarget
          \/ ReachBoundary \/ Refuse \/ LastEndTurn \/ AnswerCore
          \/ BuildRoute \/ ExtendPrefix \/ ProjectRoute
RcSpec == RcInit /\ [][RcNext]_rcVars

-----------------------------------------------------------------------------
\* A frontier describes the state behind the whole prefix it was asked for:
\* no loop exit of the scripted routes makes a document of a shorter replay.
\* Only a prefix brought from elsewhere may outrun the end of the duel.
FrontierIsPrefix ==
  rcPc = "document" /\ PrefixMode =>
    rcDoc.events = Len(rcPrefix) \/ (Current.win /\ rcPrefix \in GivenPrefixes)

\* No action offered leads beyond the turn limit: the replay of a prefix the
\* search extended fails only when the core itself begins a turn too many,
\* and the only action a frontier withholds is END_TURN in the last turn.
OffersStayInside ==
  /\ rcPc = "path_failure" => rcDoc = NoDoc \/ rcTurn > TurnLimit
  /\ rcPc = "document" /\ PrefixMode /\ ~Current.win =>
       /\ Current.kinds \ {"END_TURN"} \subseteq rcDoc.actions
       /\ "END_TURN" \in Current.kinds \ rcDoc.actions => rcTurn = TurnLimit

\* A scripted interruption is one block of the Route: the activation at its
\* target step, then its responses and nothing else (the end of the duel may
\* cut it short), and a finished Route has the blocks of all plans.
InterruptionBlocks ==
  /\ \A p \in DOMAIN rcPlan : rcPlan[p].at >= 0 =>
       /\ rcPlan[p].at = rcScript.plans[p].target.step
       /\ \A k \in 1..rcPlan[p].sent : rcEvents[rcPlan[p].at + 1 + k].plan = p
       /\ rcPlan[p].sent = Len(rcScript.plans[p].responses)
            \/ Current.win \/ Len(rcEvents) = rcPlan[p].at + 1 + rcPlan[p].sent
  /\ ~PrefixMode /\ rcPc = "document" =>
       \A p \in DOMAIN rcPlan : \E s \in DOMAIN rcEvents :
         rcEvents[s].plan = p /\ rcEvents[s].role = "activate"

\* The coordinates an interruption can aim at are unambiguous: turn and index
\* name one event, and the index counts the events of its turn from zero.
CoordinatesUnique ==
  \A s \in DOMAIN rcEvents :
    rcEvents[s].index =
      Cardinality({q \in DOMAIN rcEvents : q < s /\ rcEvents[q].turn = rcEvents[s].turn})

\* A document of the replay loop says what was replayed: the whole prefix, only
\* actions that stay inside the limits, whole interruption blocks at their
\* targets, and coordinates that name one event each.
RouteFaithful ==
  FrontierIsPrefix /\ OffersStayInside /\ InterruptionBlocks /\ CoordinatesUnique

=============================================================================
