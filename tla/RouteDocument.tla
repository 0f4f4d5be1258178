---------------------------- MODULE RouteDocument ----------------------------
(***************************************************************************)
(* Route documents: the worker builds one of the run it made               *)
(* (prototype/real_core.py), and every reader asks route_dsl/validator.py  *)
(* first whether the document it was handed, a YAML file that may have     *)
(* been edited since, may be trusted.                                      *)
(*                                                                         *)
(* Null is a missing entry, or an empty string.  A digest is what it is a  *)
(* digest of; identifiers, scores and evaluations are numbers.  Steps      *)
(* count from one.  The issues of the validator are left out, their        *)
(* absence is Accepted; validate_experiment finds nothing when valid.      *)
(***************************************************************************)
EXTENDS Integers, Sequences, FiniteSets, SequencesExt

CONSTANTS
  Null,
  RdRuns,   \* what workers have run
  RdChanged(_), RdDropped(_),  \* a document with one entry changed, dropped
  RdEdits   \* bound: edits of a document; none follows a drop

VARIABLES
  made,      \* the run, and how its worker ended
  document,  \* the document at hand
  history,   \* what was done to it since
  verdict    \* of the last reader

rdVars == <<made, document, history, verdict>>

WholeFrom(n, low) == n \in Int /\ n >= low

(***************************************************************************)
(* Recording                                                               *)
(***************************************************************************)
OccurrenceId(action, step, before, turn, index, chain) ==
  <<action, step, before, turn, index, chain>>

(* A move of the run as a replay event.  Its output has the lifecycle      *)
(* frames: whether a lifecycle opens with it, and what it negates.         *)
EventOf(m, i) ==
  LET batch == [state |-> m.after, opens |-> m.opens, negates |-> m.negates]
  IN [step |-> i, request |-> m.request, action_id |-> m.action,
      action |-> [id |-> m.action, kind |-> m.kind, request |-> m.request,
                  player |-> m.player, picks |-> m.picks],
      occurrence |-> OccurrenceId(m.action, i, m.before, m.turn, m.index, m.chain),
      before |-> m.before, after |-> m.after,
      turn |-> m.turn, index |-> m.index, chain |-> m.chain,
      response |-> [request |-> m.request, picks |-> m.picks],
      output |-> [id |-> batch, batch |-> batch]]

(* derive_ocgcore_action_aggregation: a group per lifecycle, found by the  *)
(* step it starts with, and a link from each of its steps.                 *)
GroupStarts(events) ==
  {i \in DOMAIN events : i = 1 \/ events[i].output.batch.opens}
GroupFrom(events, s) ==
  LET steps == {i \in DOMAIN events : s <= i /\
                  \A t \in GroupStarts(events) : s < t => i < t}
      at == [k \in 1..Cardinality(steps) |-> s + k - 1]
  IN [id |-> <<s, events[s].occurrence>>, steps |-> at,
      action_ids |-> [k \in DOMAIN at |-> events[at[k]].action.id],
      occurrences |-> [k \in DOMAIN at |-> events[at[k]].occurrence]]
Aggregation(events) ==
  LET start(i) == CHOOSE s \in GroupStarts(events) :
        s <= i /\ \A t \in GroupStarts(events) : t <= i => t <= s
  IN [groups |-> [s \in GroupStarts(events) |-> GroupFrom(events, s)],
      links |-> [i \in DOMAIN events |->
        [step |-> i, group |-> <<start(i), events[start(i)].occurrence>>,
         part |-> i - start(i) + 1, occurrence |-> events[i].occurrence]]]
AggregationEvidence(events) == [i \in DOMAIN events |-> events[i].output.batch.opens]

(* derive_ocgcore_interruption_validation *)
NegationEvidence(events) ==
  [i \in DOMAIN events |->
     [action |-> events[i].action, occurrence |-> events[i].occurrence,
      before |-> events[i].before, after |-> events[i].after,
      negates |-> events[i].output.batch.negates]]

CheckpointOf(r, i) ==
  LET b == r.boards[i]
  IN [step |-> i, hash |-> r.moves[i].after, turn |-> b.turn, board |-> b.board,
      evaluation |-> b.board, score |-> b.score, success |-> b.success,
      evaluation_result |-> [vector |-> b.board, total |-> b.score]]

(* _board_result *)
BoardOf(checkpoint) == [checkpoint EXCEPT !.board = Null]

(* build_durability_report: of two checkpoints, the second in a later turn.*)
Durable(before, after) == after.turn > before.turn
DurabilityReport(before, after) ==
  [before |-> BoardOf(before), after |-> BoardOf(after),
   score |-> after.score - before.score,
   changed |-> before.hash # after.hash,
   retained |-> before.success /\ after.success]

(* InformationAccessPolicy.decide: a private field needs an owner.         *)
NoOwner == 2
Decide(policy, access) ==
  CASE access.field = "public_state" -> "allowed"
    [] access.field = "deck_order" /\ ~policy.deck_known -> "denied"
    [] access.field # "public_state" /\ access.owner = NoOwner -> "invalid"
    [] policy.mode # "player_view" \/ access.owner = policy.viewer -> "allowed"
    [] OTHER -> "denied"

AuditOf(r) ==
  LET accesses == [i \in DOMAIN r.accesses |->
        [field |-> r.accesses[i].field, owner |-> r.accesses[i].owner,
         sequence |-> i, decision |-> Decide(r.policy, r.accesses[i])]]
      leaks == SelectSeq(accesses, LAMBDA a : a.decision # "allowed")
      body == [policy |-> r.policy, accesses |-> accesses, leaks |-> leaks,
               leak_count |-> Len(leaks)]
  IN [body |-> body, id |-> body]

(* build_opening_hand_sampling_evidence: the hands follow the reference.   *)
HandSampling(policy) ==
  [reference |-> policy.reference, policy |-> policy, hands |-> <<policy.reference>>]

(* The record of an interruption, made of its execution.                   *)
InterruptionOf(r, x) ==
  LET def == r.definitions[x.definition]
      targets == {k \in DOMAIN x.responses : x.responses[k].role = "target"}
  IN [id |-> def.id, definition |-> def.id, status |-> "applied_by_core",
      at |-> def.target.step, activation |-> x.activated,
      card |-> def.card, player |-> def.player, target |-> def.target,
      sampling |-> IF r.mode = "sampled" THEN r.sampled ELSE Null,
      target_step |-> IF targets = {} THEN Null
        ELSE x.responses[CHOOSE k \in targets : \A j \in targets : j <= k].step,
      policy |-> def.policy,
      responses |-> IF def.policy = Null THEN Null
        ELSE [k \in DOMAIN x.responses |->
          [index |-> k, role |-> x.responses[k].role, step |-> x.responses[k].step,
           picks |-> r.moves[x.responses[k].step].picks]]]

StopSteps(r) == {i \in DOMAIN r.boards : r.boards[i].can_stop}
PeakBefore(b, i, c, j) ==
  \/ b.success /\ ~c.success
  \/ b.success = c.success /\ (b.score > c.score \/ (b.score = c.score /\ i < j))
PeakStep(r) ==
  CHOOSE i \in StopSteps(r) : \A j \in StopSteps(r) \ {i} :
    PeakBefore(r.boards[i], i, r.boards[j], j)

Document(r) ==
  LET n == Len(r.moves)
      events == [i \in 1..n |-> EventOf(r.moves[i], i)]
      checkpoints == [i \in 1..n |-> CheckpointOf(r, i)]
      sampled == r.policy.mode = "sampled_private_state"
  IN [status |-> "complete",
      experiment |-> [valid |-> TRUE, policy |-> r.policy,
        interruption |-> [mode |-> r.mode, definitions |-> r.definitions]],
      replay |-> [events |-> events, traced |-> TRUE, policy |-> r.policy,
        snapshot |-> [mode |-> r.policy.mode, reference |-> r.policy.reference],
        conditions |-> [policy |-> r.policy, kind |-> r.policy.mode,
          hands |-> IF sampled THEN HandSampling(r.policy).hands ELSE Null],
        hand_sampling |-> IF sampled THEN HandSampling(r.policy) ELSE Null,
        sampling |-> IF r.mode = "sampled" THEN r.sampled ELSE Null],
      audit |-> AuditOf(r),
      presentation |-> [aggregation |-> Aggregation(events), status |-> "validated",
        method |-> "ocgcore", evidence |-> AggregationEvidence(events),
        negations |-> NegationEvidence(events)],
      checkpoints |-> checkpoints,
      result |-> [success |-> r.boards[PeakStep(r)].success,
        peak |-> BoardOf(checkpoints[PeakStep(r)]),
        terminal |-> BoardOf(checkpoints[n]),
        durability |-> IF r.prefix THEN Null
                       ELSE DurabilityReport(checkpoints[r.temporary], checkpoints[n]),
        explanation |-> [components |-> checkpoints[n].board,
          values |-> checkpoints[n].board, turn |-> checkpoints[n].turn]],
      interruptions |-> [k \in DOMAIN r.executions |-> InterruptionOf(r, r.executions[k])],
      lineage |-> IF r.executions = <<>> THEN [parent |-> Null, fork |-> Null]
        ELSE LET last == r.definitions[Last(r.executions).definition]
             IN [parent |-> last.base, fork |-> last.target.step]]

(* What the worker asks of a run before it makes a document of it.         *)
Recordable(r) ==
  /\ r.moves # <<>>
  /\ \A k \in DOMAIN r.executions :
       LET x == r.executions[k]
           def == r.definitions[x.definition]
       IN x.activated # Null /\ Len(x.responses) = def.answers
  /\ StopSteps(r) # {} /\ r.temporary # Null
  /\ r.prefix \/ Durable(CheckpointOf(r, r.temporary), CheckpointOf(r, Len(r.moves)))
  /\ AuditOf(r).body.leaks = <<>>

(***************************************************************************)
(* Validation: each part of a document is well formed and agrees with the  *)
(* parts it refers to.                                                     *)
(***************************************************************************)
EventOK(e, i) ==
  /\ e # Null /\ e.step = i /\ e.request # Null
  /\ e.action # Null /\ e.action.id # Null /\ e.action.kind # Null
  /\ e.action.request = e.request
  /\ e.action_id \in {Null, e.action.id}
  /\ e.occurrence # Null =>
       /\ e.before # Null
       /\ e.turn = Null \/ WholeFrom(e.turn, 1)
       /\ e.index = Null \/ WholeFrom(e.index, 0)
       /\ e.chain = Null \/ WholeFrom(e.chain, 0)
       /\ e.occurrence = OccurrenceId(e.action.id, i, e.before, e.turn, e.index, e.chain)

(* assert_complete_io_trace *)
TraceOK(e) ==
  /\ e.response # Null /\ e.response.request = e.request
  /\ e.response.picks # Null /\ e.action.picks # Null => e.response.picks = e.action.picks
  /\ e.output # Null /\ e.output.batch # Null /\ e.output.id = e.output.batch
  /\ e.output.batch.state = e.after

EventsOK(replay) ==
  /\ replay # Null /\ replay.snapshot # Null /\ replay.events # Null
  /\ \A i \in DOMAIN replay.events : EventOK(replay.events[i], i)
  /\ \A i, j \in DOMAIN replay.events :
       replay.events[i].occurrence = replay.events[j].occurrence =>
         i = j \/ replay.events[i].occurrence = Null
  /\ replay.traced # Null => \A i \in DOMAIN replay.events : TraceOK(replay.events[i])

AuditOK(audit, policy) ==
  /\ audit # Null /\ audit.body # Null /\ audit.id = audit.body
  /\ audit.body.policy = policy
  /\ audit.body.accesses # Null =>
       LET accesses == audit.body.accesses IN
       /\ \A i \in DOMAIN accesses :
            /\ accesses[i] # Null /\ accesses[i].field # Null /\ accesses[i].owner \in 0..NoOwner
            /\ accesses[i].sequence = i
            /\ accesses[i].decision = Decide(policy, accesses[i])
            /\ accesses[i].decision # "invalid"
       /\ audit.body.leaks = SelectSeq(accesses, LAMBDA a : a.decision # "allowed")
       /\ audit.body.leak_count = Len(audit.body.leaks)

(* _validate_information_policy_links: one policy in experiment, manifest, *)
(* snapshot and audit, and hands as it deals them.                         *)
ConditionsOK(replay, policy) ==
  LET given == replay.conditions IN
  given # Null =>
    /\ given.policy = policy /\ given.kind = policy.mode
    /\ replay.snapshot.mode = policy.mode
    /\ replay.snapshot.reference = policy.reference
    /\ IF policy.mode = "sampled_private_state"
       THEN /\ replay.hand_sampling = HandSampling(policy)
            /\ given.hands = replay.hand_sampling.hands
       ELSE replay.hand_sampling = Null
    /\ policy.mode = "player_view" => given.hands = Null

InformationOK(d) ==
  LET policy == d.experiment.policy IN
  policy # Null =>
    /\ d.replay.policy = policy /\ ConditionsOK(d.replay, policy)
    /\ AuditOK(d.audit, policy)

(* _validate_action_aggregation: contiguous groups that cover every event  *)
(* once, and one link of every event to its place in its group.            *)
GroupOK(g, events) ==
  /\ g # Null /\ g.id # Null /\ g.steps # Null /\ g.steps # <<>>
  /\ \A k \in DOMAIN g.steps : g.steps[k] \in DOMAIN events
  /\ \A k \in DOMAIN g.steps : g.steps[k] = g.steps[1] + k - 1
  /\ g.action_ids = [k \in DOMAIN g.steps |-> events[g.steps[k]].action.id]
  /\ g.occurrences = [k \in DOMAIN g.steps |-> events[g.steps[k]].occurrence]

LinkOK(l, groups, events) ==
  /\ l # Null /\ l.step \in DOMAIN events
  /\ \E g \in DOMAIN groups :
       /\ groups[g].id = l.group /\ l.part \in DOMAIN groups[g].steps
       /\ groups[g].steps[l.part] = l.step
  /\ l.occurrence = events[l.step].occurrence

AggregationOK(a, events) ==
  /\ a # Null /\ a.groups # Null /\ a.links # Null
  /\ \A g \in DOMAIN a.groups : GroupOK(a.groups[g], events)
  /\ \A g, h \in DOMAIN a.groups : a.groups[g].id = a.groups[h].id => g = h
  /\ \A i \in DOMAIN events :
       /\ Cardinality({g \in DOMAIN a.groups : \E k \in DOMAIN a.groups[g].steps :
                         a.groups[g].steps[k] = i}) = 1
       /\ Cardinality({l \in DOMAIN a.links : a.links[l] # Null /\ a.links[l].step = i}) = 1
  /\ \A l \in DOMAIN a.links : LinkOK(a.links[l], a.groups, events)

PresentationOK(p, events) ==
  p # Null =>
    /\ AggregationOK(p.aggregation, events)
    /\ p.status \in {"validated", "provisional"}
    /\ p.status = "validated" =>
         /\ p.method = "ocgcore"
         /\ \A i \in DOMAIN events : events[i].output # Null /\ events[i].output.batch # Null
         /\ p.aggregation = Aggregation(events)
         /\ p.evidence = AggregationEvidence(events)
    /\ p.negations # Null =>
         /\ \A i \in DOMAIN events : events[i].output # Null /\ events[i].output.batch # Null
         /\ p.negations = NegationEvidence(events)

CheckpointOK(c, events) ==
  /\ c # Null /\ c.step \in DOMAIN events /\ c.hash # Null
  /\ events[c.step].after \in {Null, c.hash}
  /\ c.board # Null /\ c.evaluation # Null
  /\ c.evaluation_result # Null =>
       /\ c.evaluation_result.vector = c.evaluation
       /\ c.evaluation_result.total = c.score

CheckpointsOK(cs, events) ==
  /\ cs # Null
  /\ \A k \in DOMAIN cs : CheckpointOK(cs[k], events)
  /\ \A j, k \in DOMAIN cs : cs[j].step = cs[k].step => j = k

(* _board_result; a result the board lacks is not asked for.               *)
At(cs, step) == {cs[k] : k \in {k \in DOMAIN cs : cs[k].step = step}}
BoardOK(b, cs) ==
  \E c \in At(cs, b.step) :
    /\ b.hash = c.hash /\ b.score \in Int /\ b.evaluation # Null
    /\ b.evaluation_result \in {Null, c.evaluation_result}

(* _durability_result: what is read again is the whole report.             *)
DurabilityOK(report, cs) ==
  report # Null =>
    /\ report.before # Null /\ report.after # Null
    /\ \E before \in At(cs, report.before.step), after \in At(cs, report.after.step) :
         /\ {before.turn, after.turn, before.score, after.score} \subseteq Int
         /\ {before.success, after.success} \subseteq BOOLEAN
         /\ Durable(before, after) /\ report = DurabilityReport(before, after)

(* _evaluation_explanation *)
ExplanationOK(x, terminal) ==
  x # Null =>
    /\ x.components # Null /\ x.turn # Null /\ x.values = x.components
    /\ terminal # Null => x.turn = terminal.turn

ResultOK(d) ==
  LET r == d.result IN
  /\ r # Null /\ r.success \in BOOLEAN
  /\ \A b \in {r.peak, r.terminal} :
       IF b = Null THEN d.status # "complete" ELSE BoardOK(b, d.checkpoints)
  /\ DurabilityOK(r.durability, d.checkpoints)
  /\ ExplanationOK(r.explanation, r.terminal)

(* An interruption the core applied: the definition it comes from, the     *)
(* request it interrupted, and the answers that followed.                  *)
TargetOf(e, i) ==
  [occurrence |-> OccurrenceId(e.action.id, i, e.before, e.turn, e.index, e.chain),
   action |-> e.action.id, request |-> e.request, before |-> e.before, step |-> i,
   turn |-> e.turn, index |-> e.index, chain |-> e.chain, player |-> e.action.player]
TargetOK(t) ==
  /\ t # Null /\ {t.action, t.request, t.before, t.player} \cap {Null} = {}
  /\ t.occurrence = OccurrenceId(t.action, t.step, t.before, t.turn, t.index, t.chain)
(* Mutant: the request of the target is taken on trust.                    *)
OpportunityNamed(t, e, i) == t.step = i /\ t.occurrence # Null
OpportunityOK(t, e, i) ==
  t = [TargetOf(e, i) EXCEPT !.action = t.action, !.occurrence = t.occurrence]

ResponseOK(s, k, at, events) ==
  /\ s # Null /\ s.index = k /\ s.role \in {"target", "cost", "option"}
  /\ s.step \in DOMAIN events /\ s.step > at
  /\ s.picks # Null /\ s.picks # <<>> /\ s.picks = events[s.step].action.picks

AnswersOK(x, events) ==
  IF x.responses = Null
  THEN /\ x.target_step \in DOMAIN events /\ x.target_step > x.at
       /\ events[x.target_step].action.kind = "SELECT_CARD"
  ELSE LET steps == {x.responses[k].step : k \in
             {k \in DOMAIN x.responses : x.responses[k].role = "target"}} IN
       /\ x.policy # Null
       /\ \A k \in DOMAIN x.responses : ResponseOK(x.responses[k], k, x.at, events)
       /\ IF steps = {} THEN x.target_step = Null ELSE x.target_step \in steps

(* applied_indexes, and the last of some indexes.                          *)
Applied(d) ==
  {k \in DOMAIN d.interruptions :
     d.interruptions[k] # Null /\ d.interruptions[k].status = "applied_by_core"}
LastOf(indexes) == CHOOSE k \in indexes : \A j \in indexes : j <= k

AppliedOK(x, d, def) ==
  LET events == d.replay.events
      config == d.experiment.interruption
  IN /\ x.definition = def.id /\ x.id = def.id
     /\ x.card = def.card /\ x.player = def.player /\ x.target = def.target
     /\ def.policy # Null => x.policy = def.policy
     /\ x.sampling = IF config.mode = "sampled" THEN d.replay.sampling ELSE Null
     /\ TargetOK(x.target) /\ OpportunityOK(x.target, events[x.at], x.at)
     /\ x.activation = x.at /\ events[x.at].action.kind = "ACTIVATE_EFFECT"
     /\ AnswersOK(x, events)

(* The definitions in the order the experiment gives them, or the one that *)
(* was sampled; the route forks from its parent at the last.               *)
InterruptionsOK(d) ==
  LET xs == d.interruptions
      applied == Applied(d)
      config == d.experiment.interruption
      defs == IF config = Null THEN {} ELSE
                {config.definitions[k] : k \in DOMAIN config.definitions} \ {Null}
      mode == IF config = Null THEN Null ELSE config.mode
      ordered == IF mode = "scripted"
                 THEN [k \in DOMAIN config.definitions |-> config.definitions[k].id]
                 ELSE IF mode = "sampled" THEN <<d.replay.sampling>> ELSE <<>>
  IN xs # Null =>
     /\ \A k \in DOMAIN xs : xs[k] # Null /\ xs[k].id # Null
                              /\ xs[k].at \in DOMAIN d.replay.events
     /\ \A k \in applied : \E def \in defs : AppliedOK(xs[k], d, def)
     /\ \A j, k \in applied : j < k => xs[j].at < xs[k].at
     /\ applied # {} =>
          LET last == xs[LastOf(applied)] IN
          /\ Cardinality(applied) = Len(ordered)
          /\ \A k \in applied : xs[k].definition = ordered[Cardinality(applied \cap 1..k)]
          /\ d.lineage # Null /\ d.lineage.fork = last.at
          /\ \A def \in defs : def.id = last.definition => d.lineage.parent = def.base

(* validate_route_document finds no issue.                                 *)
Accepted(d) ==
  /\ d.status \in {"complete", "partial", "failed"}
  /\ d.experiment # Null /\ d.experiment.valid = TRUE
  /\ EventsOK(d.replay)
  /\ InformationOK(d)
  /\ PresentationOK(d.presentation, d.replay.events)
  /\ CheckpointsOK(d.checkpoints, d.replay.events)
  /\ ResultOK(d)
  /\ InterruptionsOK(d)

(***************************************************************************)
(* The life of a document                                                  *)
(***************************************************************************)
RdInit ==
  /\ made = [run |-> Null, outcome |-> "none"]
  /\ document = Null /\ history = <<>> /\ verdict = "none"

(* The worker validates what it is about to hand out.                      *)
RecordRoute(r) ==
  /\ made.outcome = "none"
  /\ made' = [run |-> r,
       outcome |-> IF ~Recordable(r) THEN "failed"
                   ELSE IF ~Accepted(Document(r)) THEN "protocol" ELSE "document"]
  /\ document' = IF made'.outcome = "document" THEN Document(r) ELSE Null
  /\ UNCHANGED <<history, verdict>>

EditDocument ==
  /\ document # Null /\ Len(history) < RdEdits /\ "drop" \notin Range(history)
  /\ \/ document' \in RdChanged(document) /\ history' = Append(history, "change")
     \/ document' \in RdDropped(document) /\ history' = Append(history, "drop")
  /\ verdict' = "none"
  /\ UNCHANGED made

(* verify_real_core_route: a fresh worker replays the experiment.          *)
Read(replayed) ==
  /\ document # Null /\ verdict = "none"
  /\ verdict' = IF ~Accepted(document) THEN "invalid"
                ELSE IF replayed /\ document # Document(made.run) THEN "differs"
                ELSE IF replayed THEN "verified" ELSE "read"
  /\ UNCHANGED <<made, document, history>>

RdNext == (\E r \in RdRuns : RecordRoute(r)) \/ EditDocument \/ \E replayed \in BOOLEAN : Read(replayed)
RdSpec == RdInit /\ [][RdNext]_rdVars

(***************************************************************************)
(* Properties                                                              *)
(***************************************************************************)
(* The boards of a route are states its replay reached: a board names a    *)
(* checkpoint, the checkpoint an event, and all three the same state.      *)
BoardsReached(d) ==
  LET events == d.replay.events
      boards == {d.result.peak, d.result.terminal} \cup
                  (IF d.result.durability = Null THEN {}
                   ELSE {d.result.durability.before, d.result.durability.after})
  IN \A b \in boards \ {Null} :
       b.step \in DOMAIN events /\ events[b.step].after \in {Null, b.hash}

(* The interruptions of a route happened as the experiment defines them:   *)
(* each of a script once and in its order, each as an activation at the    *)
(* state and by the player its target names, answered before the end; the  *)
(* route shares with its parent what precedes the last of them.            *)
InterruptedAsDefined(d) ==
  LET xs == d.interruptions
      applied == IF xs = Null THEN {} ELSE Applied(d)
      events == d.replay.events
      config == d.experiment.interruption
  IN applied # {} =>
     /\ config.mode = "scripted" => Cardinality(applied) = Len(config.definitions)
     /\ \A k \in applied :
          /\ xs[k].at <= d.lineage.fork
          /\ events[xs[k].at].before = xs[k].target.before
          /\ events[xs[k].at].action.player = xs[k].target.player
          /\ xs[k].responses # Null => \A j \in DOMAIN xs[k].responses :
               xs[k].responses[j].step \in xs[k].at + 1..Len(events)

(* Every move belongs to the lifecycle that was open when it was made.     *)
MovesGrouped(d) ==
  d.presentation # Null =>
    LET groups == d.presentation.aggregation.groups
        of(i) == {g \in DOMAIN groups : \E k \in DOMAIN groups[g].steps : groups[g].steps[k] = i}
        events == d.replay.events
    IN /\ \A i \in DOMAIN events : Cardinality(of(i)) = 1
       /\ d.presentation.status = "validated" =>
            \A i \in DOMAIN events \ {1} :
              of(i) = of(i - 1) <=> ~events[i].output.batch.opens

(* What no single edit can change unnoticed: the moves, the information    *)
(* policy and audit, the states on the boards, and, as long as it tells of *)
(* one that was applied, the interruptions, but for a list of answers that *)
(* is missing, and the parent it forks from.                               *)
Essence(d) ==
  [moves |-> [i \in DOMAIN d.replay.events |->
     LET e == d.replay.events[i] IN
     [request |-> e.request, action |-> e.action.id, picks |-> e.action.picks,
      before |-> e.before, turn |-> e.turn, chain |-> e.chain]],
   policy |-> d.replay.policy, audit |-> d.audit,
   boards |-> [peak |-> <<d.result.peak.step, d.result.peak.hash>>,
               terminal |-> <<d.result.terminal.step, d.result.terminal.hash>>]]
SameRoute(d, e) ==
  /\ Essence(d) = Essence(e)
  /\ d.interruptions # Null /\ Applied(d) # {} =>
       /\ d.lineage = e.lineage
       /\ DOMAIN d.interruptions = DOMAIN e.interruptions
       /\ \A k \in DOMAIN e.interruptions : LET x == e.interruptions[k] IN
            d.interruptions[k] \in {x, [x EXCEPT !.responses = Null]}

(* A reader is let read only what a worker could have recorded of a run;   *)
(* and no worker refuses the document of its own run.                      *)
DocumentsTrusted ==
  /\ made.outcome # "protocol"
  /\ verdict \in {"read", "verified"} =>
       /\ BoardsReached(document) /\ InterruptedAsDefined(document)
       /\ MovesGrouped(document)
       /\ Len(history) = 1 => SameRoute(document, Document(made.run))

=============================================================================
