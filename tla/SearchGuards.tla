----------------------------- MODULE SearchGuards -----------------------------
(***************************************************************************)
(* What ends a search and what it gives up.                                *)
(*                                                                         *)
(* engine/search/termination.py: SearchTerminationMonitor.  The loop asks  *)
(* check_before_expand, reports observe_node, and ends with mark_exhausted.*)
(*                                                                         *)
(* engine/search/pruning.py: the scores two sibling actions have gathered  *)
(* are compared by the confidence interval of each, and the worse is given *)
(* up only when its optimistic bound lies below the other's pessimistic    *)
(* one.  Every decision goes into an audit log.  Correlated runs share a   *)
(* sampling unit and count once under the guarded method; the deprecated   *)
(* method takes every score for one.                                       *)
(*                                                                         *)
(* Scores are integers and means are exact: they are scaled by Scale^2, a  *)
(* number every sample count divides.  Radius gives the Hoeffding radius   *)
(* of a method and a sample count on that scale.                           *)
(***************************************************************************)
EXTENDS Integers, Sequences, FiniteSets, SequencesExt

(***************************************************************************)
(* The monitor                                                             *)
(***************************************************************************)
CONSTANTS
  SmBudgets,  \* the SearchBudgets tried; a field is a number or Unlimited
  Unlimited,
  SmScores, SmTransitions,
  SmNodes     \* bound: nodes observed

(* SearchBudget.__post_init__: a limit is None or at least 1.              *)
Limits == (Nat \ {0}) \cup {Unlimited}
BudgetValid(b) ==
  /\ \A f \in {"depth", "nodes", "replays", "repeats", "stagnation"} : b[f] \in Limits
  /\ b.target \in Nat \cup {Unlimited}
  /\ b.on_success \in BOOLEAN /\ b.timed \in BOOLEAN

ASSUME MonitorAssumption ==
  /\ \A b \in SmBudgets : BudgetValid(b)
  /\ SmScores \subseteq Nat

VARIABLES budget, monitor
smVars == <<budget, monitor>>

Reached(limit, n) == limit # Unlimited /\ n >= limit

SmInit ==
  /\ budget \in SmBudgets
  /\ monitor = [nodes |-> 0, replays |-> 0, best |-> -1, since |-> 0,
                visits |-> [t \in SmTransitions |-> 0], decision |-> "none",
                decided |-> [nodes |-> 0, best |-> -1]]

(* _stop: the first decision stands.                                       *)
Decide(m, reason) ==
  IF m.decision # "none" \/ reason = "none" THEN m
  ELSE [m EXCEPT !.decision = reason,
                 !.decided = [nodes |-> m.nodes, best |-> m.best]]

BeforeExpand(depth, late) ==
  IF Reached(budget.depth, depth) THEN "max_depth"
  ELSE IF budget.timed /\ late THEN "max_seconds" ELSE "none"

SmCheck(depth, late) ==
  /\ monitor' = Decide(monitor, BeforeExpand(depth, late))
  /\ UNCHANGED budget

Observed(score, replays, t) ==
  [nodes |-> monitor.nodes + 1, replays |-> monitor.replays + replays,
   best |-> IF score > monitor.best THEN score ELSE monitor.best,
   since |-> IF score > monitor.best THEN 0 ELSE monitor.since + 1,
   visits |-> [monitor.visits EXCEPT ![t] = @ + 1],
   decision |-> monitor.decision, decided |-> monitor.decided]

(* mutant: the replay budget is not tested *)
AfterNodeNoReplays(m, score, success, t, late) ==
  IF (success /\ budget.on_success) \/ Reached(budget.target, score)
  THEN "goal_reached"
  ELSE IF Reached(budget.repeats, m.visits[t]) THEN "repeated_transition"
  ELSE IF Reached(budget.nodes, m.nodes) THEN "max_nodes"
  ELSE IF Reached(budget.stagnation, m.since) THEN "stagnation"
  ELSE IF budget.timed /\ late THEN "max_seconds" ELSE "none"

(* The reasons of observe_node in the order they are tested.               *)
AfterNode(m, score, success, t, late) ==
  IF success /\ budget.on_success THEN "goal_reached"
  ELSE IF Reached(budget.target, score) THEN "goal_reached"
  ELSE IF Reached(budget.repeats, m.visits[t]) THEN "repeated_transition"
  ELSE IF Reached(budget.nodes, m.nodes) THEN "max_nodes"
  ELSE IF Reached(budget.replays, m.replays) THEN "max_replays"
  ELSE IF Reached(budget.stagnation, m.since) THEN "stagnation"
  ELSE IF budget.timed /\ late THEN "max_seconds" ELSE "none"

(* A goal is decided before the transition is counted.                     *)
SmObserve(score, success, replays, t, late) ==
  LET m == Observed(score, replays, t)
      reason == AfterNode(m, score, success, t, late)
      kept == IF reason = "goal_reached"
              THEN [m EXCEPT !.visits = monitor.visits] ELSE m
  IN /\ monitor.nodes < SmNodes
     /\ monitor' = IF monitor.decision # "none" THEN monitor
                   ELSE Decide(kept, reason)
     /\ UNCHANGED budget

SmExhausted ==
  /\ monitor' = Decide(monitor, "exhausted")
  /\ UNCHANGED budget

SmNext ==
  \/ \E depth \in 0..2, late \in BOOLEAN : SmCheck(depth, late)
  \/ \E score \in SmScores, success \in BOOLEAN, n \in 0..2,
        t \in SmTransitions, late \in BOOLEAN :
       SmObserve(score, success, n, t, late)
  \/ SmExhausted

SmSpec == SmInit /\ [][SmNext]_smVars

(* A decision is made once: whatever is observed, checked or marked later, *)
(* its reason and the counters it reported never change, and the counters  *)
(* of the monitor stop with it.                                            *)
DecisionStands ==
  monitor.decision # "none" => monitor' = monitor

(* No budget is silently passed: while the monitor says continue, every    *)
(* limit that observe_node tests is still unreached.                       *)
NothingOverlooked ==
  monitor.decision = "none" =>
    /\ ~Reached(budget.nodes, monitor.nodes)
    /\ monitor.nodes > 0 => ~Reached(budget.replays, monitor.replays)
    /\ ~Reached(budget.stagnation, monitor.since)
    /\ ~Reached(budget.target, monitor.best)
    /\ \A t \in SmTransitions :
         monitor.visits[t] > 0 => ~Reached(budget.repeats, monitor.visits[t])

(* A search stops at the first limit it reaches and for that reason: no    *)
(* step passes a limit unnoticed, and none touches a decision once made.   *)
BudgetDecided == [][NothingOverlooked' /\ DecisionStands]_smVars

(***************************************************************************)
(* Pruning                                                                 *)
(***************************************************************************)
CONSTANTS PrActions,   \* sibling actions, one incumbent among them
          PrEvidence,  \* what may have been gathered: [data, known, samples]
          PrPolicies,  \* [method, visits, low, high, margin, probability]
          Radius(_, _),
          Scale,
          PrCalls      \* bound: calls

VARIABLES prPolicy,
          evidence,    \* action -> its evidence
          audit,       \* the records of the audit log
          prCalls

prVars == <<prPolicy, evidence, audit, prCalls>>

\* What a policy is not refused for (PruningGuardrailPolicy.__post_init__).
PolicyValid(p) ==
  /\ p.visits \in Nat \ {0} /\ p.probability > 0
  /\ p.low \in Int /\ p.high \in Int /\ p.low < p.high /\ p.margin \in Nat
  /\ p.method \in {"independent_cluster", "bounded"}

ASSUME PruningAssumption ==
  /\ Scale \in Nat \ {0}
  /\ PrActions # {} /\ IsFiniteSet(PrActions)
  /\ PrEvidence \subseteq
       [data : STRING, known : BOOLEAN, samples : Seq([unit : Nat, score : Int])]
  /\ \A p \in PrPolicies :
       /\ PolicyValid(p)
       /\ \A e \in PrEvidence : \A n \in 1..Len(e.samples) : Radius(p.method, n) \in Nat

Guarded == prPolicy.method = "independent_cluster"

\* A sample is a score and the unit it was drawn in.
UnitsOf(e) == {e.samples[k].unit : k \in DOMAIN e.samples}
UnitSamples(e, u) == {k \in DOMAIN e.samples : e.samples[k].unit = u}

\* independent_unit_count under the guarded method, else visits
CountEveryScore(e) == Len(e.samples)
SampleCount(e) == IF Guarded THEN Cardinality(UnitsOf(e)) ELSE Len(e.samples)

\* independent_unit_scores: one mean per unit
RawScores(e) == [k \in DOMAIN e.samples |-> e.samples[k].score * Scale]
UnitMeans(e) ==
  [u \in UnitsOf(e) |->
     SumFunctionOnSet(RawScores(e), UnitSamples(e, u)) \div Cardinality(UnitSamples(e, u))]

MeanScore(e) ==
  LET s == IF Guarded THEN UnitMeans(e) ELSE RawScores(e)
  IN  (SumFunction(s) * Scale) \div Cardinality(DOMAIN s)

HigherOf(a, b) == IF a > b THEN a ELSE b
LowerOf(a, b) == IF a < b THEN a ELSE b

\* _interval: the bounds are clipped to the scores the policy allows.
Lower(e) ==
  HigherOf(prPolicy.low * Scale * Scale, MeanScore(e) - Radius(prPolicy.method, SampleCount(e)))
Upper(e) ==
  LowerOf(prPolicy.high * Scale * Scale, MeanScore(e) + Radius(prPolicy.method, SampleCount(e)))

OutOfBounds(e) ==
  \E k \in DOMAIN e.samples : e.samples[k].score \notin prPolicy.low .. prPolicy.high

\* The candidate's optimistic bound against the incumbent's pessimistic one.
Dominated(c, i) == Upper(c) + prPolicy.margin < Lower(i)

\* assess, for two actions of one parent state
Verdict(c, i) ==
  IF c.data # "current" \/ i.data # "current"
  THEN <<"invalidate", "data_identity_mismatch">>
  ELSE IF Guarded /\ ~(c.known /\ i.known) THEN <<"keep", "independence_unverified">>
  ELSE IF SampleCount(c) < prPolicy.visits THEN <<"keep", "mandatory_minimum_visits">>
  ELSE IF SampleCount(i) < prPolicy.visits THEN <<"keep", "incumbent_under_sampled">>
  ELSE IF OutOfBounds(c) \/ OutOfBounds(i) THEN <<"raise", "out of bounds">>
  ELSE IF Dominated(c, i) THEN <<"prune", "optimistic_bound_dominated">>
  ELSE <<"keep", "confidence_overlap">>

PrInit ==
  /\ prPolicy \in PrPolicies
  /\ evidence \in [PrActions -> PrEvidence]
  /\ audit = <<>> /\ prCalls = 0

Calls(record) ==
  /\ prCalls < PrCalls /\ prCalls' = prCalls + 1
  /\ audit' = audit \o record
  /\ UNCHANGED <<prPolicy, evidence>>

\* An assessment that raises leaves no record.
Assess(c, i) ==
  LET v == Verdict(evidence[c], evidence[i])
  IN  Calls(IF v[1] = "raise" THEN <<>>
            ELSE <<[candidate |-> c, incumbent |-> i, disposition |-> v[1], reason |-> v[2]]>>)

ChooseUnexplored(has, draw) ==
  Calls(<<[unexplored |-> has /\ draw < prPolicy.probability,
           reason |-> CASE ~has -> "no_unexplored_actions"
                        [] has /\ draw < prPolicy.probability -> "probability_selected_unexplored"
                        [] OTHER -> "probability_selected_explored"]>>)

PrNext ==
  \/ \E c, i \in PrActions : c # i /\ Assess(c, i)
  \/ \E has \in BOOLEAN, draw \in 0..1 : ChooseUnexplored(has, draw)

PrSpec == PrInit /\ [][PrNext]_prVars

Prunes(c, i) == Verdict(c, i)[1] = "prune"
Again(e) == [e EXCEPT !.samples = @ \o @]

(* Under the guarded method a run repeated in the same sampling unit is no *)
(* evidence of its own: to run every sample of two actions twice prunes    *)
(* nothing that was kept.                                                  *)
RepeatsAddNothing ==
  Guarded => \A c, i \in PrActions :
    c # i /\ Prunes(Again(evidence[c]), Again(evidence[i])) => Prunes(evidence[c], evidence[i])

(* Assessing every action against every other never gives all of them up:  *)
(* whatever was sampled, and with whatever data, one survives.             *)
SomeActionSurvives ==
  \E c \in PrActions : \A i \in PrActions \ {c} : ~Prunes(evidence[c], evidence[i])

(* Pruning rests on independent samples and leaves something to play.      *)
EvidenceCounted == RepeatsAddNothing /\ SomeActionSurvives

=============================================================================
