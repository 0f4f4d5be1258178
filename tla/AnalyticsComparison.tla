-------------------------- MODULE AnalyticsComparison --------------------------
(***************************************************************************)
(* storage/comparison.py: paired comparison of a baseline, an interrupted  *)
(* and a recovery arm per lineage.  Observations are made of query rows    *)
(* and validated lineage evidence, and a report is built of those at hand. *)
(*                                                                         *)
(* A digest is what it is a digest of.  A lineage key is the lineage and   *)
(* one value for deck, scenario, hand, trial and interruption.  A relative *)
(* delta is a pair of numerator and denominator, a mean the pair of its    *)
(* sum and count.  Of a mean of relative deltas there are the pairs it is  *)
(* over, of a confidence interval its status.                              *)
(***************************************************************************)
EXTENDS AnalyticsQuery, FiniteSetsExt, Functions

CONSTANTS
  CmpOffers,    \* arguments of comparison_observation_from_query_row
  CmpRequests,  \* [snapshot, metrics, confidence]
  CmpEvidence,  \* sequences of compatibility evidence: [left, right]
  CmpSize       \* bound: observations of a report

VARIABLES
  observed,  \* the observations at hand, in the order they were made
  report     \* the last report built, or why there is none

cmpVars == <<observed, report>>

ComparisonArm == {"baseline", "interrupted", "recovery"}
Transitions == {<<"baseline", "interrupted">>, <<"baseline", "recovery">>,
                <<"interrupted", "recovery">>}
CensoredAt(completion) == completion \notin {"complete", "frontier_exhausted"}

(***************************************************************************)
(* Observations                                                            *)
(***************************************************************************)
(* ValidatedComparisonLineage: the evidence is whole and unaltered.        *)
LineageId(e) == <<e.baseline, e.divergence, e.interrupted, e.recovery>>
LineageOK(e) ==
  /\ e.status = "validated"
  /\ e.divergence_id = e.divergence
  /\ e.recovery # <<>> /\ e.recovery_action_count = Len(e.recovery)
  /\ e.lineage_id = LineageId(e)

(* ComparisonLineageKey                                                    *)
LineageKey(e, trial) == <<LineageId(e), trial>>

SemanticIdFor(e, arm) ==
  CASE arm = "baseline" -> <<e.baseline>>
    [] arm = "interrupted" -> <<e.interrupted>>
    [] arm = "recovery" -> e.recovery

(* ComparisonBudget: recorded with a plan it does not exceed, or not.      *)
NotRecorded == [unit |-> "none", planned |-> 0, consumed |-> 0]
BudgetOK(b) ==
  b = NotRecorded \/ (b.unit # "none" /\ b.planned >= 1 /\ b.consumed <= b.planned)
BudgetIdentity(b) == <<b.unit, b.planned>>
PartlyConsumed(b) == b # NotRecorded /\ b.consumed < b.planned

NoPolicy == "no policy"

(* ComparisonObservation.__post_init__ and the checks on its row.          *)
ObservationOK(o) ==
  /\ RowOK(o.row) /\ o.row.values["run"].state = "value"
  /\ LineageOK(o.lineage)
  /\ o.semantic = SemanticIdFor(o.lineage, o.arm)
  /\ BudgetOK(o.budget)
  /\ o.completion = "pruned" => o.policy # NoPolicy

(* comparison_observation_from_query_row                                   *)
FromQueryRow(o) ==
  [snapshot |-> o.snapshot, key |-> LineageKey(o.lineage, o.trial),
   arm |-> o.arm, context |-> o.context, completion |-> o.completion,
   budget |-> o.budget, policy |-> o.policy,
   success |-> o.row.values["success"],
   metrics |-> [f \in {"score", "resource_consumption"} |-> o.row.values[f]]]

Censored(o) == CensoredAt(o.completion)

(* The rows that are offered hold JSON values, as those of a snapshot do.  *)
ASSUME OfferAssumption ==
  \A o \in CmpOffers : \A f \in Fields : JsonOK(o.row.values[f].raw)

(* value_for: success counts as one or zero; an unknown metric is missing. *)
ValueFor(o, metric) ==
  IF metric = "success"
  THEN IF o.success.state # "value" THEN o.success
       ELSE Present(<<"number", IF o.success.raw[2] THEN 1 ELSE 0>>)
  ELSE IF metric \in DOMAIN o.metrics THEN o.metrics[metric]
  ELSE Without("missing")

(***************************************************************************)
(* Pairs.  arms is the function from the arms a lineage has to their       *)
(* observations, ev the set of context pairs with compatibility evidence.  *)
(***************************************************************************)
ContextCompatible(before, after, ev) ==
  before.context = after.context \/ {before.context, after.context} \in ev

(* _comparison_status                                                      *)
ComparisonStatus(arms, t, ev) ==
  IF ~{t[1], t[2]} \subseteq DOMAIN arms THEN "unavailable_missing_arm"
  ELSE LET before == arms[t[1]]
           after == arms[t[2]]
       IN IF Censored(before) \/ Censored(after) THEN "unavailable_censored"
          ELSE IF ~ContextCompatible(before, after, ev)
          THEN "unavailable_incomparable_context"
          ELSE IF NotRecorded \in {before.budget, after.budget}
          THEN "unavailable_unrecorded_budget"
          ELSE IF BudgetIdentity(before.budget) # BudgetIdentity(after.budget)
          THEN "unavailable_incomparable_budget" ELSE "available"

(* _unavailable_delta_state: by the status, else the worst value state.    *)
UnavailableDelta(status, states) ==
  LET worst == <<"quarantined", "redacted", "unknown", "missing",
                 "not_applicable">>
      met == {i \in 1..5 : worst[i] \in states}
  IN CASE status = "unavailable_missing_arm" -> Without("missing")
       [] status = "unavailable_censored" -> Without("unknown")
       [] status = "unavailable_value_state" ->
            Without(IF met = {} THEN "unknown" ELSE worst[Min(met)])
       [] OTHER -> Without("not_applicable")

Magnitude(n) == IF n < 0 THEN -n ELSE n

(* _metric_comparison: after minus before, and relative to before unless   *)
(* that is zero.                                                           *)
MetricComparison(arms, t, metric, ev) ==
  LET value(arm) == IF arm \in DOMAIN arms THEN ValueFor(arms[arm], metric)
                    ELSE Without("missing")
      states == {value(t[1]).state, value(t[2]).state}
      comparable == ComparisonStatus(arms, t, ev)
      status == IF comparable = "available" /\ states # {"value"}
                THEN "unavailable_value_state" ELSE comparable
      before == value(t[1]).raw[2]
      delta == value(t[2]).raw[2] - before
      none == UnavailableDelta(status, states)
  IN IF status # "available"
     THEN [status |-> status, absolute |-> none, relative |-> none]
     ELSE [status |-> status, absolute |-> Present(<<"number", delta>>),
           relative |-> IF before = 0 THEN Without("not_applicable")
                        ELSE Present(<<"ratio", <<delta, Magnitude(before)>>>>)]

(* _pair_document *)
PairDocument(arms, metrics, ev) ==
  LET compared == [t \in Transitions |-> [m \in metrics |->
                     MetricComparison(arms, t, m, ev)]]
      statuses == {compared[t][m].status : t \in Transitions, m \in metrics}
  IN [transitions |-> compared,
      status |->
        IF DOMAIN arms # ComparisonArm THEN "incomplete"
        ELSE IF \E a \in ComparisonArm : Censored(arms[a]) THEN "censored"
        ELSE IF statuses \cap {"unavailable_incomparable_context",
                  "unavailable_incomparable_budget",
                  "unavailable_unrecorded_budget"} # {}
        THEN "incomparable" ELSE "complete",
      pruned |-> \E a \in DOMAIN arms : arms[a].policy # NoPolicy,
      partial |-> \E a \in DOMAIN arms : PartlyConsumed(arms[a].budget)]

(***************************************************************************)
(* The report                                                              *)
(***************************************************************************)
Mean(value) == <<SumFunction(value), Cardinality(DOMAIN value)>>

(* _confidence: from two samples on, unless it is disabled.                *)
Confidence(count, method) ==
  CASE method = "none" -> "disabled"
    [] method # "none" /\ count < 2 -> "unavailable_insufficient_sample"
    [] OTHER -> "available_provisional"

(* _aggregate_metric_summaries: over the pairs that have a delta.          *)
Aggregate(pairs, t, m, method) ==
  LET has(kind) == {k \in DOMAIN pairs :
                      pairs[k].transitions[t][m][kind].state = "value"}
      available == has("absolute")
      number == [k \in available |-> pairs[k].transitions[t][m].absolute.raw[2]]
  IN [absolute |-> Mean(number),
      available |-> available,
      relative_pairs |-> has("relative"),
      unavailable |-> Cardinality(DOMAIN pairs) - Cardinality(available),
      confidence |-> Confidence(Cardinality(available), method)]

(* _arm_statistics: over the uncensored observations of an arm.            *)
ArmStatistics(all, arm, m) ==
  LET those == {o \in all : o.arm = arm /\ ~Censored(o)}
      shown == {o \in those : ValueFor(o, m).state = "value"}
      number == [o \in shown |-> ValueFor(o, m).raw[2]]
  IN [mean |-> Mean(number), keys |-> {o.key : o \in shown},
      observations |-> Cardinality(those)]

NoReport == [error |-> "not built"]

(* build_analytics_comparison_report                                       *)
BuildReport(request, evidence) ==
  LET all == {observed[i] : i \in DOMAIN observed}
      ev == {{evidence[i].left, evidence[i].right} : i \in DOMAIN evidence}
      of(k) == {o \in all : o.key = k}
      arms(k) == [a \in {o.arm : o \in of(k)} |->
                    CHOOSE o \in of(k) : o.arm = a]
      pairs == [k \in {o.key : o \in all} |->
                  PairDocument(arms(k), request.metrics, ev)]
      method == request.confidence
  IN IF all = {} THEN [error |-> "no observation"]
     ELSE IF \E o \in all : o.snapshot # request.snapshot
     THEN [error |-> "another snapshot"]
     ELSE IF Cardinality(ev) # Len(evidence)
     THEN [error |-> "duplicate evidence"]
     ELSE IF \E i, j \in DOMAIN observed :
               /\ i # j /\ observed[i].key = observed[j].key
               /\ observed[i].arm = observed[j].arm
     THEN [error |-> "duplicate observation"]
     ELSE [error |-> "none", of |-> all, pairs |-> pairs,
           metric_summaries |-> [t \in Transitions |-> [m \in request.metrics |->
             Aggregate(pairs, t, m, method)]],
           arm_statistics |-> [a \in ComparisonArm |-> [m \in request.metrics |->
             ArmStatistics(all, a, m)]],
           status_counts |->
             [s \in {"complete", "incomplete", "censored", "incomparable"} |->
                Cardinality({k \in DOMAIN pairs : pairs[k].status = s})],
           pruned |-> Cardinality({k \in DOMAIN pairs : pairs[k].pruned}),
           partial |-> Cardinality({k \in DOMAIN pairs : pairs[k].partial})]

CmpInit == observed = <<>> /\ report = NoReport

Observe(o) ==
  /\ Len(observed) < CmpSize
  /\ ObservationOK(o)
  /\ observed' = Append(observed, FromQueryRow(o))
  /\ UNCHANGED report

EvidenceOK(e) == e.left # e.right
ComparisonRequestOK(r) ==
  r.metrics # {} /\ r.confidence \in {"none", "normal_mean_v1"}

Build(request, evidence) ==
  /\ \A i \in DOMAIN evidence : EvidenceOK(evidence[i])
  /\ ComparisonRequestOK(request)
  /\ report' = BuildReport(request, evidence)
  /\ UNCHANGED observed

CmpNext ==
  \/ \E o \in CmpOffers : Observe(o)
  \/ \E r \in CmpRequests, e \in CmpEvidence : Build(r, e)

CmpSpec == CmpInit /\ [][CmpNext]_cmpVars

(***************************************************************************)
(* Properties                                                              *)
(***************************************************************************)
(* The contract document: "missing_or_incomparable": "never coerced to     *)
(* zero or failure".  A lineage enters a mean delta only with both arms    *)
(* observed and uncensored, and a relative mean only with an absolute one; *)
(* every lineage of the report is counted once, with a status.             *)
DeltasObserved ==
  report.error = "none" =>
    /\ \A t \in Transitions : \A m \in DOMAIN report.metric_summaries[t] :
         LET summary == report.metric_summaries[t][m] IN
         /\ summary.available \subseteq report.arm_statistics[t[1]][m].keys
                                       \cap report.arm_statistics[t[2]][m].keys
         /\ summary.relative_pairs \subseteq summary.available
         /\ summary.absolute[2] + summary.unavailable
              = Cardinality(DOMAIN report.pairs)
    /\ \A k \in DOMAIN report.pairs :
         report.status_counts[report.pairs[k].status] > 0

(* The two halves of a report agree: where all that an arm shows is paired *)
(* the summed deltas of a transition are the difference of the arm sums,   *)
(* which no censored, missing or incomparable value may shift.             *)
SummariesAgree ==
  report.error = "none" =>
    \A t \in Transitions : \A m \in DOMAIN report.metric_summaries[t] :
      LET summary == report.metric_summaries[t][m]
          before == report.arm_statistics[t[1]][m]
          after == report.arm_statistics[t[2]][m]
      IN before.keys = summary.available /\ after.keys = summary.available
           => summary.absolute[1] = after.mean[1] - before.mean[1]

(* A pair reported complete hides nothing: its three transitions lack a    *)
(* delta only where a value is not observed; and when all three have one   *)
(* the recovery delta is the sum of the other two, though compatibility of *)
(* contexts is not transitive.                                             *)
CompletePairs ==
  report.error = "none" =>
    \A k \in DOMAIN report.pairs :
      LET pair == report.pairs[k] IN
      \A t \in Transitions : \A m \in DOMAIN pair.transitions[t] :
        /\ pair.status = "complete" =>
             pair.transitions[t][m].status \in
               {"available", "unavailable_value_state"}
        /\ LET delta(u) == pair.transitions[u][m].absolute
               all == {delta(u).state : u \in Transitions} IN
           all = {"value"} =>
             delta(<<"baseline", "recovery">>).raw[2]
               = delta(<<"baseline", "interrupted">>).raw[2]
                 + delta(<<"interrupted", "recovery">>).raw[2]

(* What a reader is told of the data agrees with the data: the pages of a  *)
(* cursor are one export in the contract's order, and no delta or mean     *)
(* rests on a value that was not observed.                                 *)
AnalyticsAgree ==
  /\ PagesAreExport /\ SelectionOrdered /\ CursorStaysUsable
  /\ SummariesAgree /\ DeltasObserved /\ CompletePairs

=============================================================================
