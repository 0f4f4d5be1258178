----------------------------- MODULE ResultView -----------------------------
(***************************************************************************)
(* The end of a search and the view of its result.  The executor collects  *)
(* routes and candidates in the order in which its workers deliver them,   *)
(* picks the best route, ranks all of them and certifies its coverage; the *)
(* worker commits the best route and the report; job.result recomputes     *)
(* every claim of the report before it shows anything.                     *)
(***************************************************************************)
EXTENDS Integers, Sequences, FiniteSets, FiniteSetsExt, SequencesExt

CONSTANTS
  RouteChoices,    \* [id, success, score, peak, actions, events, board]; events -1: no evidence
  PreferenceRules, \* rule lists of a terminal preference profile
  MaxRoutes, MaxCandidates  \* bounds

VARIABLES
  rvRules, rvMode,  \* the profile of the experiment; execution mode
  rvRoutes,         \* routes in order of arrival
  rvCounts,         \* candidates per status
  rvReport,         \* the committed report, an optional record
  rvOutcome         \* what job.result answered

rvVars == <<rvRules, rvMode, rvRoutes, rvCounts, rvReport, rvOutcome>>

Statuses == {"censored", "explored", "failed", "pruned", "unexplored"}
Reasons == {"goal_reached", "max_nodes", "exhausted"}

-----------------------------------------------------------------------------
(* evaluate_terminal_preferences.                                          *)

\* _matches: a public card with the rule's code in the rule's place.
Matching(rule, board) ==
  {c \in board : /\ c.public /\ c.code = rule.code /\ c.location = rule.location
                 /\ rule.position = "ANY" \/ c.position = rule.position}

\* _applied_value: nothing below min_count, no more than max_count copies.
AppliedValue(rule, count) ==
  LET counted == IF rule.max >= 0 /\ count > rule.max THEN rule.max ELSE count
  IN  IF ~rule.enabled \/ count < rule.min THEN 0
      ELSE IF rule.mode = "PER_COPY" THEN rule.weight * counted ELSE rule.weight

\* The components and the composite; no evaluation for an empty profile.
Preference(rules, route) ==
  IF rules = <<>> THEN <<>>
  ELSE LET applied == [i \in DOMAIN rules |-> AppliedValue(rules[i], Cardinality(Matching(rules[i], route.board)))]
       IN  <<[components |-> applied,
              composite |-> route.score + MapThenSumSet(LAMBDA i : applied[i], DOMAIN rules)]>>
TerminalScore(rules, route) ==
  IF rules = <<>> THEN route.score ELSE Preference(rules, route)[1].composite

-----------------------------------------------------------------------------
(* Randomness and ranking.                                                 *)

Sign(b) == IF b THEN -1 ELSE 0
Lex(a, b) == \E i \in DOMAIN a : a[i] < b[i] /\ \A j \in 1..i - 1 : a[j] = b[j]

\* build_route_randomness_summary; a route without evidence is unknown.
Reliability(events) == IF events = 0 THEN 0 ELSE IF events > 0 THEN 1 ELSE 2
EventRank(events) == IF events < 0 THEN 99 ELSE events

RankKey(rules, r) ==
  <<Sign(r.success), -r.peak, -TerminalScore(rules, r), r.actions, r.id>>
RankingTuple(rules, r) ==
  <<Sign(r.success), -TerminalScore(rules, r), Reliability(r.events), EventRank(r.events),
    -r.peak, r.actions, r.id>>

\* The first summary of each route id.
UniqueRoutes(routes) ==
  LET first == {i \in DOMAIN routes : \A j \in 1..i - 1 : routes[j].id # routes[i].id}
      pick[i \in 0..Len(routes)] ==
        IF i = 0 THEN <<>> ELSE IF i \in first THEN Append(pick[i - 1], routes[i]) ELSE pick[i - 1]
  IN  pick[Len(routes)]

Ordered(routes, rules) == SortSeq(routes, LAMBDA a, b : Lex(RankKey(rules, a), RankKey(rules, b)))
Ranking(routes, rules) ==
  SortSeq(UniqueRoutes(routes), LAMBDA a, b : Lex(RankingTuple(rules, a), RankingTuple(rules, b)))

-----------------------------------------------------------------------------
\* _build_coverage_certificate.
FrontierExhausted(reason, mode, counts) ==
  /\ reason = "exhausted" /\ mode \in {"depth_first", "beam"}
  /\ counts["unexplored"] = 0 /\ counts["censored"] = 0 /\ counts["pruned"] = 0
Coverage(reason, mode, counts) ==
  [exhausted |-> FrontierExhausted(reason, mode, counts), reason |-> reason, counts |-> counts,
   pending |-> counts["unexplored"], unknown |-> 0, accounted |-> TRUE]

\* SearchExecutor._result, and the commit of its best route.
Report(routes, rules, mode, counts, reason) ==
  LET ordered == Ordered(routes, rules)
  IN  [best |-> ordered[1], routes |-> ordered, ranking |-> Ranking(ordered, rules),
       preference |-> Preference(rules, ordered[1]), terminal |-> TerminalScore(rules, ordered[1]),
       coverage |-> Coverage(reason, mode, counts), counts |-> counts, committed |-> ordered[1]]

\* _validate_coverage_certificate.
CoverageValid(c) ==
  /\ c.pending = c.counts["unexplored"]
  /\ c.exhausted =>
       /\ c.accounted /\ c.reason = "frontier_exhausted"
       /\ c.pending + c.unknown + c.counts["unexplored"] + c.counts["censored"] + c.counts["pruned"] = 0

\* The checks of job.result in their order; the first that fails is reported.
BestRankedInSuccess(report) == report.ranking[1].success = report.committed.success
BestRanked(report) == report.ranking[1].id = report.committed.id
JobResult(report, rules) ==
  IF report.best.id # report.committed.id THEN "best_route"
  ELSE IF ~BestRanked(report) THEN "ranking_summary"
  ELSE IF report.ranking # Ranking(report.routes, rules) THEN "ranking"
  ELSE IF report.preference # Preference(rules, report.committed)
            \/ (rules # <<>> /\ report.terminal # report.preference[1].composite)
  THEN "preference"
  ELSE IF ~CoverageValid(report.coverage) THEN "coverage"
  ELSE IF report.coverage.counts # report.counts THEN "counts" ELSE "shown"

-----------------------------------------------------------------------------
RvInit ==
  /\ rvRules \in PreferenceRules /\ rvMode \in {"depth_first", "mcts"}
  /\ rvRoutes = <<>> /\ rvCounts = [s \in Statuses |-> 0]
  /\ rvReport = <<>> /\ rvOutcome = ""

AcceptRoute ==
  /\ rvReport = <<>> /\ Len(rvRoutes) < MaxRoutes
  /\ \E r \in RouteChoices : rvRoutes' = Append(rvRoutes, r)
  /\ UNCHANGED <<rvRules, rvMode, rvCounts, rvReport, rvOutcome>>

SettleCandidate ==
  /\ rvReport = <<>> /\ MapThenSumSet(LAMBDA s : rvCounts[s], Statuses) < MaxCandidates
  /\ \E s \in Statuses : rvCounts' = [rvCounts EXCEPT ![s] = @ + 1]
  /\ UNCHANGED <<rvRules, rvMode, rvRoutes, rvReport, rvOutcome>>

\* A search without a route commits no result.
FinishSearch ==
  /\ rvReport = <<>> /\ rvRoutes # <<>>
  /\ \E reason \in Reasons :
       rvReport' = <<Report(rvRoutes, rvRules, rvMode, rvCounts, reason)>>
  /\ UNCHANGED <<rvRules, rvMode, rvRoutes, rvCounts, rvOutcome>>

OpenResult ==
  /\ rvReport # <<>> /\ rvOutcome = ""
  /\ rvOutcome' = JobResult(rvReport[1], rvRules)
  /\ UNCHANGED <<rvRules, rvMode, rvRoutes, rvCounts, rvReport>>

RvNext == AcceptRoute \/ SettleCandidate \/ FinishSearch \/ OpenResult

-----------------------------------------------------------------------------
\* The ranking does not depend on the order in which the workers delivered
\* the routes, nor on a route being delivered twice.
RankingStable ==
  rvReport = <<>> =>
    /\ Ranking(rvRoutes, rvRules) = Ranking(Reverse(rvRoutes), rvRules)
    /\ Ranking(rvRoutes \o rvRoutes, rvRules) = Ranking(rvRoutes, rvRules)

\* A result is shown only with a committed route that no route found betters:
\* not in success and, among routes of its success, neither in peak score,
\* nor in terminal score with the user's preferences, nor, at that terminal
\* score, in the evidence of its randomness.
Found == Range(rvRoutes)
BetterEvidence(r, b) ==
  \/ Reliability(r.events) < Reliability(b.events)
  \/ Reliability(r.events) = Reliability(b.events) /\ EventRank(r.events) < EventRank(b.events)
Outranks(r, b) ==
  LET gain == TerminalScore(rvRules, r) - TerminalScore(rvRules, b)
  IN  r.success = b.success /\ (gain > 0 \/ (gain = 0 /\ BetterEvidence(r, b)))
ShownIsBest ==
  rvOutcome = "shown" =>
    LET b == rvReport[1].committed
    IN  b \in Found /\ \A r \in Found : /\ r.success => b.success
                                        /\ r.success = b.success => r.peak <= b.peak
                                        /\ ~Outranks(r, b)

\* A committed report is refused for two causes only.  The executor commits
\* by peak score where the ranking goes by terminal score and evidence, so
\* that the best of one need not be the best of the other, although
\* docs/spec/v0.7.0/00_scope.md:17 asks for their agreement; and no
\* certificate of an exhausted search is valid (ExhaustedOpens).
RefusedForCause ==
  rvOutcome \notin {"", "shown"} =>
    LET report == rvReport[1]
    IN  IF rvOutcome = "coverage" THEN report.coverage.exhausted
        ELSE /\ rvOutcome = "ranking_summary"
             /\ \E r \in Found : Outranks(r, report.committed)

\* The result of a search that exhausted its frontier can be opened.
ExhaustedOpens == rvReport # <<>> /\ rvOutcome # "" => rvOutcome # "coverage"

\* Whatever routes the workers deliver and in whatever order: the ranking is a
\* function of the routes found, job.result shows only a best route, and it
\* refuses a report it could show for two known causes only.
ResultsOpen == RankingStable /\ ShownIsBest /\ RefusedForCause

=============================================================================
