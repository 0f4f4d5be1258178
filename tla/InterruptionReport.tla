------------------------- MODULE InterruptionReport -------------------------
(***************************************************************************)
(* What is reported about an interrupted Route:                            *)
(* engine/interruption/comparison.py compares it with the Route it forks   *)
(* from, engine/interruption/target.py finds the interrupted occurrence    *)
(* again, and engine/interruption/attribution.py attributes a recovery to  *)
(* cards added to the opening hand.                                        *)
(*                                                                         *)
(* A Route is a sequence of events [action, before, after] over exact      *)
(* State identities; steps count from 1.  Of the metrics the score of the  *)
(* compared boards is kept; the others are subtracted the same way.        *)
(***************************************************************************)
EXTENDS Integers, Sequences, FiniteSets

CONSTANTS
  RouteStates,   \* exact State identities
  MaxEvents,     \* bound: events of a Route
  Versions,      \* attribution versions: "v1", "v2"
  BaselineHand,  \* the fixed hand of the baseline pair, a sequence of codes
  TrialHands,    \* the fixed hands of the treatment pairs
  MaxTrials      \* bound: treatment trials of one report

(* Hands are sequences, and no attribution has the version "none".         *)
ASSUME HandsAssumption ==
  /\ \A hand \in TrialHands \cup {BaselineHand} :
       hand \in Seq({hand[i] : i \in DOMAIN hand})
  /\ "none" \notin Versions
  /\ MaxEvents \in Nat

VARIABLES
  pair,     \* the two Routes of a comparison
  comparison,\* its report
  version,  \* the version of the attribution under way
  trials,   \* the treatment trials given to it
  report    \* its report

irVars == <<pair, comparison, version, trials, report>>

(***************************************************************************)
(* Targets: an occurrence is its action and its coordinates.               *)
(***************************************************************************)
Occurrence(events, step) ==
  <<events[step].action, step, events[step].before>>

(* resolve_interruption_target: the one event with this identity, or <<>>. *)
ResolveTarget(events, target) ==
  LET found == {i \in 1..Len(events) : Occurrence(events, i) = target}
  IN IF Cardinality(found) = 1 THEN <<CHOOSE i \in found : TRUE>> ELSE <<>>

(***************************************************************************)
(* Comparison of a base Route and the Route that forks from it.            *)
(***************************************************************************)
(* build_interruption_comparison: the conditions under which it compares.  *)
Comparable(p) ==
  /\ p.fork <= Len(p.base) /\ p.fork <= Len(p.child)
  /\ \A i \in 1..(p.fork - 1) : p.base[i] = p.child[i]
  /\ p.base[p.fork].before = p.child[p.fork].before
  /\ ResolveTarget(p.base, p.target) = <<p.fork>>

After(events, from) == {events[i].after : i \in from..Len(events)}

MinOf(S) == CHOOSE x \in S : \A y \in S : x <= y

(* _recovery_report: the first State of the child on the base Route, the   *)
(* first place it has there, and whether the child reaches the board.      *)
ReachedUntilRejoin(p, board) ==
  \E i \in p.fork..Len(p.child) :
    /\ p.child[i].after = board
    /\ \A k \in p.fork..(i - 1) : p.child[k].after \notin After(p.base, p.fork)

BoardReached(p, board) == board \in After(p.child, p.fork)

Rejoin(p) ==
  LET steps == {i \in p.fork..Len(p.child) :
                  p.child[i].after \in After(p.base, p.fork)}
      step == MinOf(steps)
      same == {k \in p.fork..Len(p.base) : p.base[k].after = p.child[step].after}
  IN IF steps = {} THEN <<>> ELSE <<[child |-> step, base |-> MinOf(same)]>>

(* goal: <<>> when the success predicates of the Routes differ.            *)
RecoveryStatus(p) ==
  IF BoardReached(p, p.base[p.board].after) THEN "original_target_reached"
  ELSE IF Rejoin(p) # <<>> THEN "original_route_rejoined"
  ELSE CASE p.goal = <<TRUE>> -> "goal_only"
         [] p.goal = <<>> -> "goal_incomparable"
         [] OTHER -> "not_recovered"

(* The same State under the same evaluator context has one score: another  *)
(* one is a stale or altered evaluation, and the pair is refused.          *)
BoardState(p) == p.child[p.reached].after
ScoresAgree(p) ==
  (p.evaluator /\ BoardState(p) = p.base[p.board].after)
    => p.scores[1] = p.scores[2]

(* _numeric_metric: no difference is taken across evaluator contexts.      *)
ScoreDelta(p) == IF p.evaluator THEN <<p.scores[2] - p.scores[1]>> ELSE <<>>

Comparison(p) ==
  IF Comparable(p) /\ ScoresAgree(p)
  THEN <<[status |-> RecoveryStatus(p), rejoin |-> Rejoin(p),
          delta |-> ScoreDelta(p)]>>
  ELSE <<>>

(***************************************************************************)
(* Attribution.                                                            *)
(***************************************************************************)
Added(hand) == SubSeq(hand, Len(BaselineHand) + 1, Len(hand))
Extends(hand) ==
  Len(hand) > Len(BaselineHand)
  /\ SubSeq(hand, 1, Len(BaselineHand)) = BaselineHand

Occurs(code, hand) == Cardinality({i \in 1..Len(hand) : hand[i] = code})

(* _candidate_instances: v1 refuses a code it cannot tell apart.           *)
Distinguishable(hand) ==
  \A i \in 1..Len(Added(hand)) : Occurs(Added(hand)[i], hand) = 1
(* The identities of the added cards: v1 digests the code, v2 takes the    *)
(* persistent instance of the core, which is given in creation order.      *)
Instances(v, hand) ==
  IF v = "v1" THEN {<<Added(hand)[i]>> : i \in 1..Len(Added(hand))}
  ELSE {<<Added(hand)[i], i>> : i \in 1..Len(Added(hand))}

Acceptable(v, hand) == Extends(hand) /\ (v = "v1" => Distinguishable(hand))

(* evaluated: the baseline under the empty set, each trial under its set.  *)
Evaluated(ts) == {[set |-> {}, control |-> ts.baseline.control,
                   interrupted |-> ts.baseline.interrupted]} \cup ts.runs
EvaluatedSets(ts) == {t.set : t \in Evaluated(ts)}
Succeeds(ts, s) == \E t \in Evaluated(ts) : t.set = s /\ t.interrupted

Successful(ts) ==
  {t.set : t \in {r \in ts.runs : r.control /\ r.interrupted}}

ProperSubsets(s) == (SUBSET s) \ {s}

(* _classify_minimal_sets.                                                 *)
Covered(ts, s) == ProperSubsets(s) \subseteq EvaluatedSets(ts)

Minimal(ts) ==
  {s \in Successful(ts) :
     Covered(ts, s) /\ \A q \in ProperSubsets(s) : ~Succeeds(ts, q)}
Incomplete(ts) == {s \in Successful(ts) : ~Covered(ts, s)}

Attribution(ts) ==
  [minimal |-> Minimal(ts), missing |-> Incomplete(ts),
   status |-> IF Minimal(ts) # {} THEN "verified_minimal_required_sets"
              ELSE IF Incomplete(ts) # {} THEN "insufficient_subset_coverage"
              ELSE "no_recovery_set_observed"]

(***************************************************************************)
(* Behaviour.                                                              *)
(***************************************************************************)
Idle == [base |-> <<>>, child |-> <<>>, fork |-> 1, board |-> 1,
         reached |-> 1, goal |-> <<>>, target |-> <<>>, evaluator |-> FALSE,
         scores |-> <<0, 0>>]
NoTrials == [baseline |-> [control |-> FALSE, interrupted |-> FALSE], runs |-> {}]

IrInit ==
  /\ pair = Idle /\ comparison = <<>>
  /\ version = "none" /\ trials = NoTrials /\ report = Attribution(NoTrials)

(* A Route through the given States; the action of an event is named after *)
(* the State it leads to and the Route it is on.                           *)
Route(states, from, name) ==
  [i \in 1..Len(states) |->
     [action |-> <<name, states[i]>>, after |-> states[i],
      before |-> IF i = 1 THEN from ELSE states[i - 1]]]

Paths == UNION {[1..n -> RouteStates] : n \in 1..MaxEvents}

(* build_interruption_comparison on a child that shares some events with   *)
(* the base Route; an error leaves no report.  The two reports are         *)
(* independent: a behaviour builds one or the other.                       *)
Compare ==
  /\ pair = Idle /\ version = "none"
  /\ \E bs, cs \in Paths, goal \in {<<>>, <<TRUE>>, <<FALSE>>}, same \in BOOLEAN,
        scores \in {<<0, 0>>, <<0, 1>>} :
     \E fork, board, at \in 1..Len(bs), shared \in 0..(Len(bs) - 1) :
       LET base == Route(bs, 0, "base")
           child == SubSeq(base, 1, shared)
                    \o Route(cs, IF shared = 0 THEN 0 ELSE bs[shared], "child")
       IN \E reached \in 1..Len(child) :
            LET p == [base |-> base, child |-> child, fork |-> fork,
                      board |-> board, reached |-> reached, goal |-> goal,
                      target |-> Occurrence(base, at), evaluator |-> same,
                      scores |-> scores]
            IN pair' = p /\ comparison' = Comparison(p)
  /\ UNCHANGED <<version, trials, report>>

(* build_additional_card_attribution (v1, v2) on its baseline pair.        *)
StartAttribution ==
  /\ pair = Idle /\ version = "none"
  /\ version' \in Versions
  /\ \E c, i \in BOOLEAN :
       trials' = [trials EXCEPT !.baseline = [control |-> c, interrupted |-> i]]
  /\ report' = Attribution(trials')
  /\ UNCHANGED <<pair, comparison>>

(* One more pair of Routes for the attribution; a hand that does not       *)
(* extend the baseline, an indistinguishable card or a set evaluated twice *)
(* refuses the whole report, which then stays as it was.                   *)
AddTrial ==
  /\ version # "none" /\ Cardinality(trials.runs) < MaxTrials
  /\ \E hand \in TrialHands, c, i \in BOOLEAN :
       LET run == [set |-> Instances(version, hand), control |-> c,
                   interrupted |-> i, cards |-> Len(Added(hand))]
       IN /\ Acceptable(version, hand)
          /\ run.set \notin EvaluatedSets(trials)
          /\ trials' = [trials EXCEPT !.runs = @ \cup {run}]
          /\ report' = Attribution(trials')
  /\ UNCHANGED <<pair, comparison, version>>

IrNext == Compare \/ StartAttribution \/ AddTrial

IrSpec == IrInit /\ [][IrNext]_irVars

(***************************************************************************)
(* Properties.                                                             *)
(***************************************************************************)
(* A child that rejoins the base Route before the compared board and then  *)
(* goes the way the base Route went is reported to reach that board.       *)
RejoinLeadsToBoard ==
  \A c \in {comparison[i] : i \in 1..Len(comparison)} :
    \A r \in {c.rejoin[i] : i \in 1..Len(c.rejoin)} :
      LET rest == pair.board - r.base
      IN (/\ rest >= 0 /\ Len(pair.child) >= r.child + rest
          /\ \A k \in 0..rest : pair.child[r.child + k].after
                                  = pair.base[r.base + k].after)
         => c.status = "original_target_reached"

(* A reported score difference is a difference between boards: a child     *)
(* that ends on the very board of the base Route shows no gain or loss.    *)
SameBoardNoDelta ==
  \A c \in {comparison[i] : i \in 1..Len(comparison)} :
    BoardState(pair) = pair.base[pair.board].after => c.delta \in {<<>>, <<0>>}

(* Every evaluated candidate set has one identity for each added card: two *)
(* copies of a card are never merged into one candidate.                   *)
CandidatesDistinct ==
  \A t \in trials.runs : Cardinality(t.set) = t.cards

(* A minimal required set is never withdrawn when further trials come in.  *)
MinimalKept == report.minimal \subseteq report'.minimal

(* A report of interrupted routes contradicts neither the routes nor an    *)
(* earlier report: boards and scores agree, candidates are told apart, and *)
(* further trials withdraw no minimal set.                                 *)
ReportConsistent ==
  [][/\ RejoinLeadsToBoard'
     /\ SameBoardNoDelta'
     /\ CandidatesDistinct'
     /\ MinimalKept]_irVars

=============================================================================
