---------------------------- MODULE MCDesktopData ----------------------------
(***************************************************************************)
(* The desktop services and the data they keep: parts that share no state  *)
(* with one another are explored each on its own, those of Parts; part     *)
(* says which of them a behaviour runs.                                    *)
(***************************************************************************)
EXTENDS DesktopData, ResultView, TLC

CONSTANTS Parts, r1, r2, rowA, rowB, rowC

VARIABLE part
mcVars == <<part, dsVars, shVars, rvVars, snVars, qVars, cmpVars, ccVars>>

(* Two decks, two contents of a profile.                                   *)
McDeckCards == [d \in DeckIds |-> IF d = "d1" THEN {1, 2} ELSE {1}]
McContentCards == [x \in Contents |-> IF x = "c1" THEN {1} ELSE {2}]

(* Routes with ties in score and peak, and boards with two copies of a card. *)
Card(code, l, p, pub) == [code |-> code, location |-> l, position |-> p, public |-> pub]
Rt(id, s, sc, pk, ac, ev, bd) == [id |-> id, success |-> s, score |-> sc, peak |-> pk,
                                  actions |-> ac, events |-> ev, board |-> bd]
B1 == {Card(7, "MZ", "ATK", TRUE)}
B2 == {Card(7, "MZ", "ATK", TRUE), Card(7, "MZ", "DEF", TRUE), Card(8, "SZ", "SET", FALSE)}
McRoutes == {Rt(1, TRUE, 2, 4, 2, 0, B1), Rt(2, TRUE, 3, 3, 2, 1, B2), Rt(3, TRUE, 2, 4, 2, 0, B1),
             Rt(4, TRUE, 3, 4, 1, -1, {}), Rt(5, FALSE, 9, 9, 1, 0, B2)}
Rule(code, pos, min, max, mode, w, e) ==
  [code |-> code, location |-> "MZ", position |-> pos, min |-> min, max |-> max,
   mode |-> mode, weight |-> w, enabled |-> e]
McRules == {<<>>, <<Rule(7, "ANY", 1, -1, "PER_COPY", 2, TRUE)>>,
            <<Rule(7, "ANY", 1, 1, "ONCE", -3, TRUE), Rule(7, "DEF", 1, 1, "PER_COPY", 5, FALSE)>>}

(* A small dataset: two runs, one of which is published twice with         *)
(* different metrics for one of its records.                               *)
McSnapshotBatches == {[run |-> r1, rows |-> (rowA :> "low" @@ rowC :> "low")],
                      [run |-> r1, rows |-> (rowA :> "high")],
                      [run |-> r2, rows |-> (rowB :> "low")]}
McProcs == Permutations(Procs)

(* Rows with every kind of value, sources that are refused, requests with  *)
(* every operator and malformed ones.                                      *)
Num(n) == <<"number", n>>
Str(n) == <<"string", n>>
Date(n) == <<"date", n>>
Yes(b) == <<"boolean", b>>
ListOf(s) == <<"list", s>>
McRecord(score, cost, ok) ==
  [run |-> Str(1), success |-> Yes(ok), score |-> Num(score),
   time |-> Date(score), resource_consumption |-> cost]
McSource(i, score, cost, dims) ==
  [id |-> i, record |-> McRecord(score, cost, score > 1), dimensions |-> dims]
McNull == <<"null", 0>>
S1 == McSource(1, 2, Num(1), [card |-> ListOf(<<1>>), deck |-> Str(0)])
S2 == McSource(2, 1, McNull, [card |-> ListOf(<<1, 2>>)])
S3 == McSource(3, 2, Num(2), [card |-> ListOf(<<>>), deck |-> Str(3)])
S4 == McSource(4, 3, McNull, [card |-> ListOf(<<2>>),
                              deck |-> <<"state", "redacted">>])
S5 == McSource(5, 1, Num(1), [card |-> ListOf(<<1>>)])
McSources == {{S1, S2, S3}, {S1, S2, S4}, {S1, S2, S3, S4, S5},
              {S1, [S2 EXCEPT !.id = 1]},
              {[S1 EXCEPT !.dimensions = [score |-> Num(9)]]},
              {[S1 EXCEPT !.dimensions = [card |-> ListOf(<<1, 1>>)]]}}
McF(f, o, v) == [field |-> f, operator |-> o, value |-> v]
McSort(f, d) == [field |-> f, direction |-> d]
McReq(fs, s, l) ==
  [fields |-> <<"run", "card">>, filters |-> fs, sort |-> s, limit |-> l]
McQueries ==
  {McReq(<<>>, <<McSort("deck", "asc"), McSort("score", "desc")>>, 1),
   McReq(<<McF("card", "contains_any", <<Str(1), Str(3)>>),
           McF("score", "gte", <<Num(1)>>)>>,
         <<McSort("resource_consumption", "asc")>>, 2),
   McReq(<<McF("score", "between", <<Num(1), Num(2)>>),
           McF("success", "eq", <<Yes(TRUE)>>), McF("score", "lte", <<Num(2)>>)>>,
         <<McSort("success", "asc"), McSort("time", "desc")>>, 1),
   McReq(<<McF("deck", "state_is", <<<<"state", "redacted">>>>),
           McF("card", "contains_all", <<Str(2)>>), McF("score", "in", <<Num(3)>>)>>,
         <<>>, 1)}
McRefusedQueries ==
  {McReq(<<>>, <<McSort("card", "asc")>>, 1), McReq(<<>>, <<>>, 0),
   McReq(<<McF("score", "between", <<Num(2), Num(1)>>)>>, <<>>, 1),
   McReq(<<McF("run", "gte", <<Str(1)>>)>>, <<>>, 1),
   McReq(<<McF("score", "eq", <<Str(1)>>)>>, <<>>, 1)}
McRequests == McQueries \cup McRefusedQueries

(* Arms of two lineages: comparable, censored, unpaired, without budget,   *)
(* of other contexts; and arguments no observation is made of.             *)
McLineage(n) ==
  [status |-> "validated", baseline |-> n, interrupted |-> n + 10,
   divergence |-> n, divergence_id |-> n, recovery |-> <<n + 20>>,
   recovery_action_count |-> 1, lineage_id |-> <<n, n, n + 10, <<n + 20>>>>]
McBudget(n) == [unit |-> "nodes", planned |-> n, consumed |-> 1]
McOffer(n, arm, score, cost, context, completion, budget) ==
  [row |-> FromAggregation(McSource(n, score, cost, [card |-> ListOf(<<1>>)])),
   snapshot |-> "s1", lineage |-> McLineage(n), trial |-> 1, arm |-> arm,
   semantic |-> SemanticIdFor(McLineage(n), arm), context |-> context,
   completion |-> completion, budget |-> budget,
   policy |-> IF completion = "pruned" THEN "p1" ELSE NoPolicy]
McArm(n, arm, score) ==
  McOffer(n, arm, score, Num(score), "c1", "complete", McBudget(1))
McOffers ==
  {McArm(1, a, 3) : a \in ComparisonArm}
    \cup {McArm(1, "interrupted", 0), McArm(2, "baseline", 1), McArm(2, "recovery", 4)}
    \cup {McOffer(1, "recovery", 2, McNull, "c2", "frontier_exhausted", McBudget(1)),
          McOffer(1, "baseline", 5, Num(0), "c3", "complete", McBudget(1)),
          McOffer(1, "interrupted", 5, Num(1), "c1", "pruned", McBudget(2)),
          McOffer(2, "baseline", 7, Num(1), "c2", "timeout", McBudget(1)),
          McOffer(2, "interrupted", 2, Num(1), "c1", "complete", NotRecorded),
          McOffer(1, "recovery", 6, Num(1), "c1", "complete", McBudget(2))}
    \cup {[McArm(1, "baseline", 3) EXCEPT !.semantic = <<9>>],
          [McArm(1, "recovery", 3) EXCEPT !.lineage.recovery_action_count = 2],
          [McOffer(1, "interrupted", 5, Num(1), "c1", "pruned", McBudget(2))
             EXCEPT !.policy = NoPolicy],
          [McArm(1, "baseline", 3) EXCEPT !.budget.consumed = 2],
          [McArm(2, "baseline", 1) EXCEPT !.snapshot = "s2"]}
McComparisons ==
  {[snapshot |-> "s1", metrics |-> {"success", "resource_consumption"},
    confidence |-> "normal_mean_v1"],
   [snapshot |-> "s1", metrics |-> {"score"}, confidence |-> "none"]}
McBoth == <<[left |-> "c1", right |-> "c2"], [left |-> "c3", right |-> "c2"]>>
McEvidence == {<<>>, McBoth, Append(McBoth, [left |-> "c2", right |-> "c1"])}
McItems == {<<1, 1>>, <<2, 1>>}

(* The parts a behaviour does not run stay in one initial state.           *)
Init ==
  /\ part \in Parts
  /\ DsInit /\ ShInit /\ RvInit /\ SnInit /\ QInit /\ CmpInit /\ CcInit
  /\ part # "result" => rvRules = <<>> /\ rvMode = "mcts"

Next ==
  /\ UNCHANGED part
  /\ part # "service" => UNCHANGED dsVars
  /\ part # "shell" => UNCHANGED shVars
  /\ part # "result" => UNCHANGED rvVars
  /\ part # "snapshot" => UNCHANGED snVars
  /\ part # "query" => UNCHANGED qVars
  /\ part # "comparison" => UNCHANGED cmpVars
  /\ part # "corpus" => UNCHANGED ccVars
  /\ \/ part = "service" /\ DsNext
     \/ part = "shell" /\ ShNext
     \/ part = "result" /\ RvNext
     \/ part = "snapshot" /\ SnNext
     \/ part = "query" /\ QNext
     \/ part = "comparison" /\ CmpNext
     \/ part = "corpus" /\ CcNext

Spec == Init /\ [][Next]_mcVars

=============================================================================
