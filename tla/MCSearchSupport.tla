--------------------------- MODULE MCSearchSupport ---------------------------
(* The parts around the search that share no state with one another, each   *)
(* explored on its own: part says which of them a behaviour runs.           *)
EXTENDS ParallelPlan, PrefixCache, SearchGuards,
        InterruptionFrontier, InterruptionReport, PlayerView, TLC

VARIABLE part
mcVars == <<part, fwVars, ppPlan, pcVars, smVars, ifVars, irVars, pvVars, prVars>>

MCSubmissions ==
  LET c(i, n, w) == [id |-> i, node |-> n, work |-> w]
  IN {<<c(2, 1, 1), c(1, 1, 1), c(3, 2, 2)>>,
      <<c(1, 1, 2), c(2, 2, 1), c(3, 3, 3)>>,
      <<c(1, 1, 1), c(2, 2, 1)>>}  \* one work key, two nodes: rejected

McPools == <<2, 1>>  \* two threads, then one

MCEntries == {[key |-> k, manifest |-> (k % 2) + 1, observed |-> o,
               size |-> IF k = 3 THEN 3 ELSE 1 + (o % 2)] :
                k \in 1..3, o \in 1..2}
MCPolicies ==
  {[max_entries |-> 2, max_bytes |-> 4, max_entry_bytes |-> 3,
    flush_every |-> 2],
   [max_entries |-> 3, max_bytes |-> 3, max_entry_bytes |-> 2,
    flush_every |-> 1]}

NoBudget == [depth |-> Unlimited, nodes |-> Unlimited, replays |-> Unlimited,
             target |-> Unlimited, repeats |-> Unlimited,
             stagnation |-> Unlimited, on_success |-> FALSE, timed |-> FALSE]
MCBudgets ==
  {[NoBudget EXCEPT !.nodes = 2, !.replays = 2, !.repeats = 2],
   [NoBudget EXCEPT !.replays = 3, !.stagnation = 2, !.depth = 1],
   [NoBudget EXCEPT !.target = 1, !.stagnation = 1, !.timed = TRUE],
   [NoBudget EXCEPT !.on_success = TRUE, !.repeats = 3]}

(* Interruptions: two definitions that may overlap, and what the core offers. *)
Ref(c, l, s) == [code |-> c, player |-> 1, loc |-> l, seq |-> s]
Cd(c, l, s, e) == [ref |-> Ref(c, l, s), effect |-> e]
Veiler == Cd(1, 2, 0, 0)  Veiler2 == Cd(1, 2, 1, 0)
Trap == Cd(2, 8, 0, 0)  Trap2 == Cd(2, 8, 1, 1)
Grave == Cd(3, 16, 0, 0)
W(cs) == [cands |-> cs, forced |-> FALSE, markers |-> {}]
McChain == {W({}), W({Veiler, Trap}), W({Veiler, Veiler2}), W({Trap, Trap2}),
            W({Veiler, Grave}), [W({Veiler}) EXCEPT !.forced = TRUE],
            [W({Veiler}) EXCEPT !.markers = {"damage_step"}]}
McIdle == {{Trap}, {Grave}}
McAsks == 1 :> <<[type |-> "select_card", role |-> "target", cands |-> {Trap}]>>
          @@ 2 :> <<[type |-> "select_card", role |-> "cost", cands |-> {Veiler}],
                    [type |-> "select_option", role |-> "option", cands |-> {Cd(9, 2, 0, 1), Cd(9, 2, 0, 2)}]>>
          @@ 3 :> <<>>
D(id, pr, mx, c, z, l, s) ==
  [id |-> id, priority |-> pr, max |-> mx, code |-> c, player |-> 1,
   zone |-> z, loc |-> l, seq |-> s,
   roles |-> IF c = 1 THEN <<"target">> ELSE <<"cost", "option">>,
   verified |-> {"standard"}]
McInterruptions ==
  {<<D("a", <<>>, 1, 1, "hand", <<>>, <<>>)>>,
   <<D("a", <<1>>, 2, 1, "hand", <<>>, <<>>), D("b", <<0>>, 1, 2, "field", <<8>>, <<>>)>>,
   <<D("a", <<0>>, 1, 1, "hand", <<>>, <<0>>), D("b", <<1>>, 1, 1, "hand", <<>>, <<1>>)>>,
   <<D("a", <<0>>, 1, 1, "hand", <<>>, <<>>), D("b", <<1>>, 1, 1, "hand", <<>>, <<1>>)>>,
   <<D("a", <<0>>, 1, 2, "field", <<8>>, <<1>>), D("b", <<0>>, 1, 1, "hand", <<>>, <<>>)>>}

McBase == <<"x">>
McHands == {<<"x", "a">>, <<"x", "b">>, <<"x", "a", "b">>, <<"x", "a", "a">>,
            <<"x", "x">>}

(* Three cards, two of the viewer; the second world exchanges hidden codes. *)
At(c, l, u) == [ctrl |-> c, loc |-> l, up |-> u, public |-> u, flag |-> FALSE]
McViewCards == 1..3
McRealCode == [c \in McViewCards |-> IF c = 3 THEN 30 ELSE 20]
McLayout == <<At(0, "deck", FALSE), At(0, "hand", FALSE), At(1, "hand", FALSE)>>
McOtherCodes == {[McRealCode EXCEPT ![1] = 30]}
McWeights == {<<1>>, <<1, 2>>, <<2, 1, 3>>, <<1, 1, 1, 2>>}

(* Samples of three actions in up to four units, scores 0 to 1; the radius  *)
(* is Hoeffding's for a confidence delta of 1, on a scale of 144.          *)
Samples(units, scores) ==
  [k \in DOMAIN units |-> [unit |-> units[k], score |-> scores[k]]]
Ev(units, scores) == [data |-> "current", known |-> TRUE, samples |-> Samples(units, scores)]
EvNone == Ev(<<>>, <<>>)
McEvidence ==
  {EvNone, Ev(<<1, 1, 1>>, <<1, 1, 1>>), Ev(<<1, 2>>, <<0, 0>>),
   Ev(<<1, 2, 3>>, <<0, 0, 0>>), Ev(<<1, 2, 3, 4>>, <<1, 1, 1, 1>>),
   Ev(<<1, 2, 3>>, <<1, 1, 2>>),
   [Ev(<<1, 2, 3>>, <<1, 1, 1>>) EXCEPT !.data = "stale"],
   [Ev(<<1, 2, 3>>, <<0, 0, 0>>) EXCEPT !.known = FALSE]}
McPolicy(method, visits, margin) ==
  [method |-> method, visits |-> visits, low |-> 0, high |-> 1, margin |-> margin,
   probability |-> 1]
McPruningPolicies ==
  {McPolicy("independent_cluster", 1, 0), McPolicy("independent_cluster", 3, 10),
   McPolicy("bounded", 2, 0), McPolicy("bounded", 4, 0)}
McRadius(method, n) ==
  IF method = "bounded" THEN <<85, 60, 50, 43, 38, 35, 32, 30>>[n]
  ELSE <<120, 85, 70, 60, 54, 49, 46, 43>>[n]

(* The parts a behaviour does not run stay in one initial state.           *)
Init ==
  /\ part \in {"frontier", "plan", "cache", "monitor", "interruption", "report", "view", "pruning"}
  /\ FwInit /\ PpInit /\ PcInit /\ SmInit /\ IfInit /\ IrInit /\ PvInit /\ PrInit
  /\ part # "plan" => ppPlan.pc = "rejected"
  /\ part # "cache" => cache.policy.max_entries = 2
  /\ part # "monitor" => budget.on_success
  /\ part # "interruption" => Len(definitions) = 1
  /\ part # "pruning" =>
       evidence = [a \in PrActions |-> EvNone] /\ prPolicy.visits = 4
  /\ part # "view" => pvViewer = 0 /\ pvCodes[1] = 30

Next ==
  /\ UNCHANGED part
  /\ part # "frontier" => UNCHANGED fwVars
  /\ part # "plan" => UNCHANGED ppPlan
  /\ part # "cache" => UNCHANGED pcVars
  /\ part # "monitor" => UNCHANGED smVars
  /\ part # "interruption" => UNCHANGED ifVars
  /\ part # "report" => UNCHANGED irVars
  /\ part # "view" => UNCHANGED pvVars
  /\ part # "pruning" => UNCHANGED prVars
  /\ \/ part = "frontier" /\ FwNext
     \/ part = "plan" /\ PpNext
     \/ part = "cache" /\ PcNext
     \/ part = "monitor" /\ SmNext
     \/ part = "interruption" /\ IfNext
     \/ part = "report" /\ IrNext
     \/ part = "view" /\ PvNext
     \/ part = "pruning" /\ PrNext

Spec == Init /\ [][Next]_mcVars

=============================================================================
