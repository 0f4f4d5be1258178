------------------------------ MODULE MCEngine ------------------------------
(***************************************************************************)
(* The engine below the search: parts that share no state with one another *)
(* are explored each on its own; part says which of them a behaviour runs. *)
(***************************************************************************)
EXTENDS OcgcoreDuel, CardInstance, DecisionProtocol, RealCoreWorker,
        ActionAggregation, OutputTrace, ReplayVerification, CoreBootstrap,
        RouteDocument, TLC

VARIABLE part
mcVars == <<part, odVars, ciVars, dpVars, rcVars, agVars, otVars, rvfVars, cbVars, rdVars>>

McDuels == Permutations(Duels)

(* Places of cards, as the core's query reports them.                      *)
McSpots == {[at |-> <<0, 1, 0>>, faceup |-> FALSE],
            [at |-> <<0, 2, 0>>, faceup |-> FALSE],
            [at |-> <<0, 4, 0>>, faceup |-> TRUE],
            [at |-> <<1, 4, 0>>, faceup |-> TRUE],
            [at |-> <<1, 4, 1>>, faceup |-> FALSE]}
McOwner == [c \in 1..2 |-> c - 1]

(* The messages of the core, with the counts and flags that matter.        *)
Frame(type) == [type |-> type, intact |-> TRUE, player |-> 0]
With(f, more) == [x \in DOMAIN f \cup DOMAIN more |-> IF x \in DOMAIN more THEN more[x] ELSE f[x]]
IdleCmd(counts, b, e, s) == With(Frame("select_idle_command"), [counts |-> counts, battle |-> b, end |-> e, shuffle |-> s])
Battle(a, t, d, m, e) == With(Frame("select_battle_command"), [activate |-> a, attack |-> t, direct |-> d, main2 |-> m, end |-> e])
Counted(type, n) == With(Frame(type), [count |-> n])
Cards(c, l, h, n) == With(Frame("select_card"), [cancel |-> c, low |-> l, high |-> h, count |-> n])
Tribute(c, l, h, w) == With(Frame("select_tribute"), [cancel |-> c, low |-> l, high |-> h, weights |-> w])
Counter(l, w) == With(Frame("select_counter"), [low |-> l, weights |-> w])
Sum(mode, t, l, h, must, w) == With(Frame("select_sum"), [mode |-> mode, target |-> t, low |-> l, high |-> h, must |-> must, weights |-> w])
Unselect(s, u, f, c) == With(Frame("select_unselect_card"), [select |-> s, unselect |-> u, finish |-> f, cancel |-> c])
Place(type, n, zones) == With(Frame(type), [count |-> n, zones |-> zones])
Mask(type, kind, n, bits) == With(Frame(type), [kind |-> kind, count |-> n, bits |-> bits])
Position(bits) == With(Frame("select_position"), [bits |-> bits])
Chain(n, f) == With(Frame("select_chain"), [count |-> n, forced |-> f])
Hint == Frame("hint")
Win(p) == With(Frame("win"), [payload |-> p])

Decisions ==
  {IdleCmd(c, b, e, s) : c \in {<<0,0,0,0,0,0>>, <<1,1,1,1,1,1>>, <<2,0,0,0,0,2>>}, b \in {0, 1}, e \in 0..2, s \in {0, 1}}
  \cup {Battle(a, t, d, m, 1) : a \in {0, 2}, t \in {0, 2}, d \in {0, 2}, m \in {0, 1}}
  \cup {Battle(0, 0, 0, 0, 0)}
  \cup {Counted(t, n) : t \in {"select_option", "announce_number", "sort_card", "sort_chain"}, n \in 0..3}
  \cup {Frame(t) : t \in {"select_effect_yes_no", "select_yes_no", "announce_card", "rock_paper_scissors"}}
  \cup {Cards(c, l, h, n) : c \in 0..2, l \in 0..2, h \in 0..2, n \in {0, 2, 4}}
  \cup {Tribute(c, l, h, w) : c \in {0, 1}, l \in 0..3, h \in 1..3, w \in {<<>>, <<1, 2>>, <<1, 1, 1>>, <<1, 0>>}}
  \cup {Counter(l, w) : l \in 0..3, w \in {<<1, 2>>, <<2, 1, 1>>, <<1>>, <<0, 3>>}}
  \cup {Sum(m, t, l, 2, must, w) : m \in 0..2, t \in 2..4, l \in 0..1, must \in {<<>>, <<<<1, 0>>>>},
            w \in {<<<<1, 0>>, <<2, 3>>, <<2, 0>>>>, <<<<3, 0>>, <<1, 1>>>>}}
  \cup {Unselect(s, u, f, c) : s \in {0, 2}, u \in {0, 1}, f \in {0, 1}, c \in 0..2}
  \cup {Place(t, n, z) : t \in {"select_place", "select_disabled_field"}, n \in 0..2, z \in {<<<<0, 4, 0>>, <<1, 4, 0>>, <<1, 8, 2>>>>, <<<<0, 4, 1>>>>}}
  \cup {Mask("announce_race", "ANNOUNCE_RACE", n, b) : n \in 0..2, b \in {{0, 1, 2}, {1}}}
  \cup {Mask("announce_attribute", "ANNOUNCE_ATTRIBUTE", 1, {0, 3})}
  \cup {Position(b) : b \in {{}, {1}, {1, 4, 8}, {1, 16}}}
  \cup {Chain(n, f) : n \in {0, 2}, f \in 0..1}

McBatches ==
  {<<f>> : f \in Decisions}
  \cup {<<Hint, Chain(2, 0)>>, <<Chain(1, 0), Chain(1, 1)>>, <<Hint>>, <<Frame("unknown"), Chain(1, 0)>>,
        <<Frame("reload_field")>>, <<Chain(1, 0), Win("p0")>>, <<Win("p0"), Win("p1")>>, <<Win("p0"), Win("p0")>>,
        <<[Chain(1, 0) EXCEPT !.intact = FALSE]>>}

(* What the core asks a worker.                                            *)

Out(type, player, cards, kinds, chain) ==
  [type |-> type, player |-> player, cards |-> cards, kinds |-> kinds, forced |-> FALSE,
   chain |-> chain, win |-> FALSE, newTurn |-> FALSE, phase |-> ""]

IdleOut(kinds) == Out("select_idle_command", 0, {"primary"}, kinds, 0)
ChainOut(player, card) == Out("select_chain", player, {card}, {"PASS", "ACTIVATE_EFFECT"}, 1)
Opening == [IdleOut({"NORMAL_SUMMON", "END_TURN"}) EXCEPT !.newTurn = TRUE, !.phase = "main1"]

McCoreOutputs ==
  { Opening, IdleOut({"END_TURN"}), IdleOut({"END_TURN", "NORMAL_SUMMON"}),
    Out("select_effect_yes_no", 0, {"any"}, {"ACTIVATE_EFFECT", "DECLINE"}, 0),
    ChainOut(0, "primary"),
    Out("select_card", 0, {"hand", "field", "cancel"}, {"SELECT_CARD"}, 1),
    Out("select_option", 0, {"any"}, {"SELECT_OPTION"}, 1),
    ChainOut(1, "veiler"),
    Out("select_card", 1, {"field"}, {"SELECT_CARD"}, 1),
    [Opening EXCEPT !.phase = ""],
    [IdleOut({}) EXCEPT !.win = TRUE] }

NoPlans == [fixture |-> "", mode |-> "none", definitions |-> <<>>, recovery |-> FALSE]
Activation == [type |-> "select_chain", player |-> 1, card |-> "veiler"]
Response == [type |-> "select_card", player |-> 1, card |-> "field"]
Target(step, index) == [step |-> step, player |-> 1, turn |-> 1, index |-> index, chain |-> 1]
Defined(id, target, policy) ==
  [id |-> id, player |-> 1, card |-> "veiler", target |-> target, base |-> id, policy |-> policy]
Explicit(responses) == {[activation |-> Activation, responses |-> responses]}
First == Defined("a", Target(1, 1), Explicit(<<>>))
Second == Defined("b", Target(2, 2), Explicit(<<Response>>))
Long == Defined("c", Target(1, 1), Explicit(<<Response, Response>>))
Interrupted(mode, fixture, ds) ==
  [fixture |-> fixture, mode |-> mode, definitions |-> ds, recovery |-> FALSE]
McScripts ==
  { NoPlans, [NoPlans EXCEPT !.fixture = "matrix"],
    [NoPlans EXCEPT !.fixture = "aggregation"], [NoPlans EXCEPT !.fixture = "rollback"],
    Interrupted("scripted", "", <<Long>>),
    Interrupted("scripted", "", <<Defined("a", Target(1, 1), {})>>),
    Interrupted("scripted", "", <<First, Second>>),          \* no staged fixture: refused
    Interrupted("scripted", "sequence", <<First, Second>>),
    Interrupted("scripted", "sequence", <<Second, First>>),  \* out of order: refused
    Interrupted("sampled", "", <<First, Long, Second>>),
    Interrupted("sampled", "", <<First, [Long EXCEPT !.id = "a"]>>) }  \* one id twice: refused
McPrefixes == {<<>>, <<"END_TURN", "END_TURN">>}

(* Traces: batches with and without random events, an alternating coin.     *)
Event(t, v) == [type |-> t, value |-> v]
McFrameBatches == {<<>>, <<Event("toss_coin", 0)>>,
                   <<Event("new_phase", 2), Event("toss_coin", 1), Event("win", 0)>>,
                   <<Event("toss_coin", 3)>>, <<Event("trace_hint", 0)>>}
Alternate(n) == n % 2

(* Recorded experiments: a script and a search.                            *)
McExperiments ==
  {[schema |-> "0.3b", strategy |-> "fixed", scenario |-> FALSE],
   [schema |-> "0.4", strategy |-> "random_search_v1", scenario |-> TRUE]}

(* One asset repository: they are brought in one after the other.          *)
McRepositories == <<"card_database">>

(* Route documents, and edits of them: one entry is dropped, or set to     *)
(* another value.                                                          *)
Drops(r) == IF r = Null THEN {} ELSE {[r EXCEPT ![f] = Null] : f \in DOMAIN r}
Sets(r, numbers) ==
  IF r = Null THEN {}
  ELSE {[r EXCEPT ![f] = @ + 1] : f \in {f \in numbers : r[f] # Null}}
InSeq(s, Change(_)) ==
  UNION {{[s EXCEPT ![i] = x] : x \in Change(s[i])} : i \in DOMAIN s}
Shorter(s) == {RemoveAt(s, i) : i \in DOMAIN s}

ActionSets(a) ==
  Sets(a, {"id", "request", "player"})
    \cup {[a EXCEPT !.kind = "PASS"], [a EXCEPT !.picks = Append(@, 9)]}
EventSets(e) ==
  Sets(e, {"step", "request", "action_id", "before", "after", "turn", "chain"})
    \cup {[e EXCEPT !.action = a] : a \in ActionSets(e.action)}
    \cup {[e EXCEPT !.output.batch.opens = ~@]}
GroupSets(g) ==
  {[g EXCEPT !.steps = Append(@, Last(@) + 1)], [g EXCEPT !.id[1] = @ + 1]}
    \cup {[g EXCEPT !.action_ids = s] : s \in Shorter(g.action_ids)}
LinkSets(l) == Sets(l, {"step", "part"}) \cup {[l EXCEPT !.group[1] = @ + 1]}
CheckpointSets(c) ==
  Sets(c, {"step", "hash", "turn", "evaluation", "score"})
    \cup {[c EXCEPT !.success = ~@], [c EXCEPT !.evaluation_result.total = @ + 1]}
AccessSets(a) == Sets(a, {"sequence"}) \cup {[a EXCEPT !.decision = "denied"]}
ResponseSets(s) == Sets(s, {"step", "index"}) \cup {[s EXCEPT !.role = "cost"]}
InterruptionSets(x) ==
  Sets(x, {"at", "activation", "target_step", "definition", "card", "id"})
    \cup {[x EXCEPT !.target = t] : t \in Sets(x.target, {"step", "turn", "before"})}
    \cup {[x EXCEPT !.responses = s] :
            s \in IF x.responses = Null THEN {} ELSE InSeq(x.responses, ResponseSets)}
ResultSets(r) ==
  {[r EXCEPT !.success = ~@]}
    \cup {[r EXCEPT !.peak = b] : b \in CheckpointSets(r.peak)}
    \cup {[r EXCEPT !.terminal = b] : b \in CheckpointSets(r.terminal)}
    \cup {[r EXCEPT !.explanation = x] : x \in Sets(r.explanation, {"values", "turn"})}
    \cup {[r EXCEPT !.durability = x] : x \in Sets(r.durability, {"score"})}

ReplaySets(r) ==
  {[r EXCEPT !.events = s] :
     s \in InSeq(r.events, EventSets) \cup Shorter(r.events)}
    \cup {[r EXCEPT !.policy.viewer = 1 - @], [r EXCEPT !.conditions.policy.viewer = 1 - @],
          [r EXCEPT !.snapshot.mode = "other"]}
PresentationSets(p) ==
  {[p EXCEPT !.aggregation.groups = s] : s \in InSeq(p.aggregation.groups, GroupSets)}
    \cup {[p EXCEPT !.aggregation.links = s] :
            s \in InSeq(p.aggregation.links, LinkSets) \cup Shorter(p.aggregation.links)}
    \cup {[p EXCEPT !.status = "provisional"]}

McChanged(d) ==
  {[d EXCEPT !.status = "partial"]}
    \cup {[d EXCEPT !.replay = r] : r \in ReplaySets(d.replay)}
    \cup {[d EXCEPT !.presentation = p] : p \in PresentationSets(d.presentation)}
    \cup {[d EXCEPT !.checkpoints = s] :
            s \in InSeq(d.checkpoints, CheckpointSets) \cup Shorter(d.checkpoints)}
    \cup {[d EXCEPT !.result = r] : r \in ResultSets(d.result)}
    \cup {[d EXCEPT !.audit.body.accesses = s] : s \in InSeq(d.audit.body.accesses, AccessSets)}
    \cup {[d EXCEPT !.interruptions = s] :
            s \in InSeq(d.interruptions, InterruptionSets) \cup Shorter(d.interruptions)}
    \cup {[d EXCEPT !.lineage = l] : l \in Sets(d.lineage, {"fork", "parent"})}
    \cup {[d EXCEPT !.experiment.interruption.definitions = s] :
            s \in Shorter(d.experiment.interruption.definitions)}

McDropped(d) ==
  Drops(d)
    \cup {[d EXCEPT !.experiment = x] : x \in Drops(d.experiment)}
    \cup {[d EXCEPT !.replay = x] : x \in Drops(d.replay)}
    \cup {[d EXCEPT !.replay.events = s] : s \in InSeq(d.replay.events, Drops)}
    \cup {[d EXCEPT !.presentation = x] : x \in Drops(d.presentation)}
    \cup {[d EXCEPT !.checkpoints = s] : s \in InSeq(d.checkpoints, Drops)}
    \cup {[d EXCEPT !.result = x] : x \in Drops(d.result)}
    \cup {[d EXCEPT !.result.peak = x] : x \in Drops(d.result.peak)}
    \cup {[d EXCEPT !.audit = x] : x \in Drops(d.audit)}
    \cup {[d EXCEPT !.interruptions = s] : s \in InSeq(d.interruptions, Drops)}
    \cup {[d EXCEPT !.lineage = x] : x \in Drops(d.lineage)}

McPolicy(mode) == [mode |-> mode, reference |-> IF mode = "sampled_private_state" THEN 5 ELSE Null,
                   viewer |-> 0, deck_known |-> FALSE]
McMove(kind, player, n, opens) ==
  [kind |-> kind, player |-> player, request |-> n, action |-> n, picks |-> <<n>>,
   before |-> n, after |-> n + 1, turn |-> 1, index |-> n - 1, chain |-> 0,
   opens |-> opens, negates |-> kind = "SELECT_CARD"]
McMoves == <<McMove("ACTIVATE_EFFECT", 1, 1, TRUE), McMove("SELECT_CARD", 1, 2, FALSE),
             [McMove("END_TURN", 0, 3, TRUE) EXCEPT !.turn = 2]>>
McBoard(turn, score, stop) ==
  [turn |-> turn, board |-> score, score |-> score, success |-> score > 1, can_stop |-> stop]
McBoards == <<McBoard(1, 3, FALSE), McBoard(1, 1, TRUE), McBoard(2, 2, TRUE)>>
McDefinition(id, m, i, policy, base) ==
  [id |-> id, card |-> 7, player |-> m.player, policy |-> policy, base |-> base, answers |-> 1,
   target |-> [TargetOf(EventOf(m, i), i) EXCEPT !.action = 8,
     !.occurrence = OccurrenceId(8, i, m.before, m.turn, m.index, m.chain)]]
McExecution(k, at, role, step) ==
  [definition |-> k, activated |-> at, responses |-> <<[role |-> role, step |-> step]>>]
McRun(mode, defs, executions, policy) ==
  [moves |-> McMoves, boards |-> McBoards, temporary |-> 2, prefix |-> FALSE, mode |-> mode,
   definitions |-> defs, sampled |-> IF mode = "sampled" THEN 2 ELSE Null, executions |-> executions,
   policy |-> McPolicy(policy),
   accesses |-> <<[field |-> "hand", owner |-> 0], [field |-> "public_state", owner |-> NoOwner]>>]
McPlain == McRun("none", <<>>, <<>>, "player_view")
McSampled == McRun("sampled", <<McDefinition(1, McMoves[1], 1, Null, 20), McDefinition(2, McMoves[1], 1, 30, 21)>>,
                   <<McExecution(2, 1, "target", 2)>>, "sampled_private_state")
McLegacy == [McRun("scripted", <<McDefinition(1, McMoves[1], 1, Null, 20)>>, <<McExecution(1, 1, "target", 2)>>, "player_view")
             EXCEPT !.temporary = 3, !.prefix = TRUE]
McTurns == <<McMoves[1], McMoves[2], [McMove("ACTIVATE_EFFECT", 1, 3, TRUE) EXCEPT !.turn = 2]>>
McTwice == [McRun("scripted", <<McDefinition(1, McTurns[1], 1, 30, 20),
                                [McDefinition(2, McTurns[3], 3, 31, 21) EXCEPT !.answers = 0]>>,
                   <<McExecution(1, 1, "cost", 2), [McExecution(2, 3, "cost", 2) EXCEPT !.responses = <<>>]>>,
                   "complete_information")
             EXCEPT !.moves = McTurns]
McRuns ==
  {McSampled, McLegacy, McTwice,
   \* refused: a denied access, no durability, no peak, an interruption that did not happen
   [McPlain EXCEPT !.accesses[1].owner = 1], [McPlain EXCEPT !.temporary = 3], [McPlain EXCEPT !.temporary = Null],
   [McPlain EXCEPT !.boards = [b \in 1..3 |-> [McBoards[b] EXCEPT !.can_stop = FALSE]]],
   [McLegacy EXCEPT !.executions[1].activated = Null]}

(* The parts a behaviour does not run stay in one initial state; the values *)
(* of an environment are interchangeable, so one of them is enough.        *)
Init ==
  /\ part \in {"duel", "cards", "protocol", "worker", "aggregation", "trace", "replay", "bootstrap",
              "document"}
  /\ OdInit /\ CiInit /\ DpInit /\ RcInit /\ AgInit /\ OtInit /\ RvfInit /\ CbInit /\ RdInit
  /\ part # "cards" =>
       core.place = CHOOSE p \in [CiCards -> Spots \cup {Gone}] :
         Distinct(p) /\ \A c \in CiCards : c \in CiTokens <=> p[c] = Gone
  /\ part # "worker" => rcMode = "search_frontier" /\ rcPrefix = <<>>
  /\ env = CHOOSE e \in Environments : TRUE

Next ==
  /\ UNCHANGED part
  /\ part # "duel" => UNCHANGED odVars
  /\ part # "cards" => UNCHANGED ciVars
  /\ part # "protocol" => UNCHANGED dpVars
  /\ part # "worker" => UNCHANGED rcVars
  /\ part # "aggregation" => UNCHANGED agVars
  /\ part # "trace" => UNCHANGED otVars
  /\ part # "replay" => UNCHANGED rvfVars
  /\ part # "bootstrap" => UNCHANGED cbVars
  /\ part # "document" => UNCHANGED rdVars
  /\ \/ part = "duel" /\ OdNext
     \/ part = "cards" /\ CiNext
     \/ part = "protocol" /\ DpNext
     \/ part = "worker" /\ RcNext
     \/ part = "aggregation" /\ AgEvent
     \/ part = "trace" /\ OtNext
     \/ part = "replay" /\ RvfNext
     \/ part = "bootstrap" /\ CbNext
     \/ part = "document" /\ RdNext

Spec == Init /\ [][Next]_mcVars

(* What is read back of a run is believed exactly as far as it may be: the *)
(* trace of its outputs (replay/io_trace.py) and the route document that   *)
(* carries it (route_dsl/validator.py).                                    *)
RecordsTrusted == TraceTrusted /\ DocumentsTrusted

=============================================================================
