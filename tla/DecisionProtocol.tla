-------------------------- MODULE DecisionProtocol --------------------------
(***************************************************************************)
(* The wire protocol between ocgcore and the search.  A process batch is a *)
(* sequence of frames; at most one of them asks the player for a decision. *)
(* Its decoder lists the core's own candidates together with what has to   *)
(* be written back for each of them; an action selects candidates, and the *)
(* encoder turns the selection into the answer the core reads.             *)
(*                                                                         *)
(* Frames are records with the fields the decoders look at; card codes,    *)
(* labels and references are left out.  An answer is the sequence of its   *)
(* binary fields.                                                          *)
(***************************************************************************)
EXTENDS Integers, Sequences, FiniteSets, SequencesExt, Functions

CONSTANTS
  Batches,   \* process batches of the core: sequences of frames
  Values,    \* values an action may attach to a selection
  MaxFields, \* longest answer, in fields (MAX_RESPONSE_BYTES in the code)
  ByteMax,   \* largest index written in one byte (255 in the code)
  WordMax,   \* largest index written in two bytes (65535 in the code)
  FrontierLimit \* search.parameters.max_frontier_actions

VARIABLES
  dpBatch,    \* the batch the core sent last
  dpRequest,  \* <<>>, or the request decoded from it
  dpAction,   \* <<>>, or the action submitted
  dpState     \* "processing", "awaiting", "refused", "terminal", "answered", "rejected"

dpVars == <<dpBatch, dpRequest, dpAction, dpState>>

Concat(parts) == FoldLeft(LAMBDA done, part : done \o part, <<>>, parts)

Total(numbers) == FoldLeft(LAMBDA done, n : done + n, 0, numbers)

-----------------------------------------------------------------------------
(* Candidates and requests (engine/bridge/decision.py).                    *)

\* val is the response payload: a response value, index or bit, or a zone.
Candidate(group, index, kind, val, weight) ==
  [id |-> <<group, index>>, kind |-> kind, val |-> val, weight |-> weight]

Control(name, kind, val) == Candidate(name, 0, kind, <<val>>, 0)

NoExtra == [cancel |-> FALSE, low |-> 0, high |-> 0, mode |-> 0, must |-> <<>>]

DecisionRequest(type, player, candidates, low, high, extra) ==
  [type |-> type, player |-> player, cands |-> candidates,
   low |-> low, high |-> high, ordered |-> FALSE, extra |-> extra]

OneOf(type, player, candidates) ==
  DecisionRequest(type, player, candidates, 1, 1, NoExtra)

Flags(f, names) == \A name \in names : f[name] \in {0, 1}

\* A decoder's outcome is a sequence: the request, or nothing when it raises.
Refused == <<>>
Checked(ok, request) == IF ok THEN <<request>> ELSE Refused

-----------------------------------------------------------------------------
(* OcgcoreMessageDecoder: one operator per decoder.                        *)

CommandGroupUnshifted(count, group, command, kind) ==
  [i \in 1..count |-> Candidate(group, i - 1, kind, <<command>>, 0)]

CommandGroup(count, group, command, kind) ==
  [i \in 1..count |->
     Candidate(group, i - 1, kind, <<(i - 1) * 65536 + command>>, 0)]

Offered(flag, control) == IF flag = 1 THEN <<control>> ELSE <<>>

DecodeBattleCommand(f) ==
  LET candidates == CommandGroup(f.activate, "activate", 0, "ACTIVATE_EFFECT")
                 \o CommandGroup(f.attack, "attack", 1, "ATTACK")
                 \o Offered(f.main2, Control("enter_main_phase_2", "ENTER_MAIN_PHASE_2", 2))
                 \o Offered(f.end, Control("end_turn", "END_TURN", 3))
  IN  Checked(Flags(f, {"direct", "main2", "end"}) /\ candidates # <<>>,
              OneOf(f.type, f.player, candidates))

DecodeIdleCommand(f) ==
  LET groups == << <<"normal_summon", "NORMAL_SUMMON">>,
                   <<"special_summon", "SPECIAL_SUMMON">>,
                   <<"change_position", "CHANGE_POSITION">>,
                   <<"set_monster", "SET_MONSTER">>,
                   <<"set_spell_trap", "SET_SPELL_TRAP">>,
                   <<"activate", "ACTIVATE_EFFECT">> >>
      cards == Concat([g \in 1..6 |->
                 CommandGroup(f.counts[g], groups[g][1], g - 1, groups[g][2])])
      candidates == cards
                 \o Offered(f.battle, Control("enter_battle_phase", "ENTER_BATTLE_PHASE", 6))
                 \o Offered(f.end, Control("end_turn", "END_TURN", 7))
                 \o Offered(f.shuffle, Control("shuffle_hand", "SHUFFLE_HAND", 8))
  IN  Checked(Flags(f, {"battle", "end", "shuffle"}) /\ candidates # <<>>,
              OneOf(f.type, f.player, candidates))

DecodeEffectYesNo(f) ==
  Checked(TRUE, OneOf(f.type, f.player,
    <<Candidate("choice", 0, "DECLINE", <<0>>, 0),
      Candidate("choice", 1, "ACTIVATE_EFFECT", <<1>>, 0)>>))

\* select_yes_no leaves action_kind out of its payload.
DecodeYesNo(f) ==
  Checked(TRUE, OneOf(f.type, f.player,
    [i \in 1..2 |-> Candidate("choice", i - 1, "", <<i - 1>>, 0)]))

DecodeOption(f) ==
  Checked(f.count > 0, OneOf(f.type, f.player,
    [i \in 1..f.count |-> Candidate("option", i - 1, "", <<i - 1>>, 0)]))

DecodeAnnounceNumber(f) ==
  Checked(f.count > 0, OneOf(f.type, f.player,
    [i \in 1..f.count |-> Candidate("number", i - 1, "ANNOUNCE_NUMBER", <<i - 1>>, 0)]))

DecodeAnnounceCard(f) ==
  Checked(TRUE, OneOf(f.type, f.player,
    <<Candidate("card_code", 0, "ANNOUNCE_CARD", <<>>, 0)>>))

DecodeRockPaperScissors(f) ==
  Checked(TRUE, OneOf(f.type, f.player,
    [i \in 1..3 |-> Candidate("hand", i, "ROCK_PAPER_SCISSORS", <<i>>, 0)]))

\* f.bits: the positions set in the mask.
DecodePosition(f) ==
  LET allowed == SelectSeq(<<1, 2, 4, 8>>, LAMBDA p : p \in f.bits)
  IN  Checked(f.bits # {} /\ f.bits \subseteq {1, 2, 4, 8},
        OneOf(f.type, f.player,
          [i \in DOMAIN allowed |-> Candidate("position", allowed[i], "", <<allowed[i]>>, 0)]))

DecodeAnnounceMask(f) ==
  LET bits == SetToSortSeq(f.bits, <)
  IN  Checked(f.count > 0 /\ f.count <= Len(bits),
        DecisionRequest(f.type, f.player,
          [i \in DOMAIN bits |-> Candidate("bit", bits[i], f.kind, <<2 ^ bits[i]>>, 0)],
          f.count, f.count, NoExtra))

DecodeSort(f) ==
  Checked(f.count \in 1..ByteMax,
    DecisionRequest(f.type, f.player,
      [i \in 1..f.count |-> Candidate("card", i - 1, "ORDER_CARDS", <<i - 1>>, 0)]
        \o <<Control("keep_order", "FINISH_SELECTION", -1)>>,
      1, f.count, NoExtra))

CardList(count, kind, weights) ==
  [i \in 1..count |-> Candidate("card", i - 1, kind, <<i - 1>>, weights[i])]

DecodeCard(f) ==
  Checked(Flags(f, {"cancel"}) /\ f.count > 0 /\ f.low <= f.high /\ f.high <= f.count,
    DecisionRequest(f.type, f.player, CardList(f.count, "", [i \in 1..f.count |-> 0]),
      IF f.cancel = 1 THEN 0 ELSE f.low, f.high,
      [NoExtra EXCEPT !.cancel = (f.cancel = 1), !.low = f.low, !.high = f.high]))

DecodeTribute(f) ==
  LET count == Len(f.weights)
  IN  Checked(/\ Flags(f, {"cancel"}) /\ count > 0 /\ f.low <= f.high
              /\ \A i \in 1..count : f.weights[i] > 0,
        DecisionRequest(f.type, f.player, CardList(count, "SELECT_TRIBUTE", f.weights),
          IF f.cancel = 1 THEN 0 ELSE 1, IF count < f.high THEN count ELSE f.high,
          [NoExtra EXCEPT !.cancel = (f.cancel = 1), !.low = f.low, !.high = f.high]))

DecodeCounter(f) ==
  LET count == Len(f.weights)
  IN  Checked(/\ f.low > 0 /\ count > 0 /\ \A i \in 1..count : f.weights[i] > 0
              /\ Total(f.weights) >= f.low,
        DecisionRequest(f.type, f.player, CardList(count, "DISTRIBUTE_COUNTERS", f.weights),
          1, IF count < f.low THEN count ELSE f.low, [NoExtra EXCEPT !.low = f.low]))

\* weights and must hold the two 16-bit halves of a sum parameter as a pair.
DecodeSum(f) ==
  LET count == Len(f.weights)
  IN  Checked(/\ Flags(f, {"mode"}) /\ count > 0
              /\ f.mode = 0 => f.low <= f.high /\ f.high <= count,
        DecisionRequest(f.type, f.player, CardList(count, "SELECT_SUM", f.weights),
          IF f.mode = 0 THEN f.low ELSE 0, IF f.mode = 0 THEN f.high ELSE count,
          [NoExtra EXCEPT !.mode = f.mode, !.low = f.target, !.must = f.must]))

DecodeUnselectCard(f) ==
  LET candidates ==
        [i \in 1..f.select |-> Candidate("select", i - 1, "SELECT_CARD", <<i - 1>>, 0)]
     \o [i \in 1..f.unselect |->
           Candidate("unselect", i - 1, "SELECT_CARD", <<f.select + i - 1>>, 0)]
     \o Offered(IF f.finish = 1 \/ f.cancel = 1 THEN 1 ELSE 0,
                Control("finish", "FINISH_SELECTION", -1))
  IN  Checked(Flags(f, {"finish", "cancel"}) /\ candidates # <<>>,
              OneOf(f.type, f.player, candidates))

\* f.zones: the available <<opponent, location, sequence>> in the order of the mask.
DecodePlace(f) ==
  Checked(f.count > 0 /\ Len(f.zones) >= f.count,
    DecisionRequest(f.type, f.player,
      [i \in DOMAIN f.zones |->
         LET z == f.zones[i]
             controller == IF z[1] = 1 THEN 1 - f.player ELSE f.player
         IN  [id |-> <<"zone", controller, z[2], z[3]>>, kind |-> "SELECT_ZONE",
              val |-> <<controller, z[2], z[3]>>, weight |-> 0]],
      f.count, f.count, NoExtra))

DecodeChain(f) ==
  LET candidates == [i \in 1..f.count |->
                       Candidate("chain", i - 1, "ACTIVATE_EFFECT", <<i - 1>>, 0)]
                 \o Offered(1 - f.forced, Control("pass", "PASS", -1))
  IN  Checked(Flags(f, {"forced"}) /\ candidates # <<>>, OneOf(f.type, f.player, candidates))

\* The registry.  intact is FALSE for a payload that is truncated, has
\* trailing bytes or names no player.
DecodeFrame(f) ==
  IF ~f.intact THEN Refused
  ELSE CASE f.type = "select_battle_command" -> DecodeBattleCommand(f)
         [] f.type = "select_idle_command" -> DecodeIdleCommand(f)
         [] f.type = "select_effect_yes_no" -> DecodeEffectYesNo(f)
         [] f.type = "select_yes_no" -> DecodeYesNo(f)
         [] f.type = "select_option" -> DecodeOption(f)
         [] f.type = "select_card" -> DecodeCard(f)
         [] f.type = "select_chain" -> DecodeChain(f)
         [] f.type \in {"select_place", "select_disabled_field"} -> DecodePlace(f)
         [] f.type = "select_position" -> DecodePosition(f)
         [] f.type = "select_tribute" -> DecodeTribute(f)
         [] f.type = "select_counter" -> DecodeCounter(f)
         [] f.type = "select_sum" -> DecodeSum(f)
         [] f.type = "select_unselect_card" -> DecodeUnselectCard(f)
         [] f.type \in {"sort_chain", "sort_card"} -> DecodeSort(f)
         [] f.type = "rock_paper_scissors" -> DecodeRockPaperScissors(f)
         [] f.type \in {"announce_race", "announce_attribute"} -> DecodeAnnounceMask(f)
         [] f.type = "announce_card" -> DecodeAnnounceCard(f)
         [] OTHER -> DecodeAnnounceNumber(f)

\* The types that are no decision: "hint" stands for the listed ones, "win"
\* is MSG_WIN; "reload_field" is unsupported, "unknown" is in no list.
Selections(batch) == SelectSeq(batch, LAMBDA f : f.type \notin {"hint", "win", "reload_field", "unknown"})

\* decode_batch: the frames are split and decoded in order, so a batch with a
\* refused frame, or with two decisions, yields no request at all.
DecodeBatch(batch) ==
  LET asked == Selections(batch)
      known == \A i \in DOMAIN batch : batch[i].type \notin {"reload_field", "unknown"}
  IN  IF ~known \/ Len(asked) > 1 \/ \E i \in DOMAIN asked : DecodeFrame(asked[i]) = Refused
      THEN [ok |-> FALSE, request |-> <<>>]
      ELSE [ok |-> TRUE, request |-> IF asked = <<>> THEN <<>> ELSE DecodeFrame(asked[1])]

Wins(batch) == {batch[i].payload : i \in {j \in DOMAIN batch : batch[j].type = "win"}}

-----------------------------------------------------------------------------
(* ActionResponseEncoder: one operator per codec.                          *)

NoAnswer == <<>>

CandidateOf(request, id) ==
  request.cands[CHOOSE i \in DOMAIN request.cands : request.cands[i].id = id]

Ids(request) == {request.cands[i].id : i \in DOMAIN request.cands}

\* validate_decision_response.
ResponseValid(request, action) ==
  LET ids == [i \in DOMAIN action.sel |-> action.sel[i].id]
  IN  /\ Range(ids) \subseteq Ids(request)
      /\ Len(ids) \in request.low..request.high
      /\ Cardinality(Range(ids)) = Len(ids)

IndexWidth(top) == IF top <= ByteMax THEN 2 ELSE IF top <= WordMax THEN 1 ELSE 0

EncodeIndices(selected) ==
  LET indices == SetToSortSeq({selected[i].val[1] : i \in DOMAIN selected}, <)
  IN  IF indices = <<>> THEN <<2, 0>>
      ELSE <<IndexWidth(Last(indices)), Len(indices)>> \o indices

EncodeInt32(selected) == selected[1].val

EncodeCardIndices(request, selected) ==
  IF selected = <<>> THEN IF request.extra.cancel THEN <<-1>> ELSE NoAnswer
  ELSE IF Len(selected) \in request.extra.low..request.extra.high
       THEN EncodeIndices(selected) ELSE NoAnswer

EncodeTribute(request, selected) ==
  IF selected = <<>> THEN IF request.extra.cancel THEN <<-1>> ELSE NoAnswer
  ELSE IF /\ Len(selected) <= request.extra.high
          /\ Total([i \in DOMAIN selected |-> selected[i].weight]) >= request.extra.low
       THEN EncodeIndices(selected) ELSE NoAnswer

CounterOf(selections, id) ==
  LET mine == SelectSeq(selections, LAMBDA s : s.id = id)
  IN  IF mine = <<>> THEN 0 ELSE mine[1].value[1]

CounterVector(request, selections) ==
  [i \in DOMAIN request.cands |-> CounterOf(selections, request.cands[i].id)]

EncodeCounters(request, selected, selections) ==
  IF /\ \A i \in DOMAIN selections :
          /\ selections[i].value # <<>>
          /\ selections[i].value[1] \in 1..selected[i].weight
     /\ Total([i \in DOMAIN selections |-> selections[i].value[1]]) = request.extra.low
  THEN CounterVector(request, selections) ELSE NoAnswer

\* _sum_options: the value of a card, or either of two.
SumOptions(param) == IF param[2] = 0 THEN {param[1]} ELSE {param[1], param[2]}

Reachable(params) ==
  FoldLeft(LAMBDA sums, p : {s + v : s \in sums, v \in SumOptions(p)}, {0}, params)

Least(S) == CHOOSE x \in S : \A y \in S : x <= y
Greatest(S) == CHOOSE x \in S : \A y \in S : x >= y

MinimalThreshold(params, target) ==
  LET least == [i \in DOMAIN params |-> Least(SumOptions(params[i]))]
  IN  /\ Total([i \in DOMAIN params |-> Greatest(SumOptions(params[i]))]) >= target
      /\ Total(least) - Least(Range(least)) < target

EncodeSum(request, selected) ==
  LET params == request.extra.must \o [i \in DOMAIN selected |-> selected[i].weight]
      target == request.extra.low
  IN  IF /\ params # <<>>
         /\ IF request.extra.mode = 0 THEN target \in Reachable(params)
                                      ELSE MinimalThreshold(params, target)
      THEN EncodeIndices(selected) ELSE NoAnswer

EncodeUnselect(selected) ==
  IF selected[1].val = <<-1>> THEN <<-1>> ELSE <<1>> \o selected[1].val

EncodeSort(request, selected, selections) ==
  LET cards == Len(request.cands) - 1
      orderOf(id) == LET i == CHOOSE i \in DOMAIN selections : selections[i].id = id
                     IN  selections[i].order
  IN  IF Len(selected) = 1 /\ selected[1].val = <<-1>> THEN <<ByteMax>>
      ELSE IF /\ Len(selected) = cards
              /\ \A i \in 1..cards : \E j \in DOMAIN selections :
                   selections[j].id = request.cands[i].id /\ selections[j].order # <<>>
              /\ {orderOf(request.cands[i].id) : i \in 1..cards} = {<<n>> : n \in 0..(cards - 1)}
           THEN [i \in 1..cards |-> orderOf(request.cands[i].id)[1]]
           ELSE NoAnswer

EncodeMask(selected) == <<Total([i \in DOMAIN selected |-> selected[i].val[1]])>>

EncodeSelectionValue(selections) == selections[1].value

ZoneBefore(a, b) ==
  \/ a[1] < b[1]
  \/ a[1] = b[1] /\ a[2] < b[2]
  \/ a[1] = b[1] /\ a[2] = b[2] /\ a[3] < b[3]

EncodePlace(selected) ==
  Concat(SetToSortSeq({selected[i].val : i \in DOMAIN selected}, ZoneBefore))

Codec(request, selected, selections) ==
  CASE request.type = "select_card" -> EncodeCardIndices(request, selected)
    [] request.type = "select_tribute" -> EncodeTribute(request, selected)
    [] request.type = "select_counter" -> EncodeCounters(request, selected, selections)
    [] request.type = "select_sum" -> EncodeSum(request, selected)
    [] request.type = "select_unselect_card" -> EncodeUnselect(selected)
    [] request.type \in {"sort_chain", "sort_card"} -> EncodeSort(request, selected, selections)
    [] request.type \in {"announce_race", "announce_attribute"} -> EncodeMask(selected)
    [] request.type = "announce_card" -> EncodeSelectionValue(selections)
    [] request.type \in {"select_place", "select_disabled_field"} -> EncodePlace(selected)
    [] OTHER -> EncodeInt32(selected)

\* ActionResponseEncoder._encode.
Encode(request, action) ==
  IF ~ResponseValid(request, action) THEN NoAnswer
  ELSE LET selected == [i \in DOMAIN action.sel |-> CandidateOf(request, action.sel[i].id)]
           kinds == {selected[i].kind : i \in DOMAIN selected} \ {""}
           data == Codec(request, selected, action.sel)
       IN  IF kinds \in {{}, {action.kind}} /\ Len(data) <= MaxFields THEN data ELSE NoAnswer

-----------------------------------------------------------------------------
(* The actions the search derives from a request (prototype/real_core.py). *)

Fallback(request) ==
  CASE request.type = "select_card" -> {"SELECT_CARD"}
    [] request.type = "select_option" -> {"SELECT_OPTION"}
    [] request.type = "select_position" -> {"SELECT_POSITION"}
    [] OTHER -> {}

\* _action_kind: the candidate's own kind, else that of the request type; a
\* set, empty where the function raises (select_yes_no).
ActionKinds(request, candidate) ==
  IF candidate.kind # "" THEN {candidate.kind} ELSE Fallback(request)

KindsOf(request) == UNION {ActionKinds(request, request.cands[i]) : i \in DOMAIN request.cands}

Selection(id) == [id |-> id, value |-> <<>>, order |-> <<>>]

Counts(request, kind, group) ==
  IF kind = "FINISH_SELECTION" THEN {1}
  ELSE (IF request.low > 1 THEN request.low ELSE 1)
         ..(IF Len(group) < request.high THEN Len(group) ELSE request.high)

ActionsOfKind(request, kind) ==
  LET group == SelectSeq(request.cands, LAMBDA c : kind \in ActionKinds(request, c))
      picks == {P \in SUBSET DOMAIN group : Cardinality(P) \in Counts(request, kind, group)}
  IN  {[kind |-> kind, sel |-> LET order == SetToSortSeq(P, <)
                               IN  [i \in DOMAIN order |-> Selection(group[order[i]].id)]]
         : P \in picks}

\* _frontier_actions: every combination of allowed size within one kind, none
\* with a value or an order; the empty answer is left to the scripted runner.
FrontierActions(request) ==
  LET actions == UNION {ActionsOfKind(request, k) : k \in KindsOf(request)}
  IN  IF \/ \E i \in DOMAIN request.cands : ActionKinds(request, request.cands[i]) = {}
         \/ Cardinality(actions) > FrontierLimit
      THEN {} ELSE actions

\* What any caller may submit: selections in any order and with any value.
Optional(S) == {<<>>} \cup {<<v>> : v \in S}

Submittable(request) ==
  LET kinds == KindsOf(request) \cup {"DECLINE"}
      orders == Optional(0..1)
      one == {[id |-> id, value |-> v, order |-> o] :
                id \in Ids(request), v \in Optional(Values), o \in orders}
      two == {s \in one \X one : s[1].id[2] <= s[2].id[2]}
  IN  {[kind |-> k, sel |-> s] : k \in kinds, s \in {<<>>} \cup {<<x>> : x \in one}
                                                      \cup (IF request.high >= 2 THEN two ELSE {})}

-----------------------------------------------------------------------------
DpInit == dpBatch = <<>> /\ dpRequest = <<>> /\ dpAction = <<>> /\ dpState = "processing"

\* _decode_batch of the worker: MSG_WIN ends the duel and drops a request of
\* the same batch, two different winners and a silent batch are errors.
Receive ==
  /\ dpState = "processing"
  /\ \E batch \in Batches :
       \E decoded \in {DecodeBatch(batch)} :
         /\ dpBatch' = batch
         /\ dpRequest' = IF Wins(batch) = {} THEN decoded.request ELSE <<>>
         /\ dpState' = IF \/ ~decoded.ok
                          \/ Cardinality(Wins(batch)) > 1
                          \/ Wins(batch) = {} /\ decoded.request = <<>>
                       THEN "refused"
                       ELSE IF Wins(batch) # {} THEN "terminal" ELSE "awaiting"
  /\ UNCHANGED dpAction

\* respond_action: an action the encoder rejects leaves the duel waiting.
Respond ==
  /\ dpState \in {"awaiting", "rejected"}
  /\ \E action \in FrontierActions(dpRequest[1]) :
       /\ dpAction' = <<action>>
       /\ dpState' = IF Encode(dpRequest[1], action) = NoAnswer THEN "rejected" ELSE "answered"
  /\ UNCHANGED <<dpBatch, dpRequest>>

Continue ==
  /\ dpState = "answered"
  /\ dpState' = "processing" /\ dpBatch' = <<>> /\ dpRequest' = <<>> /\ dpAction' = <<>>

DpNext == Receive \/ Respond \/ Continue

-----------------------------------------------------------------------------
\* What a selection means, whatever the order in which it is written: the
\* candidates, with the counters, the card code or the order given to each.
Meaning(request, action) ==
  {IF request.type \in {"select_counter", "announce_card"}
     THEN <<action.sel[i].id, action.sel[i].value>>
   ELSE IF request.type \in {"sort_chain", "sort_card"} /\ action.sel[i].id[1] = "card"
     THEN <<action.sel[i].id, action.sel[i].order>>
   ELSE <<action.sel[i].id, <<>> >> : i \in DOMAIN action.sel}

\* The answer names the selection: whatever request a batch of the core leads
\* to, two actions the encoder accepts for it are written the same way only if
\* they select the same candidates with the same values.
AnswersDistinct ==
  dpState = "awaiting" =>
    LET request == dpRequest[1]
        written == {<<Encode(request, a), Meaning(request, a)>> : a \in Submittable(request)}
        answers == {w \in written : w[1] # NoAnswer}
    IN  Cardinality(answers) = Cardinality({w[1] : w \in answers})

\* The search misses nothing it can express: every accepted answer that needs
\* no value, no order and at least one candidate is among the frontier's
\* actions, unless the request has a candidate of no kind or too many actions.
FrontierComplete ==
  dpState = "awaiting" =>
    LET request == dpRequest[1]
        frontier == FrontierActions(request)
    IN  frontier # {} =>
          \A a \in Submittable(request) :
            /\ a.sel # <<>>
            /\ \A i \in DOMAIN a.sel : a.sel[i].value = <<>> /\ a.sel[i].order = <<>>
            /\ a.kind # "DECLINE" \/ "DECLINE" \in KindsOf(request)
            /\ Encode(request, a) # NoAnswer
            => \E b \in frontier : Meaning(request, a) = Meaning(request, b)

\* Nothing the core would refuse is written: an accepted sum or tribute meets
\* the amount asked for, and in a threshold sum no selected or forced card of
\* it could be left out even at its highest value.
AmountsMet ==
  dpState = "answered" =>
    LET request == dpRequest[1]
        chosen == [i \in DOMAIN dpAction[1].sel |-> CandidateOf(request, dpAction[1].sel[i].id)]
        weights == [i \in DOMAIN chosen |-> chosen[i].weight]
    IN  /\ request.type = "select_tribute" => Total(weights) >= request.extra.low
        /\ request.type = "select_sum" =>
             LET params == request.extra.must \o weights
             IN  IF request.extra.mode = 0
                 THEN \E v \in Reachable(params) : v = request.extra.low
                 ELSE LET least == [i \in DOMAIN params |-> Least(SumOptions(params[i]))]
                      IN  \A i \in DOMAIN params : Total(RemoveAt(least, i)) < request.extra.low

\* Selections and answers correspond: different selections are written
\* differently, the frontier misses none it can express, and the amount asked
\* for is met by every answer that is written.
SelectionsExact == AnswersDistinct /\ FrontierComplete /\ AmountsMet

=============================================================================
