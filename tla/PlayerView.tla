----------------------------- MODULE PlayerView -----------------------------
(***************************************************************************)
(* What a player is told.  A complete snapshot is projected into the view  *)
(* of one player: as a visible snapshot for the search, as an observation  *)
(* of a player-view replay, as a board summary for the evaluators.  The    *)
(* replay is audited against canaries before it leaves the private side.   *)
(* Two worlds run side by side: the same cards lie in the same places, but *)
(* the cards the viewer has not been entitled to see may carry other codes *)
(* and the opponent may have been offered and have done other things.      *)
(***************************************************************************)
EXTENDS Integers, FiniteSets, FiniteSetsExt, Sequences

CONSTANTS
  ViewCards,      \* the cards of the duel
  CardCodes,      \* the printed cards
  RealCode,       \* the code of each card in the first world
  OtherCodes,     \* the codes they may have in the second
  FirstLayout,    \* where the cards lie at first
  MaxViewSteps,   \* bound: events of the route
  MaxViewRetries, \* max_retries of the adapter
  SampleWeights   \* weight vectors of an opening-hand distribution

VARIABLES
  pvViewer, pvCodes,  \* who looks; the codes in the second world
  pvLayout,           \* per card [ctrl, loc, up, public, flag]
  pvKnown,            \* cards the viewer was entitled to see; cards seen on the chain
  pvSame,             \* the two worlds' documents are equal so far
  pvShown,            \* codes in the first world's document
  pvCanary,           \* codes seen hidden and seen visible by the registry
  pvStep, pvCall      \* events so far; the adapter's attempts and outcome

pvVars == <<pvViewer, pvCodes, pvLayout, pvKnown, pvSame, pvShown, pvCanary, pvStep, pvCall>>

Locations == {"deck", "hand", "monster_zone", "spell_trap_zone", "graveyard", "banished", "extra_deck"}
FieldZones == {"monster_zone", "spell_trap_zone"}
KindsOffered == {"PASS", "ACTIVATE_EFFECT"}

\* What the core may report of a card: face, public (an effect may reveal a
\* hand) and the is_hidden flag, which only a face-down card can carry.
Places ==
  {p \in [ctrl : {0, 1}, loc : Locations, up : BOOLEAN, public : BOOLEAN, flag : BOOLEAN] :
     /\ p.loc \in {"deck", "hand"} => ~p.up
     /\ p.loc = "graveyard" => p.up
     /\ IF p.loc = "hand" THEN TRUE ELSE p.public = p.up
     /\ p.flag => ~p.up /\ p.loc \in FieldZones \cup {"banished"}}

\* The cards lie somewhere at first; a weight is a positive integer.
ASSUME PlayerViewAssumption ==
  /\ FirstLayout \in [ViewCards -> Places]
  /\ SampleWeights \subseteq Seq(Nat \ {0})

\* The position the core reports; 10 is face-down in attack and defense.
Position(p) == IF p.loc \in {"deck", "hand", "extra_deck"} THEN 10 ELSE IF p.up THEN 1 ELSE 8
FaceDown(p) == Position(p) \in {2, 8, 10}

\* Reference: what the rules of the game let a player see of a card.
Entitled(p, viewer) ==
  /\ p.loc # "deck"
  /\ p.ctrl = viewer \/ p.up \/ p.public

-----------------------------------------------------------------------------
(* project_visible and build_board_summary.                                *)

VisibleTo(p, viewer) == ~p.flag /\ p.loc # "deck" /\ (p.ctrl = viewer \/ p.public)

\* Per card its slot and, when it is visible, its code.
ProjectVisible(layout, code, viewer) ==
  [c \in ViewCards |-> IF VisibleTo(layout[c], viewer) THEN code[c] ELSE 0]

ZoneCount(layout, player, loc) ==
  Cardinality({c \in ViewCards : layout[c].ctrl = player /\ layout[c].loc = loc})

\* Listed are the visible cards of player 0's summary, counted are all.
BoardSummary(layout) ==
  [cards |-> {[card |-> c, loc |-> layout[c].loc, position |-> Position(layout[c])] :
                c \in {d \in ViewCards : VisibleTo(layout[d], 0)}},
   counts |-> [player \in {0, 1} |-> [loc \in Locations |-> ZoneCount(layout, player, loc)]]]

\* The evaluators weigh counts only: the board of player 0 built up, and the
\* board of player 1 broken.
BoardCount(n) == 10 * n[0]["monster_zone"] + n[0]["hand"]
BoardBreak(n) ==
  n[0]["hand"] + 4 * n[0]["monster_zone"] + 3 * n[1]["banished"]
  - n[1]["graveyard"] - 10 * n[1]["monster_zone"] - 6 * n[1]["spell_trap_zone"]
EvaluateCards(layout, code) == SumSet({code[c] : c \in {d \in ViewCards : VisibleTo(layout[d], 0)}})
Evaluate(layout, code) ==
  LET n == BoardSummary(layout).counts
  IN  <<BoardCount(n), BoardBreak(n)>>

\* build_terminal_board_projection accepts the locations and positions it names:
\* whether a terminal preference profile can score the board at all.
TerminalPositions == {0, 1, 2, 4, 8}
ProjectsTerminal(summary) ==
  \A card \in summary.cards :
    /\ card.loc \in Locations \ {"deck", "extra_deck"}
    /\ card.position \in TerminalPositions

-----------------------------------------------------------------------------
(* The player-view replay.                                                 *)

\* Zones of which only the count is kept, and hidden cards elsewhere.
CountOnly(p, viewer) ==
  p.loc = "deck" \/ (p.ctrl # viewer /\ p.loc \in {"hand", "extra_deck"})
IsHidden(p) == p.flag \/ FaceDown(p)
ShowsCard(p, viewer) == ~CountOnly(p, viewer) /\ ~(p.ctrl # viewer /\ IsHidden(p))

\* Field cards keep their slot, piles are sorted by content: a bag of codes.
ProjectObservation(layout, code, viewer, request) ==
  [counts |-> [p \in {0, 1} |-> [loc \in Locations |-> ZoneCount(layout, p, loc)]],
   field |-> [c \in {d \in ViewCards : layout[d].loc \in FieldZones} |->
                [place |-> [ctrl |-> layout[c].ctrl, loc |-> layout[c].loc, position |-> Position(layout[c])],
                 code |-> IF ShowsCard(layout[c], viewer) THEN code[c] ELSE 0]],
   piles |-> [p \in {0, 1} |-> [loc \in Locations \ FieldZones |-> [k \in CardCodes |->
                Cardinality({c \in ViewCards : layout[c].ctrl = p /\ layout[c].loc = loc
                               /\ ShowsCard(layout[c], viewer) /\ code[c] = k})]]],
   request |-> IF request.player = viewer THEN request.kinds ELSE {}]

\* The event between two observations; the opponent's answer keeps no kind.
ProjectEvent(viewer, actor, kind) ==
  [actor |-> actor, action |-> IF actor = viewer THEN kind ELSE "OPPONENT_ACTION",
   submitted |-> actor = viewer]

\* The document grows by the event, the observation, the codes of the chain's
\* handlers and, at the end of the route, the result.
ProjectStep(layout, code, viewer, event, request, handlers) ==
  [event |-> ProjectEvent(viewer, event.actor, event.kind),
   observation |-> ProjectObservation(layout, code, viewer, request),
   chain |-> {code[c] : c \in handlers},
   result |-> <<Evaluate(layout, code), ProjectsTerminal(BoardSummary(layout))>>]

\* build_player_view_canary_registry: a hidden code that was visible nowhere.
CardHidden(p, viewer) ==
  \/ p.loc = "deck"
  \/ p.ctrl # viewer /\ (p.loc \in {"hand", "extra_deck"} \/ IsHidden(p))
Canaries == pvCanary.hidden \ pvCanary.visible

\* audit_information_artifact finds every canary among the document's values.
AuditPasses == Canaries \cap pvShown = {}

-----------------------------------------------------------------------------
(* Information policy: decide, and the sampler of opening hands.           *)

\* The kind of private information that a card's code is.
InformationField(p) ==
  CASE p.loc = "deck" -> "deck_order"
    [] p.loc = "hand" -> "hand_identity"
    [] p.loc = "extra_deck" -> "private_extra_deck"
    [] OTHER -> IF IsHidden(p) THEN "set_card_identity" ELSE "public_state"

DecideAccess(field, owner, viewer, deckOrder) ==
  CASE field = "public_state" -> "allowed"
    [] field = "deck_order" /\ deckOrder = "unknown" -> "denied_unknown_deck_order"
    [] OTHER -> IF owner = viewer THEN "allowed" ELSE "denied_private_owner"

\* build_opening_hand_sampling_evidence walks the weights with one draw.
Cumulative(weights) ==
  LET upTo[i \in 0..Len(weights)] == IF i = 0 THEN 0 ELSE upTo[i - 1] + weights[i]
  IN  upTo
SelectedIndex(weights, draw) ==
  CHOOSE i \in DOMAIN weights :
    /\ draw < Cumulative(weights)[i]
    /\ \A k \in 1..i - 1 : draw >= Cumulative(weights)[k]

-----------------------------------------------------------------------------
\* Take a snapshot in both worlds after an event.
Observe(layout, event, otherKind, request, otherOffer, handlers) ==
  LET mine == ProjectStep(layout, RealCode, pvViewer, event, request, handlers)
      other == ProjectStep(layout, pvCodes, pvViewer, [event EXCEPT !.kind = otherKind],
                           [request EXCEPT !.kinds = otherOffer], handlers)
      now(hidden) == {RealCode[c] : c \in {d \in ViewCards : CardHidden(layout[d], pvViewer) = hidden}}
  IN  /\ pvKnown' = [seen |-> pvKnown.seen \cup {c \in ViewCards : Entitled(layout[c], pvViewer)},
                     chained |-> pvKnown.chained \cup handlers]
      /\ pvSame' = (pvSame /\ mine = other
                    /\ ProjectVisible(layout, RealCode, pvViewer) = ProjectVisible(layout, pvCodes, pvViewer))
      /\ pvShown' = pvShown \cup mine.chain
                     \cup {RealCode[c] : c \in {d \in ViewCards : ShowsCard(layout[d], pvViewer)}}
      /\ pvCanary' = [hidden |-> pvCanary.hidden \cup now(TRUE), visible |-> pvCanary.visible \cup now(FALSE)]

PvInit ==
  /\ pvViewer \in {0, 1}
  /\ pvCodes \in OtherCodes
  /\ pvLayout = FirstLayout
  /\ pvKnown = [seen |-> {}, chained |-> {}] /\ pvSame = TRUE /\ pvShown = {}
  /\ pvCanary = [hidden |-> {}, visible |-> {}]
  /\ pvStep = 0 /\ pvCall = [attempts |-> 0, outcome |-> ""]

\* One event of the route: a card moves, perhaps its effect is on the chain,
\* and the actor is asked again; the opponent did and was offered something
\* else in the second world.
PvEvent ==
  /\ pvStep < MaxViewSteps /\ pvCall.attempts = 0
  /\ \E c \in ViewCards, p \in Places, actor \in {0, 1} : \E handlers \in {{}, {c}} :
       /\ pvLayout' = [pvLayout EXCEPT ![c] = p]
       /\ \A d \in handlers : p.loc # "deck"
       /\ LET mine == actor = pvViewer
          IN  Observe(pvLayout', [actor |-> actor, kind |-> "PASS"], IF mine THEN "PASS" ELSE "ACTIVATE_EFFECT",
                      [player |-> actor, kinds |-> KindsOffered], IF mine THEN KindsOffered ELSE {"PASS"}, handlers)
  /\ pvStep' = pvStep + 1
  /\ UNCHANGED <<pvViewer, pvCodes, pvCall>>

\* The adapter asks a worker for the projection: a timeout, an operating
\* system error, a failed process or an unreadable answer is retried, an
\* answer that does not fit together is refused for good, and an answer that
\* does is accepted when the audit, repeated here, passes.
PvInvoke ==
  /\ pvStep > 0 /\ pvCall.outcome = ""
  /\ \E answer \in {"retryable", "incoherent", "document"} :
       pvCall' = [attempts |-> pvCall.attempts + 1,
                  outcome |-> CASE answer = "retryable" ->
                                     IF pvCall.attempts < MaxViewRetries THEN "" ELSE "failed"
                                [] answer = "incoherent" -> "worker_protocol"
                                [] OTHER -> IF AuditPasses THEN "accepted" ELSE "leak_error"]
  /\ UNCHANGED <<pvViewer, pvCodes, pvLayout, pvKnown, pvSame, pvShown, pvCanary, pvStep>>

PvNext == PvEvent \/ PvInvoke
PvSpec == PvInit /\ [][PvNext]_pvVars

-----------------------------------------------------------------------------
\* Two routes the viewer could never tell apart have the same player-view
\* replay and the same visible snapshots: no code, order, answer, offer or
\* score of the hidden side reaches the document.
ViewsAgree == (\A c \in pvKnown.seen \cup pvKnown.chained : pvCodes[c] = RealCode[c]) => pvSame

\* A view the adapter accepts names no code that only the opponent's hidden
\* cards or a deck carried, not even the handler of a chain link.
AcceptedShowsNothing ==
  pvCall.outcome = "accepted" => pvShown \subseteq {RealCode[c] : c \in pvKnown.seen}

\* The access policy and the projection draw one line: a card's code is shown
\* exactly when the policy of the same player allows it, decks never.
PolicyMatchesView ==
  \A c \in ViewCards : \A order \in {"known", "unknown"} :
    LET p == pvLayout[c]
    IN  ShowsCard(p, pvViewer) <=>
          (p.loc # "deck" /\ DecideAccess(InformationField(p), p.ctrl, pvViewer, order) = "allowed")

\* Over all draws the sampler picks each hand as often as its weight says.
SamplingProportional ==
  pvStep = 0 => \A w \in SampleWeights : \A i \in DOMAIN w :
    LET total == Cumulative(w)[Len(w)]
    IN  Cardinality({d \in 0..total - 1 : SelectedIndex(w, d) = i}) = w[i]

\* Projection, audit, access policy and sampler draw one line between what a
\* player may know and what is hidden, for every layout of the cards.
HiddenStaysHidden ==
  /\ ViewsAgree
  /\ AcceptedShowsNothing
  /\ PolicyMatchesView
  /\ SamplingProportional

=============================================================================
