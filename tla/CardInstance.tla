---------------------------- MODULE CardInstance ----------------------------
(***************************************************************************)
(* engine/bridge/ocgcore/card_instance.py: the identity of cards across a  *)
(* duel.  The instrumented core scans all cards at every boundary; the     *)
(* logs of the scans since the last request reach CardInstanceTrackerV2 in *)
(* one batch.  A coordinate is <<controller, location, sequence>>, with a  *)
(* face-up flag beside it; a batch is a sequence of scans.                 *)
(***************************************************************************)
EXTENDS Integers, Sequences, FiniteSets

CONSTANTS
  CiCards,   \* card ids; the owner of a card and whether it is a token are
  CiOwner,   \* functions of the id (the core's authority fields)
  CiTokens,
  Spots,     \* where a card can be: [at |-> coordinate, faceup |-> BOOLEAN]
  CiScans,   \* bound: scans of a duel
  CiBatch    \* bound: scans in one batch

ASSUME CardsAssumption == IsFiniteSet(CiCards)

VARIABLES
  core,    \* external: where the cards are, the scans not yet delivered
  tracker, \* the CardInstanceTrackerV2
  seen     \* history: what each viewer really saw, scan by scan

ciVars == <<core, tracker, seen>>

Viewers == {0, 1}
Keys == Viewers \X CiCards
Gone == [at |-> <<9, 9, 9>>, faceup |-> FALSE]
DeckLoc == 1  HandLoc == 2  FieldLoc == 4  GraveLoc == 16
PublicLocations == {FieldLoc, GraveLoc}

On(place) == {c \in CiCards : place[c] # Gone}
Distinct(place) ==
  \A c, e \in On(place) : place[c].at = place[e].at => c = e

(* _is_visible: the owner always, the opponent a face-up card in public.   *)
Visible(c, spot, viewer) ==
  /\ spot # Gone
  /\ \/ CiOwner[c] = viewer
     \/ spot.at[2] \in PublicLocations /\ spot.faceup

CiInit ==
  /\ \E p \in [CiCards -> Spots \cup {Gone}] :
       /\ Distinct(p) /\ \A c \in CiCards : c \in CiTokens <=> p[c] = Gone
       /\ core = [place |-> p, scans |-> <<>>, emitted |-> 0,
                 used |-> On(p)]
  /\ tracker = [state |-> "ok", last |-> 0,
                latest |-> [c \in CiCards |-> Gone],
                current |-> [c \in CiCards |-> Gone],
                visible |-> [k \in Keys |-> FALSE],
                epoch |-> [k \in Keys |-> -1],
                moves |-> <<>>, synced |-> 0]
  /\ seen = [k \in Keys |-> [now |-> FALSE, epochs |-> 0]]

(***************************************************************************)
(* The core: a move and the scan its event triggers.                       *)
(***************************************************************************)
Sees(place) ==
  [k \in Keys |->
     LET v == Visible(k[2], place[k[2]], k[1])
     IN [now |-> v,
         epochs |-> seen[k].epochs + IF v /\ ~seen[k].now THEN 1 ELSE 0]]

CoreScan(place) ==
  /\ core' = [core EXCEPT !.place = place, !.emitted = @ + 1,
                          !.used = @ \cup On(place),
                          !.scans = Append(@, [id |-> core.emitted + 1,
                                               place |-> place])]
  /\ seen' = Sees(place)

CoreMove(c, spot) ==
  /\ tracker.state = "ok" /\ core.emitted < CiScans /\ Len(core.scans) < CiBatch
  /\ spot # core.place[c]
  /\ Distinct([core.place EXCEPT ![c] = spot])
  /\ spot = Gone => c \in CiTokens
  /\ core.place[c] = Gone => c \notin core.used
  /\ CoreScan([core.place EXCEPT ![c] = spot])
  /\ UNCHANGED tracker

(***************************************************************************)
(* consume: every scan of the batch updates the aliases, then the cards.   *)
(***************************************************************************)
(* _update_viewer_aliases: a card that becomes visible to a viewer gets a  *)
(* new epoch, the alias being the digest of instance, viewer and epoch.    *)
Aliases(t, place) ==
  LET vis(k) == Visible(k[2], place[k[2]], k[1])
  IN [t EXCEPT
        !.epoch = [k \in Keys |-> IF vis(k) /\ ~t.visible[k] THEN @[k] + 1
                                  ELSE @[k]],
        !.visible = [k \in Keys |-> vis(k)]]

(* _record_transition *)
MoveKind(c, before, after) ==
  CASE before = Gone -> "generated_token"
    [] before # Gone /\ before.at[1] # after.at[1] -> "control_change"
    [] before # Gone /\ before.at[1] = after.at[1]
         /\ before.at[2] = DeckLoc /\ after.at[2] = HandLoc ->
         "deck_to_hand_pending"
    [] before # Gone /\ before.at[1] = after.at[1]
         /\ before.at[2] = GraveLoc /\ after.at[2] = HandLoc -> "salvage"
    [] before # Gone /\ before.at[1] = after.at[1]
         /\ before.at[2] = after.at[2] -> "sequence_change"
    [] OTHER -> "location_move"

Transition(t, c, after, id) ==
  LET before == t.latest[c]
      quiet == \/ before = Gone /\ c \notin CiTokens
               \/ before # Gone /\ before.at = after.at
  IN IF quiet THEN t.moves
     ELSE Append(t.moves, [card |-> c, to |-> after.at, scan |-> id,
                           kind |-> MoveKind(c, before, after)])

ApplyCard(t, c, scan) ==
  IF scan.place[c] = Gone THEN t
  ELSE [t EXCEPT !.moves = Transition(t, c, scan.place[c], scan.id),
                 !.latest[c] = scan.place[c]]

(* mutant: coordinates of earlier scans are kept *)
CurrentMerged(t, place) ==
  [c \in CiCards |-> IF place[c] = Gone THEN t.current[c] ELSE place[c]]
CurrentPlaces(t, place) == place

ApplyScan(t, scan) ==
  LET order == CHOOSE s \in [1..Cardinality(CiCards) -> CiCards] :
                 \A c \in CiCards : \E i \in DOMAIN s : s[i] = c
      upto[n \in 0..Len(order)] ==
        IF n = 0 THEN Aliases(t, scan.place)
        ELSE LET prev == upto[n - 1] IN ApplyCard(prev, order[n], scan)
  IN [upto[Len(order)] EXCEPT !.current = CurrentPlaces(t, scan.place),
                              !.last = scan.id]

Consume(t, scans) ==
  LET upto[n \in 0..Len(scans)] ==
        IF n = 0 THEN t
        ELSE LET prev == upto[n - 1] IN ApplyScan(prev, scans[n])
  IN upto[Len(scans)]

(* The moves from deck to hand since the last request are draws when the   *)
(* batch has a draw message, searches otherwise.                           *)
ResolveMoves(t, draw) ==
  [t EXCEPT !.synced = Len(t.moves),
     !.moves = [i \in 1..Len(t.moves) |->
        IF i > t.synced /\ @[i].kind = "deck_to_hand_pending"
        THEN [@[i] EXCEPT !.kind = IF draw THEN "draw" ELSE "search"]
        ELSE @[i]]]

(* synchronize_request at a request boundary: the session scans once more  *)
(* (capture_card_instance_scan), the batch is consumed, pending moves are  *)
(* resolved and the candidates get the instance at their coordinate.  A    *)
(* broken batch (a lost END, a gap in the numbering) raises before any     *)
(* update.                                                                 *)
Synchronize(draw) ==
  LET scan == [id |-> core.emitted + 1, place |-> core.place]
      t == Consume(tracker, Append(core.scans, scan))
  IN /\ tracker.state = "ok" /\ core.emitted < CiScans
     /\ tracker' = ResolveMoves(t, draw)
     /\ core' = [core EXCEPT !.scans = <<>>, !.emitted = @ + 1]
     /\ seen' = Sees(core.place)

BrokenBatch ==
  /\ tracker.state = "ok" /\ core.scans # <<>>
  /\ tracker' = [tracker EXCEPT !.state = "raised"]
  /\ core' = [core EXCEPT !.scans = <<>>]
  /\ UNCHANGED seen

(* _decode_batch of a terminal batch: no request, so no scan of its own    *)
(* and no look at the messages; a pending move keeps its kind.             *)
EndDuel ==
  /\ tracker.state = "ok"
  /\ tracker' = [Consume(tracker, core.scans) EXCEPT !.state = "ended"]
  /\ core' = [core EXCEPT !.scans = <<>>]
  /\ UNCHANGED seen

CiNext ==
  \/ \E c \in CiCards, spot \in Spots \cup {Gone} : CoreMove(c, spot)
  \/ \E draw \in BOOLEAN : Synchronize(draw)
  \/ BrokenBatch
  \/ EndDuel

CiSpec == CiInit /\ [][CiNext]_ciVars

(* _resolve: the card a candidate's coordinate names.                      *)
InstanceAt(t, at) == {c \in CiCards : t.current[c] # Gone
                                       /\ t.current[c].at = at}

(* enrich_snapshot: the card at a coordinate of the snapshot, from the last *)
(* scan or else the only one last seen there, and the viewers that find    *)
(* their own alias on it.                                                  *)
Enriched(t, at) ==
  LET known == {c \in CiCards : t.latest[c] # Gone /\ t.latest[c].at = at}
      found == IF InstanceAt(t, at) # {} THEN InstanceAt(t, at)
               ELSE IF Cardinality(known) = 1 THEN known ELSE {}
  IN {[card |-> c, aliases |-> {v \in Viewers : t.visible[<<v, c>>]}] : c \in found}

Synchronized == tracker.state \in {"ok", "ended"} /\ core.scans = <<>>
                  /\ tracker.last = core.emitted /\ core.emitted > 0

(***************************************************************************)
(* Properties                                                              *)
(***************************************************************************)
(* At a request and at the end every coordinate of the core resolves to    *)
(* the card that is there, however many moves the batch replayed, the last *)
(* known place of a card on the field is its place, and the snapshot shows *)
(* each viewer an alias of exactly the cards it sees.                      *)
IdentityExact ==
  Synchronized =>
    /\ \A c \in On(core.place) :
         /\ InstanceAt(tracker, core.place[c].at) = {c}
         /\ Enriched(tracker, core.place[c].at) =
              {[card |-> c, aliases |-> {v \in Viewers : Visible(c, core.place[c], v)}]}
         /\ tracker.latest[c] = core.place[c]
    /\ \A c \in CiCards \ On(core.place) : tracker.current[c] = Gone

(* docs: viewer_scoped_new_alias_after_knowledge_loss -- at a request a    *)
(* viewer has an alias exactly for what it sees, and it is a new one       *)
(* exactly as often as the card came into its view.                        *)
AliasAfterLoss ==
  Synchronized =>
    \A k \in Keys :
      /\ tracker.visible[k] = seen[k].now
      /\ tracker.epoch[k] + 1 = seen[k].epochs

(* The recorded movements lead to where the cards are: at a request the    *)
(* last movement of a card ends at its coordinate, and none is left        *)
(* pending while the duel goes on.                                         *)
MovesReachPlace ==
  Synchronized =>
    \A c \in On(core.place) :
      LET mine == {i \in 1..Len(tracker.moves) : tracker.moves[i].card = c}
      IN /\ \A i \in mine : tracker.moves[i].kind = "deck_to_hand_pending" =>
              tracker.state = "ended" /\ i > tracker.synced
         /\ \A i \in mine : (\A j \in mine : j <= i) =>
              tracker.moves[i].to = core.place[c].at

(* What a movement was called is settled by its own request batch and not  *)
(* renamed by a later one.                                                 *)
MovesKept ==
  /\ Len(tracker'.moves) >= Len(tracker.moves)
  /\ \A i \in 1..Len(tracker.moves) : tracker'.moves[i] = tracker.moves[i]

(* Every card is followed through its batch: identity, last place and      *)
(* movements agree with the core at each request, a viewer that lost sight *)
(* of a card meets a new alias, and no movement is renamed later.          *)
CardsFollowed ==
  [][/\ IdentityExact'
     /\ AliasAfterLoss'
     /\ MovesReachPlace'
     /\ MovesKept]_ciVars

=============================================================================
