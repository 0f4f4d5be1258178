------------------------ MODULE InterruptionFrontier ------------------------
(***************************************************************************)
(* Specified interruptions in a search: engine/interruption/composition.py *)
(* (definitions, opportunities, limits), engine/interruption/taxonomy.py   *)
(* (which offered candidates are supported) and the two places of          *)
(* prototype/real_core.py that use them, the frontier document of a prefix *)
(* and the interruption trace of the finished Route.                       *)
(*                                                                         *)
(* The core is external: it opens chain windows, main-phase requests and,  *)
(* right after an activation, the requests that activation asks for.  A    *)
(* card reference is [code, player, loc, seq] with the core's location     *)
(* numbers; a candidate is a card reference and the index of its effect.   *)
(***************************************************************************)
EXTENDS Integers, Sequences, FiniteSets

CONSTANTS
  Interruptions,  \* the lists of raw definitions an Experiment may carry
  ChainWindows,   \* the chain windows of the core: [cands, forced, markers]
  IdleWindows,    \* the sets of activations it may offer in a main phase
  Asks,           \* Asks[code]: the requests an activation of the card brings
  MaxPrefix       \* bound: actions of a prefix

(* The core asks about the cards it offers, and an Experiment names the    *)
(* roles of a card as the core asks for them.                              *)
ASSUME CoreAssumption ==
  /\ \A code \in DOMAIN Asks : \A n \in 1..Len(Asks[code]) :
       Asks[code][n].type \notin {"none", "select_chain", "select_idle_cmd"}
  /\ \A code \in DOMAIN Asks : Asks[code] \in Seq({Asks[code][n] : n \in DOMAIN Asks[code]})
  /\ \A cs \in {w.cands : w \in ChainWindows} \cup IdleWindows :
       \A c \in cs : c.ref.code \in DOMAIN Asks
  /\ \A defs \in Interruptions :
       /\ defs \in Seq({defs[i] : i \in DOMAIN defs})
       /\ \A i \in 1..Len(defs) : LET d == defs[i] IN
            /\ d.max \in Nat /\ d.code \in DOMAIN Asks
            /\ Len(d.roles) = Len(Asks[d.code])
            /\ \A n \in 1..Len(d.roles) : d.roles[n] = Asks[d.code][n].role

VARIABLES
  definitions, \* interruption["definitions"] of the Experiment
  request,     \* the pending request of the core
  asks,        \* external: the requests the last activation still brings
  prefix,      \* action_prefix, each action with its request_signature
  frontier,    \* the frontier document of the prefix
  taken        \* history: the opportunities chosen so far, with their replies

ifVars == <<definitions, request, asks, prefix, frontier, taken>>

NoRequest == [type |-> "none", cands |-> {}, forced |-> FALSE,
              markers |-> {}, role |-> "", max |-> 0]

(***************************************************************************)
(* Definitions and their validation.                                       *)
(***************************************************************************)
DefinitionIds(defs) == {defs[i].id : i \in 1..Len(defs)}
Definition(defs, id) == CHOOSE d \in {defs[i] : i \in 1..Len(defs)} : d.id = id

Priority(defs, i) ==
  IF defs[i].priority = <<>> THEN i - 1 ELSE defs[i].priority[1]

Authority(d) == <<d.code, d.player, d.zone, d.loc, d.seq>>

(* validate_multi_interruption_composition and the Experiment schema: the  *)
(* authorities must differ, which does not make them disjoint.             *)
Valid(defs) ==
  /\ \A i, j \in 1..Len(defs) :
       i # j => /\ defs[i].id # defs[j].id
                /\ Priority(defs, i) # Priority(defs, j)
                /\ Authority(defs[i]) # Authority(defs[j])
  /\ \A i \in 1..Len(defs) :
       /\ Len(defs) > 1 => defs[i].priority # <<>>
       /\ defs[i].max >= 1
       /\ defs[i].zone = "field" => defs[i].loc \in {<<4>>, <<8>>}

(* _candidate_card_ref names the locations it knows.                       *)
LocationName(loc) ==
  CASE loc = 2 -> "hand" [] loc = 4 -> "monster_zone" [] loc = 8 -> "core_8"
    [] loc = 16 -> "graveyard"

SourceMatches(d, ref) ==
  /\ ref.code = d.code /\ ref.player = d.player
  /\ IF d.zone = "hand" THEN LocationName(ref.loc) = "hand"
     ELSE LocationName(ref.loc) \in {"monster_zone", "core_8"}
  /\ d.loc # <<>> => ref.loc = d.loc[1]
  /\ d.seq # <<>> => ref.seq = d.seq[1]

Matches(defs, ref) ==
  {defs[i].id : i \in {k \in 1..Len(defs) : SourceMatches(defs[k], ref)}}

(* resolve_multi_interruption_definition: none, one, or an error.          *)
Resolve(defs, ref) ==
  IF Cardinality(Matches(defs, ref)) > 1
  THEN [code |-> "ambiguous_definition_match", ids |-> {}]
  ELSE [code |-> "ok", ids |-> Matches(defs, ref)]

(***************************************************************************)
(* Prefixes.                                                               *)
(***************************************************************************)
Signature(r) == <<r.type, r.cands, r.markers, r.role>>
Activations(p) == {i \in 1..Len(p) : p[i].kind = "activate_effect"}
RefAt(p, i) == p[i].cand.ref

ActivationsOf(defs, p, id) ==
  {i \in Activations(p) : Resolve(defs, RefAt(p, i)).ids = {id}}

(* _activation_counts walks the prefix and stops at its first error.       *)
CountError(defs, p) ==
  LET ambiguous == {i \in Activations(p) : Resolve(defs, RefAt(p, i)).code # "ok"}
      exceeded == {i \in Activations(p) :
        \E id \in Resolve(defs, RefAt(p, i)).ids :
          Cardinality({k \in ActivationsOf(defs, p, id) : k <= i})
            > Definition(defs, id).max}
      errors == ambiguous \cup exceeded
      first == CHOOSE i \in errors : \A k \in errors : i <= k
  IN IF errors = {} THEN "ok"
     ELSE IF first \in ambiguous THEN "ambiguous_definition_match"
     ELSE "activation_limit_exceeded"

Count(defs, p, id) == Cardinality(ActivationsOf(defs, p, id))

(* Why an activation is not offered: its definition is used up.            *)
UsedUp(defs, p, id) == Count(defs, p, id) >= Definition(defs, id).max

ActionIds(p) == [i \in 1..Len(p) |-> <<p[i].kind, p[i].cand, p[i].sig>>]

(* MultiInterruptionOpportunity and its identity.                          *)
Opportunity(id, occurrence, sig, cand, ids) ==
  [definition |-> id, occurrence |-> occurrence, sig |-> sig, cand |-> cand,
   prefix |-> ids]

(***************************************************************************)
(* Taxonomy: classify_interruption_candidates.                             *)
(***************************************************************************)
SourceZone(loc) == CASE loc = 2 -> "hand" [] loc \in {4, 8} -> "field"
                     [] OTHER -> "unsupported"

Categories(r) == IF r.markers = {} THEN {"standard"} ELSE r.markers

ImpliedRole(r) ==
  CASE r.type = "select_chain" -> <<"activation">>
    [] r.type = "select_option" -> <<"option">>
    [] OTHER -> <<>>

Outcome(status, code, ids) == [status |-> status, code |-> code, ids |-> ids]

(* Every candidate of an activation request is read, whoever it belongs    *)
(* to: one outside hand and field makes the whole request unsupported.     *)
ClassifyCandidates(r, d, role, expected) ==
  LET zoned == {c \in r.cands : SourceZone(c.ref.loc) # "unsupported"}
      selected == IF role = "activation"
                  THEN {c \in zoned : /\ c.ref.code = d.code
                                      /\ c.ref.player = d.player
                                      /\ SourceZone(c.ref.loc) = d.zone}
                  ELSE r.cands
      kept == IF expected = {} THEN selected ELSE selected \cap expected
  IN IF ImpliedRole(r) \notin {<<>>, <<role>>}
     THEN Outcome("configuration_failure", "ambiguous_candidate_role", {})
     ELSE IF ~(Categories(r) \subseteq d.verified)
     THEN Outcome("unsupported", "unverified_fixture_category", {})
     ELSE IF role = "activation" /\ zoned # r.cands
     THEN Outcome("unsupported", "unsupported_source_zone", {})
     ELSE IF ~(expected \subseteq selected) \/ kept = {}
     THEN Outcome("path_failure", "candidate_disappeared", {})
     ELSE IF role = "target" /\ r.max = 0
     THEN Outcome("configuration_failure", "unknown_candidate_shape", {})
     ELSE Outcome("supported", "", kept)

(***************************************************************************)
(* The frontier document of a prefix (_frontier_document).                 *)
(***************************************************************************)
FrontierFailed(code, path) ==
  [code |-> code, path |-> path, actions |-> {}, opportunities |-> {},
   supported |-> {}, role |-> ""]

Published(actions, opportunities, supported, role) ==
  [code |-> "ok", path |-> FALSE, actions |-> actions,
   opportunities |-> opportunities, supported |-> supported, role |-> role]

NoCand == [ref |-> [code |-> 0, player |-> 0, loc |-> 2, seq |-> 0], effect |-> 0]
Pass(r) == [kind |-> "pass", cand |-> NoCand, sig |-> Signature(r)]
Take(r, c) == [kind |-> "activate_effect", cand |-> c, sig |-> Signature(r)]
Reply(r, c) == [kind |-> "select", cand |-> c, sig |-> Signature(r)]

(* build_multi_interruption_frontier: the shared PASS and one opportunity  *)
(* for each candidate of a definition that is not used up.                 *)
Opportunities(defs, r, p) ==
  {Opportunity(x[2], Count(defs, p, x[2]) + 1, Signature(r), x[1], ActionIds(p)) :
     x \in {y \in r.cands \X DefinitionIds(defs) :
             /\ Resolve(defs, y[1].ref).ids = {y[2]}
             /\ ~UsedUp(defs, p, y[2])}}

ChainFrontier(defs, r, p) ==
  LET opps == Opportunities(defs, r, p)
      offered(id) == {o.cand : o \in {q \in opps : q.definition = id}}
      outcome(i) == ClassifyCandidates(r, defs[i], "activation", offered(defs[i].id))
      asked == {i \in 1..Len(defs) : offered(defs[i].id) # {}}
      bad == {i \in asked : outcome(i).status # "supported"}
      first == CHOOSE i \in bad : \A k \in bad : i <= k
  IN IF r.forced THEN FrontierFailed("shared_pass_shape_mismatch", TRUE)
     ELSE IF CountError(defs, p) # "ok"
     THEN FrontierFailed(CountError(defs, p),
                 CountError(defs, p) = "activation_limit_exceeded")
     ELSE IF \E c \in r.cands : Resolve(defs, c.ref).code # "ok"
     THEN FrontierFailed("ambiguous_definition_match", FALSE)
     ELSE IF bad # {}
     THEN FrontierFailed("unsupported_activation_taxonomy",
                 outcome(first).status = "path_failure")
     ELSE Published({Pass(r)} \cup {Take(r, o.cand) : o \in opps}, opps,
                    UNION {{<<defs[i].id, c>> : c \in outcome(i).ids} :
                           i \in asked}, "")

ResponseIndexLate(p, at) == Len(p) - at + 1

(* Which response a request after an activation answers: its distance from *)
(* the last activation that resolves to a definition.                      *)
ResponseIndex(p, at) == Len(p) - at
OtherFrontier(defs, r, p) ==
  LET matched == {i \in Activations(p) : Matches(defs, RefAt(p, i)) # {}}
      at == CHOOSE i \in matched : \A k \in matched : k <= i
      d == Definition(defs, CHOOSE id \in Resolve(defs, RefAt(p, at)).ids : TRUE)
      index == ResponseIndex(p, at)
      actions == IF r.type = "select_idle_cmd"
                 THEN {Take(r, c) : c \in r.cands} \cup {Pass(r)}
                 ELSE {Reply(r, c) : c \in r.cands}
      outcome == ClassifyCandidates(r, d, d.roles[index + 1], {})
  IN IF matched # {} /\ Resolve(defs, RefAt(p, at)).code # "ok"
     THEN FrontierFailed("ambiguous_definition_match", FALSE)
     ELSE IF matched = {} \/ index >= Len(d.roles)
     THEN Published(actions, {}, {}, "")
     ELSE IF outcome.status = "supported"
     THEN Published(actions, {}, {}, d.roles[index + 1])
     ELSE FrontierFailed("unsupported_response_taxonomy",
                 outcome.status = "path_failure")

FrontierDocument(defs, r, p) ==
  IF r.type = "select_chain" THEN ChainFrontier(defs, r, p)
  ELSE OtherFrontier(defs, r, p)

(***************************************************************************)
(* The trace of a Route (_specified_interruption_trace): one record for    *)
(* each activation that resolves, its replies the actions that follow it.  *)
(***************************************************************************)
TraceRecord(defs, p, i, id) ==
  LET before == SubSeq(p, 1, i - 1)
      roles == Definition(defs, id).roles
  IN [opportunity |-> Opportunity(id, Count(defs, before, id) + 1, p[i].sig,
                                  p[i].cand, ActionIds(before)),
      replies |-> [n \in 1..Len(roles) |-> p[i + n]]]

Resolved(defs, p) ==
  {x \in Activations(p) \X DefinitionIds(defs) : Resolve(defs, RefAt(p, x[1])).ids = {x[2]}}

(* A definition whose replies are missing at the end is an error.          *)
Traceable(defs, p) ==
  /\ \A i \in Activations(p) : Resolve(defs, RefAt(p, i)).code = "ok"
  /\ \A x \in Resolved(defs, p) :
       x[1] + Len(Definition(defs, x[2]).roles) <= Len(p)

Trace(defs, p) ==
  {TraceRecord(defs, p, x[1], x[2]) : x \in Resolved(defs, p)}

(***************************************************************************)
(* Behaviour: the core asks, the frontier is built, the search chooses.    *)
(***************************************************************************)
IfInit ==
  /\ definitions \in {d \in Interruptions : Valid(d)}
  /\ request = NoRequest /\ asks = <<>> /\ prefix = <<>> /\ taken = <<>>
  /\ frontier = Published({}, {}, {}, "")

Ready == request = NoRequest /\ frontier.code = "ok" /\ Len(prefix) < MaxPrefix

Present(r) ==
  /\ request' = r
  /\ frontier' = FrontierDocument(definitions, r, prefix)
  /\ UNCHANGED <<definitions, prefix, taken>>

(* external: a chain window; a forced one has no PASS.                     *)
CoreChain ==
  /\ Ready /\ asks = <<>>
  /\ \E w \in ChainWindows :
       Present([NoRequest EXCEPT !.type = "select_chain", !.cands = w.cands,
                                 !.forced = w.forced, !.markers = w.markers])
  /\ UNCHANGED asks

(* external: a main-phase request; not filtered by the definitions.        *)
CoreIdle ==
  /\ Ready /\ asks = <<>>
  /\ \E cs \in IdleWindows :
       Present([NoRequest EXCEPT !.type = "select_idle_cmd", !.cands = cs])
  /\ UNCHANGED asks

(* external: the next request of the activation under way.                 *)
CoreAsk ==
  /\ Ready /\ asks # <<>>
  /\ Present([NoRequest EXCEPT !.type = Head(asks).type, !.max = 1,
                               !.cands = Head(asks).cands,
                               !.role = Head(asks).role])
  /\ asks' = Tail(asks)

(* The search extends the prefix by an offered action.                     *)
ChooseAction ==
  /\ request # NoRequest /\ frontier.code = "ok"
  /\ \E a \in frontier.actions :
       /\ prefix' = Append(prefix, a)
       /\ asks' = IF a.kind = "activate_effect"
                  THEN Asks[a.cand.ref.code] ELSE asks
       /\ taken' =
            CASE a.kind = "activate_effect" ->
                   Append(taken, [offers |-> {o \in frontier.opportunities :
                                                o.cand = a.cand},
                                  replies |-> <<>>])
              [] a.kind = "select" ->
                   [taken EXCEPT ![Len(taken)].replies = Append(@, a)]
              [] OTHER -> taken
  /\ request' = NoRequest
  /\ UNCHANGED <<definitions, frontier>>

IfNext == CoreChain \/ CoreIdle \/ CoreAsk \/ ChooseAction
IfSpec == IfInit /\ [][IfNext]_ifVars

(***************************************************************************)
(* Properties.                                                             *)
(***************************************************************************)
FromIdle(p, i) == p[i].sig[1] = "select_idle_cmd"

(* Along a prefix grown through the offered frontiers a definition is      *)
(* never activated beyond max_activations, unless a main-phase request,    *)
(* which the composition does not filter, activated its source.            *)
LimitsKept ==
  \A id \in DefinitionIds(definitions) :
    \/ Count(definitions, prefix, id) <= Definition(definitions, id).max
    \/ \E i \in ActivationsOf(definitions, prefix, id) : FromIdle(prefix, i)

(* The trace recomputed from a finished Route names exactly the            *)
(* opportunities the search was offered and took in chain windows, with    *)
(* their occurrence index and prefix.                                      *)
TraceMatchesOffers ==
  (request = NoRequest /\ asks = <<>> /\ Traceable(definitions, prefix)) =>
    {r.opportunity : r \in {q \in Trace(definitions, prefix) :
                              q.opportunity.sig[1] = "select_chain"}}
      = UNION {taken[i].offers : i \in 1..Len(taken)}

(* A response is attributed to the activation that asked for it: the role  *)
(* bound to a request is the role the core asks for, no other request is   *)
(* bound to a role, and the trace records the replies of that activation.  *)
ResponsesOwned ==
  /\ (/\ request # NoRequest /\ frontier.code = "ok"
      /\ taken # <<>> /\ taken[Len(taken)].offers # {})
     => frontier.role = request.role
  /\ (request = NoRequest /\ asks = <<>> /\ Traceable(definitions, prefix)) =>
       \A r \in Trace(definitions, prefix) :
         \E i \in 1..Len(taken) :
           \/ r.opportunity \in taken[i].offers /\ r.replies = taken[i].replies
           \/ r.opportunity.sig[1] = "select_idle_cmd"

(* Overlapping definitions pass validation; a candidate that matches two   *)
(* of them is then never offered and never attributed to one of them.      *)
AmbiguityFailsClosed ==
  /\ \A o \in frontier.opportunities :
       Matches(definitions, o.cand.ref) = {o.definition}
  /\ \A i \in Activations(prefix) :
       FromIdle(prefix, i)
       \/ Cardinality(Matches(definitions, RefAt(prefix, i))) = 1

(* The taxonomy supports exactly the offered opportunities, definition by  *)
(* definition: it neither widens nor narrows what the composition offers.  *)
TaxonomyMatchesOffers ==
  frontier.supported = {<<o.definition, o.cand>> : o \in frontier.opportunities}

(* Offers, activations, responses and the trace rebuilt from the finished  *)
(* Route tell one story: within the limits, one definition per candidate,  *)
(* and no opportunity or reply more or less in one than in the others.     *)
OffersTraced ==
  /\ LimitsKept
  /\ TraceMatchesOffers
  /\ ResponsesOwned
  /\ AmbiguityFailsClosed
  /\ TaxonomyMatchesOffers

=============================================================================
