-------------------------- MODULE ActionAggregation --------------------------
(***************************************************************************)
(* A recorded replay is a sequence of atomic answers.  For display and     *)
(* comparison they are grouped: the answers from an activation to the      *)
(* moment the core chains it are one group, the answers during the         *)
(* resolution of one chain link another.  The grouping sees only the       *)
(* frames the core sent; here the core's chain runs beside it.             *)
(***************************************************************************)
EXTENDS Integers, Sequences, FiniteSets

CONSTANTS
  MaxLinks,  \* bound: longest chain
  MaxEvents  \* bound: longest replay

ASSUME LinksAssumption == MaxLinks \in Nat

VARIABLES
  agCore,    \* the core: what it waits for, links on the chain, current id
  agFrames,  \* the frames sent with the request that is open now
  agTruth,   \* per event the activation or resolution it belonged to, 0: none
  agState,   \* the derivation: open group, hints so far, fallback steps, error
  agProbe    \* documents of the rollback probe on cancelled activations

agVars == <<agCore, agFrames, agTruth, agState, agProbe>>

-----------------------------------------------------------------------------
(* The core.  An answer is [kind, option, cancelable]; what it leads to is *)
(* [frames, phase, links, fresh], fresh when another link is solved now.   *)

Outcome(frames, phase, links, fresh) ==
  [frames |-> frames, phase |-> phase, links |-> links, fresh |-> fresh]

\* The chain from its last link on: a link resolves in silence or asks.
Resolutions[n \in 0..MaxLinks] ==
  IF n = 0 THEN {Outcome(<<"end">>, "open", 0, FALSE)}
  ELSE {Outcome(<<"solving">>, "solve", n - 1, TRUE)}
       \cup {[t EXCEPT !.frames = <<"solving", "solved">> \o @] : t \in Resolutions[n - 1]}

AfterChained(links) ==
  {Outcome(<<"chained">>, "open", links, FALSE)}
  \cup {[t EXCEPT !.frames = <<"chained">> \o @] : t \in Resolutions[links]}

Answers(phase) ==
  CASE phase = "open" -> {[kind |-> "ACTIVATE_EFFECT", option |-> FALSE, cancelable |-> FALSE],
                          [kind |-> "PASS", option |-> FALSE, cancelable |-> FALSE]}
    [] phase = "solve" -> {[kind |-> "SELECT_CARD", option |-> FALSE, cancelable |-> FALSE],
                           [kind |-> "DECLINE", option |-> FALSE, cancelable |-> TRUE]}
    [] OTHER -> {[kind |-> "SELECT_CARD", option |-> FALSE, cancelable |-> FALSE],
                 [kind |-> "SELECT_OPTION", option |-> TRUE, cancelable |-> FALSE],
                 [kind |-> "DECLINE", option |-> FALSE, cancelable |-> TRUE]}

CoreOutcomes(a) ==
  LET setup == {Outcome(f, agCore.phase, agCore.links, FALSE) : f \in {<<>>, <<"cost">>, <<"target">>}}
      chained == IF agCore.links < MaxLinks THEN AfterChained(agCore.links + 1) ELSE {}
      atOpen == IF a.kind = "ACTIVATE_EFFECT"
                THEN {Outcome(<<"chaining">> \o f, "setup", agCore.links, TRUE) : f \in {<<>>, <<"target">>}}
                     \cup {[t EXCEPT !.frames = <<"chaining">> \o @] : t \in chained}
                ELSE IF agCore.links = 0
                THEN {Outcome(<<>>, "open", 0, FALSE), Outcome(<<"chaining">>, "auto", 0, TRUE)}
                ELSE Resolutions[agCore.links]
      atSetup == IF a.kind = "DECLINE"
                 THEN chained \cup {Outcome(<<>>, "open", agCore.links, FALSE)}
                 ELSE setup \cup {[t EXCEPT !.frames = <<"cost">> \o @] : t \in chained} \cup chained
  IN  CASE agCore.phase = "open" -> atOpen
        [] agCore.phase = "solve" ->
             {Outcome(<<>>, "solve", agCore.links, FALSE)}
             \cup {[t EXCEPT !.frames = <<"solved">> \o @] : t \in Resolutions[agCore.links]}
        [] OTHER -> atSetup

-----------------------------------------------------------------------------
(* derive_ocgcore_action_aggregation, one event at a time.                 *)

Has(frames, names) == \E i \in DOMAIN frames : frames[i] \in names

\* _last_open_resolution_frame and _last_resolution_terminal_frame.
OpenResolution(frames) ==
  \E i \in DOMAIN frames :
    frames[i] = "solving" /\ \A j \in i + 1..Len(frames) : frames[j] \notin {"solved", "end"}
EndsChainOnly(frames) == Has(frames, {"end"})
EndsResolution(frames) == Has(frames, {"solved", "end"})

\* An activation is set up once the core chains it or the player cancels.
ClosesSetup(response, cancelled) == Has(response, {"chained"}) \/ cancelled

\* _default_role: primary kinds, control kinds, option requests, the rest.
DefaultRole(a) ==
  IF a.kind = "ACTIVATE_EFFECT" THEN "primary"
  ELSE IF a.kind \in {"PASS", "DECLINE"} THEN "control"
  ELSE IF a.option THEN "option" ELSE "selection"

\* _is_cancelled_selection.
Cancelled(a) == a.kind = "DECLINE" /\ a.cancelable

\* The evidence of a role while an activation is set up, strongest first.
SetupRole(a, request, response) ==
  IF Cancelled(a) THEN "control"
  ELSE IF Has(response, {"cost"}) THEN "cost"
  ELSE IF Has(request, {"target"}) THEN "target"
  ELSE IF a.option THEN "option" ELSE "selection"

NoGroup == [key |-> <<>>, kind |-> ""]

\* The group an event belongs to: a resolution that is open when nothing else
\* is, or the activation the event begins.  The key is the step of its start.
OpenGroup(s, request) ==
  IF s.group = NoGroup /\ OpenResolution(request)
  THEN [key |-> <<"resolution", Len(s.hints)>>, kind |-> "resolution"] ELSE s.group
GroupOf(s, a, request) ==
  IF a.kind = "ACTIVATE_EFFECT"
  THEN [key |-> <<"activation", Len(s.hints)>>, kind |-> "activation_setup"]
  ELSE OpenGroup(s, request)

RoleIn(group, a, request, response) ==
  CASE a.kind = "ACTIVATE_EFFECT" -> "primary"
    [] a.kind # "ACTIVATE_EFFECT" /\ group.kind = "activation_setup" -> SetupRole(a, request, response)
    [] a.kind # "ACTIVATE_EFFECT" /\ group.kind = "resolution" -> "resolution"
    [] OTHER -> DefaultRole(a)

CancelsSetup(group, a) ==
  group.kind = "activation_setup" /\ a.kind # "ACTIVATE_EFFECT" /\ Cancelled(a)

Closes(group, a, response) ==
  \/ group.kind = "activation_setup" /\ ClosesSetup(response, CancelsSetup(group, a))
  \/ group.kind = "resolution" /\ EndsResolution(response)

\* One round of the loop.
DeriveEvent(s, a, request, response) ==
  LET group == GroupOf(s, a, request)
      role == RoleIn(group, a, request, response)
  IN  [group |-> IF Closes(group, a, response) THEN NoGroup ELSE group,
       hints |-> Append(s.hints, [key |-> group.key, role |-> role]),
       fallback |-> IF role = "selection" THEN s.fallback \cup {Len(s.hints)} ELSE s.fallback,
       error |-> \/ s.error
                 \/ a.kind = "ACTIVATE_EFFECT" /\ OpenGroup(s, request) # NoGroup
                 \/ CancelsSetup(group, a) /\ Has(response, {"chained"})]

\* What is left open behind the last event is refused.
Complete(s) == s.group = NoGroup

\* aggregate_replay_events: adjacent steps with one hinted key form a group, a
\* step without a hint stands alone; the end of step i's group.
GroupStart(hints, i) ==
  IF hints[i].key = <<>> THEN i
  ELSE CHOOSE k \in 1..i :
         /\ \A j \in k..i : hints[j].key = hints[i].key
         /\ k > 1 => hints[k - 1].key # hints[i].key

\* build_activation_rollback_probe on the follow-up of a cancelled selection.
ProbeVerdict(frames, phase) ==
  IF ~Has(frames, {"chained"}) THEN "support_candidate"
  ELSE IF frames = <<"chained">> /\ phase = "open" THEN "unsupported" ELSE "unknown"

ProbeDocument(step, a, frames, phase) ==
  [step |-> step, action |-> a, frames |-> frames, phase |-> phase,
   verdict |-> ProbeVerdict(frames, phase)]

\* assert_valid_activation_rollback_probe decides again from the raw frames
\* whether the core went on with the activation.
ProbeValid(document) ==
  /\ document.action.kind = "DECLINE" /\ document.action.cancelable
  /\ document.verdict = "support_candidate" <=> ~Has(document.frames, {"chained"})
  /\ document.verdict = "unsupported" => document.frames = <<"chained">> /\ document.phase = "open"
  /\ document.verdict # "unknown"

-----------------------------------------------------------------------------
AgInit ==
  /\ agCore = [phase |-> "open", links |-> 0, id |-> 0, next |-> 1]
  /\ agFrames = <<>> /\ agTruth = <<>>
  /\ agState = [group |-> NoGroup, hints |-> <<>>, fallback |-> {}, error |-> FALSE]
  /\ agProbe = <<>>

\* The player answers, the core goes on to its next request, the derivation
\* reads the event.
AgEvent ==
  /\ Len(agTruth) < MaxEvents /\ ~agState.error
  /\ \E a \in Answers(agCore.phase) : \E o \in CoreOutcomes(a) :
       LET begins == a.kind = "ACTIVATE_EFFECT"
           mine == IF begins THEN agCore.next
                   ELSE IF agCore.phase \in {"setup", "solve"} THEN agCore.id ELSE 0
           used == IF begins THEN agCore.next + 1 ELSE agCore.next
       IN  /\ agTruth' = Append(agTruth, mine)
           /\ agCore' = [phase |-> o.phase, links |-> o.links,
                         id |-> IF o.phase = "solve" /\ o.fresh THEN used ELSE
                                IF o.phase = "setup" /\ begins THEN agCore.next ELSE agCore.id,
                         next |-> IF o.phase = "solve" /\ o.fresh THEN used + 1 ELSE used]
           /\ agFrames' = o.frames
           /\ agState' = DeriveEvent(agState, a, agFrames, o.frames)
           /\ agProbe' = IF agCore.phase = "setup" /\ Cancelled(a)
                           THEN Append(agProbe, ProbeDocument(Len(agTruth) + 1, a, o.frames, o.phase))
                           ELSE agProbe

AgSpec == AgInit /\ [][AgEvent]_agVars

-----------------------------------------------------------------------------
\* The groups are the lifecycles of the core: two events are shown as one
\* composite exactly when they belong to one activation or to the resolution
\* of one link, however the core packs its frames.
GroupsAreLifecycles ==
  \A i, j \in DOMAIN agTruth : i < j =>
    ((GroupStart(agState.hints, i) = GroupStart(agState.hints, j))
       <=> (agTruth[i] = agTruth[j] /\ agTruth[i] # 0))

\* A replay that stops while the core waits outside every activation and
\* resolution has no unfinished group, so the derivation does not refuse it.
StopsAreComplete ==
  agCore.phase \in {"open", "auto"} /\ ~agState.error => Complete(agState)

\* The rollback probe and the derivation agree on a cancelled activation: a
\* support candidate is a replay the derivation accepts, anything else one it
\* refuses; and no document that was built is rejected by its reader.
ProbeAgrees ==
  /\ \A i \in DOMAIN agProbe : agProbe[i].verdict # "unknown" <=> ProbeValid(agProbe[i])
  /\ \A i \in DOMAIN agProbe : agProbe[i].step < Len(agTruth) => agProbe[i].verdict = "support_candidate"
  /\ agState.error <=>
       \E i \in DOMAIN agProbe : agProbe[i].step = Len(agTruth) /\ agProbe[i].verdict # "support_candidate"

\* Derivation, completeness check and rollback probe agree with the lifecycles
\* of the core, for every way it packs its frames.
LifecyclesGrouped == GroupsAreLifecycles /\ StopsAreComplete /\ ProbeAgrees

=============================================================================
