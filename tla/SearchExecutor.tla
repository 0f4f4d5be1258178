--------------------------- MODULE SearchExecutor ---------------------------
(***************************************************************************)
(* engine/search/executor.py: SearchExecutor.run in its three execution    *)
(* modes, once for each pool size of Pools over the same experiment.  An   *)
(* experiment is a small decision graph (what the adapter's fresh replay   *)
(* of a prefix observes), a strategy and a SearchBudget.  A prefix is the  *)
(* sequence of action positions taken from the root: position i of a state *)
(* is the i-th action of the strategy's order_actions, so the digest that  *)
(* orders the actions is abstracted to the order it produces.              *)
(***************************************************************************)
EXTENDS Naturals, Integers, Sequences, FiniteSets

CONSTANTS
  Experiments, \* the experiments run; see Experiment below for the fields
  Pools,       \* pool sizes the same experiment is run with, 1 = serial
  NoLimit      \* None in a SearchBudget field

ASSUME PoolsAssumption == Pools \subseteq Nat \ {0}

Fail == 0          \* the replay of a prefix raises
Modes == {"depth_first", "beam", "mcts"}
ASSUME ModesAssumption == \A e \in Experiments : e.mode \in Modes

(* An experiment: a finite decision graph next, whose states have scores,  *)
(* and a SearchBudget and a strategy that their own checks accept.         *)
ASSUME ExperimentsAssumption ==
  /\ NoLimit \notin Int
  /\ \A e \in Experiments :
       /\ Fail \notin DOMAIN e.next /\ IsFiniteSet(DOMAIN e.next)
       /\ e.next \in [DOMAIN e.next -> Seq(DOMAIN e.next \cup {Fail})]
       /\ e.root \in DOMAIN e.next \cup {Fail}
       /\ \A s \in DOMAIN e.next : e.score[s] \in Int
       /\ e.replay_count \in Nat \ {0} /\ e.width \in Nat \ {0}
       /\ {e.max_depth, e.max_nodes, e.max_replays} \subseteq Nat \cup {NoLimit}
       /\ {e.timed, e.wide} \subseteq BOOLEAN

HardReasons == {"max_seconds", "max_nodes", "max_replays"}
Reasons == HardReasons \cup {"goal_reached", "max_depth", "exhausted"}

VARIABLES
  exp,   \* the experiment: decision graph, strategy, budget
  rt     \* rt[k]: the _SearchRuntime of the run with pool size k

vars == <<exp, rt>>

(***************************************************************************)
(* The adapter: what the fresh replay of a prefix observes (SearchFrontier)*)
(***************************************************************************)
StateOf(p) ==
  LET at[i \in 0..Len(p)] ==
        IF i = 0 THEN exp.root
        ELSE LET s == at[i - 1]
             IN IF s = Fail THEN Fail ELSE exp.next[s][p[i]]
  IN at[Len(p)]

Actions(p) == [i \in 1..Len(exp.next[StateOf(p)]) |-> i]
Score(p) == exp.score[StateOf(p)]
PeakScore(p) ==
  LET seen == {Score(SubSeq(p, 1, i)) : i \in 0..Len(p)}
  IN CHOOSE m \in seen : \A s \in seen : s <= m
Success(p) == StateOf(p) \in exp.success
LegalStop(p) == StateOf(p) \in exp.legal
Exact(p) == StateOf(p) \in exp.exact

AtLimit(limit, n) == limit # NoLimit /\ n >= limit
AtDepthLimit(p) == AtLimit(exp.max_depth, Len(p))

(***************************************************************************)
(* The runtime.  obs is the value _replay_prefix returned last.            *)
(***************************************************************************)
Put(f, k, v) == [j \in DOMAIN f \cup {k} |-> IF j = k THEN v ELSE f[j]]

NoCandidates == [p \in {} |-> 0]

InitialRuntime(mode) ==
  [pc |-> mode, cache |-> {}, prefetched |-> {}, seen |-> {},
   candidates |-> NoCandidates, routes |-> <<>>, failures |-> <<>>,
   updates |-> <<>>, nodes |-> 0, replays |-> 0, hits |-> 0, dups |-> 0,
   depth |-> 0, termination |-> "exhausted",
   obs |-> [prefix |-> <<>>, ok |-> FALSE, dup |-> FALSE],
   pending |-> <<>>, current |-> <<>>, plan |-> <<>>,
   observed |-> <<>>, reason |-> "none", tree |-> NoCandidates,
   node |-> <<>>, ordinal |-> 1, completed |-> 0]

Init ==
  /\ exp \in Experiments
  /\ rt = [k \in Pools |->
            [InitialRuntime(exp.mode) EXCEPT !.pending = <<(<<>>)>>]]

(* _hard_budget_reason: seconds, then nodes, then replays.                 *)
HardBudgetReason(x, late) ==
  CASE late -> "max_seconds"
    [] ~late /\ AtLimit(exp.max_nodes, x.nodes) -> "max_nodes"
    [] ~late /\ ~AtLimit(exp.max_nodes, x.nodes)
             /\ AtLimit(exp.max_replays, x.replays) -> "max_replays"
    [] OTHER -> "none"

(* The clock may reach max_seconds before any check when it is set.        *)
Late == IF exp.timed THEN BOOLEAN ELSE {FALSE}

EnsureCandidates(x, ps) ==
  [x EXCEPT !.candidates =
     [q \in DOMAIN @ \cup (ps \ {<<>>}) |->
        IF q \in DOMAIN @ THEN @[q]
        ELSE [status |-> "unexplored", dup |-> FALSE]]]

MarkCandidate(x, p, status, dup) ==
  IF p = <<>> THEN x
  ELSE [x EXCEPT !.candidates = Put(@, p, [status |-> status, dup |-> dup])]

GoalReached(p) ==
  \/ Success(p) /\ exp.stop_on_success
  \/ AtLimit(exp.target_score, Score(p))

InSequence(e, s) == \E i \in 1..Len(s) : s[i] = e

(* _record_route: a legal stop with a non-empty prefix, once per prefix.   *)
RecordRoute(x, p) ==
  IF ~LegalStop(p) \/ p = <<>> THEN x
  ELSE [x EXCEPT
          !.routes = IF InSequence(p, @) THEN @ ELSE Append(@, p),
          !.termination = IF GoalReached(p) THEN "goal_reached" ELSE @]

RecordPathFailure(x, p) ==
  MarkCandidate(
    [x EXCEPT !.nodes = @ + 1, !.replays = @ + 1,
              !.failures = Append(@, p),
              !.obs = [prefix |-> p, ok |-> FALSE, dup |-> FALSE]],
    p, "failed", FALSE)

CommitFrontier(x, p, hit) ==
  LET charged == IF hit THEN [x EXCEPT !.hits = @ + 1]
                 ELSE [x EXCEPT !.cache = @ \cup {p},
                                !.replays = @ + exp.replay_count]
      routed == RecordRoute([charged EXCEPT !.nodes = @ + 1], p)
      dup == Exact(p) /\ StateOf(p) \in x.seen
      seen == IF Exact(p) THEN x.seen \cup {StateOf(p)} ELSE x.seen
  IN MarkCandidate(
       [routed EXCEPT !.seen = seen,
                      !.dups = IF dup THEN @ + 1 ELSE @,
                      !.obs = [prefix |-> p, ok |-> TRUE, dup |-> dup]],
       p, "explored", dup)

(* _replay_prefix: cache, then a prefetched result, then the adapter.  The *)
(* root's failure is not a path failure: it is raised out of run().        *)
ReplayPrefix(x, p) ==
  LET y == [x EXCEPT !.depth = IF Len(p) > @ THEN Len(p) ELSE @,
                     !.prefetched = IF p \in x.cache THEN @ ELSE @ \ {p}]
  IN IF p \in x.cache THEN CommitFrontier(y, p, TRUE)
     ELSE IF StateOf(p) # Fail THEN CommitFrontier(y, p, FALSE)
     ELSE IF p = <<>> THEN [x EXCEPT !.pc = "raised"]
     ELSE RecordPathFailure(y, p)

(* _remaining_node_slots, an upper bound on the replays still committable. *)
Smaller(a, b) == IF a < b THEN a ELSE b
Remaining(limit, used) == IF used >= limit THEN 0 ELSE limit - used
Slots(x, unbounded) ==
  LET n == IF exp.max_nodes = NoLimit THEN unbounded
           ELSE Remaining(exp.max_nodes, x.nodes)
      r == IF exp.max_replays = NoLimit THEN unbounded
           ELSE Remaining(exp.max_replays, x.replays)
  IN Smaller(unbounded, Smaller(n, r))

(* mutant: the replays ahead go straight into the prefix cache *)
PrefetchCommits(k, x, prefixes) ==
  LET window == Slots(x, k)
      ahead == {prefixes[i] : i \in 1..Smaller(window, Len(prefixes))}
      dispatch == {p \in ahead \ x.cache : StateOf(p) # Fail}
  IN IF k <= 1 \/ Len(prefixes) <= 1 \/ window <= 1 THEN x
     ELSE [EnsureCandidates(x, dispatch) EXCEPT !.cache = @ \cup dispatch,
             !.replays = @ + exp.replay_count * Cardinality(dispatch),
             !.nodes = @ + Cardinality(dispatch)]

(* _prefetch_prefixes_parallel: replays of a window of siblings ahead of   *)
(* their commit.  Their candidates are recorded even when too few of them  *)
(* are left to dispatch.                                                   *)
Prefetch(k, x, prefixes) ==
  LET window == Slots(x, k)
      ahead == {prefixes[i] : i \in 1..Smaller(window, Len(prefixes))}
      dispatch == ahead \ (x.cache \cup x.prefetched)
      recorded == EnsureCandidates(x, dispatch)
  IN IF k <= 1 \/ Len(prefixes) <= 1 \/ window <= 1 THEN x
     ELSE IF Cardinality(dispatch) <= 1 THEN recorded
     ELSE [recorded EXCEPT !.prefetched = @ \cup dispatch]

Children(p) == [i \in 1..Len(Actions(p)) |-> Append(p, i)]

Stop(x, reason) == [x EXCEPT !.pc = "done", !.termination = reason]
Log(x, u) == [x EXCEPT !.updates = Append(@, u)]

(***************************************************************************)
(* _run_depth_first.  pending is a stack, its last element on top.         *)
(***************************************************************************)
Reversed(s) == [i \in 1..Len(s) |-> s[Len(s) + 1 - i]]

DepthFirstExpand(k, x, p) ==
  LET kids == Children(p)
      y == Prefetch(k, Log(x, p), kids)
      z == EnsureCandidates(y, {kids[i] : i \in 1..Len(kids)})
  IN [z EXCEPT !.pending = @ \o Reversed(kids)]

(* mutant: reaching max_depth is not remembered as a termination *)
DepthFirstAfterForgets(k, y, p) ==
  IF y.pc = "raised" \/ ~y.obs.ok THEN y
  ELSE IF y.termination = "goal_reached" THEN [y EXCEPT !.pc = "done"]
  ELSE IF y.obs.dup \/ AtDepthLimit(p) THEN y
  ELSE DepthFirstExpand(k, y, p)


DepthFirstAfter(k, y, p) ==
  IF y.pc = "raised" \/ ~y.obs.ok THEN y
  ELSE IF y.termination = "goal_reached" THEN [y EXCEPT !.pc = "done"]
  ELSE IF y.obs.dup THEN y
  ELSE IF AtDepthLimit(p) THEN [y EXCEPT !.termination = "max_depth"]
  ELSE DepthFirstExpand(k, y, p)

DepthFirstVisit(k) ==
  LET x == rt[k]
      p == x.pending[Len(x.pending)]
  IN /\ x.pc = "depth_first" /\ x.pending # <<>>
     /\ \E late \in Late : HardBudgetReason(x, late) = "none"
     /\ \E y \in {ReplayPrefix([x EXCEPT !.pending =
                                  SubSeq(@, 1, Len(@) - 1)], p)} :
          rt' = [rt EXCEPT ![k] = DepthFirstAfter(k, y, p)]

DepthFirstBudget(k) ==
  /\ rt[k].pc = "depth_first" /\ rt[k].pending # <<>>
  /\ \E late \in Late :
       /\ HardBudgetReason(rt[k], late) # "none"
       /\ rt' = [rt EXCEPT ![k] = Stop(@, HardBudgetReason(@, late))]

DepthFirstEnd(k) ==
  /\ rt[k].pc = "depth_first" /\ rt[k].pending = <<>>
  /\ rt' = [rt EXCEPT ![k].pc = "done"]

(***************************************************************************)
(* _run_beam: a layer is planned, replayed child by child and selected     *)
(* from.  current is the selected layer, observed what its children gave.  *)
(***************************************************************************)
Root(k, enter(_)) ==
  LET y == ReplayPrefix(rt[k], <<>>)
  IN rt' = [rt EXCEPT ![k] =
             IF y.pc = "raised" THEN y ELSE [enter(y) EXCEPT !.pending = <<>>]]

BeamRoot(k) ==
  /\ rt[k].pc = "beam"
  /\ \E late \in Late : HardBudgetReason(rt[k], late) = "none"
  /\ Root(k, LAMBDA y : [y EXCEPT !.pc = "beam_layer",
                                  !.current = <<(<<>>)>>])

RootBudget(k) ==
  /\ rt[k].pc \in {"beam", "mcts"}
  /\ \E late \in Late :
       /\ HardBudgetReason(rt[k], late) # "none"
       /\ rt' = [rt EXCEPT ![k] = Stop(@, HardBudgetReason(@, late))]

Flatten(ss) ==
  LET all[i \in 0..Len(ss)] == IF i = 0 THEN <<>> ELSE all[i - 1] \o ss[i]
  IN all[Len(ss)]

(* beam_rank_key, as "strictly before".  The prefix digest that breaks the *)
(* last tie is abstracted to the lexicographic order of the prefixes.      *)
LexBefore(p, q) ==
  \E i \in 1..Smaller(Len(p), Len(q)) :
    p[i] < q[i] /\ \A j \in 1..(i - 1) : p[j] = q[j]

FirstDifference(pairs) ==
  \E i \in 1..Len(pairs) :
    /\ pairs[i][1] > pairs[i][2]
    /\ \A j \in 1..(i - 1) : pairs[j][1] = pairs[j][2]

Worth(p) == <<IF Success(p) THEN 1 ELSE 0, PeakScore(p), Score(p)>>
Ranked(p, q) == [i \in 1..3 |-> <<Worth(p)[i], Worth(q)[i]>>]

BeamBefore(p, q) ==
  \/ FirstDifference(Ranked(p, q))
  \/ Worth(p) = Worth(q) /\ LexBefore(p, q)

(* sorted(nodes, key=...)[:width] *)
Best(ps, width, before(_, _)) ==
  LET rank(p) == Cardinality({q \in ps : before(q, p)})
      n == Smaller(width, Cardinality(ps))
  IN [i \in 1..n |-> CHOOSE p \in ps : rank(p) = i - 1]

(* _plan_beam_child_prefixes: the planned children and why the layer was   *)
(* cut short ("none" when it was not).  The children after the cut are not *)
(* recorded as candidates.                                                 *)
LayerChildren(x) ==
  Flatten([i \in 1..Len(x.current) |->
             IF AtDepthLimit(x.current[i]) THEN <<>>
             ELSE Children(x.current[i])])

PlannedCuts(x) ==
  LET all == LayerChildren(x)
      fit == Slots(x, Len(all))
      full == [count |-> fit,
               reason |-> IF fit = Len(all) THEN "none"
                          ELSE IF HardBudgetReason(x, FALSE) # "none"
                          THEN HardBudgetReason(x, FALSE)
                          ELSE IF AtLimit(exp.max_nodes, x.nodes + fit)
                          THEN "max_nodes" ELSE "max_replays"]
      late == {[count |-> n, reason |-> "max_seconds"] :
                 n \in 0..Smaller(fit, Len(all) - 1)}
  IN {full} \cup (IF exp.timed /\ Len(all) > 0 THEN late ELSE {})

PlanLayer(k) ==
  /\ rt[k].pc = "beam_layer"
  /\ \E cut \in PlannedCuts(rt[k]) :
       LET plan == SubSeq(LayerChildren(rt[k]), 1, cut.count)
       IN rt' = [rt EXCEPT ![k] =
            [EnsureCandidates(@, {plan[i] : i \in 1..Len(plan)}) EXCEPT
               !.pc = "beam_commit", !.plan = plan, !.reason = cut.reason,
               !.observed = <<>>]]

(* _replay_prefixes_parallel: every planned child is committed, in plan    *)
(* order, whatever order the pool finishes the replays in.                 *)
BeamCommit(k) ==
  LET n == Len(rt[k].observed) + 1
  IN /\ rt[k].pc = "beam_commit" /\ n <= Len(rt[k].plan)
     /\ \E y \in {ReplayPrefix(rt[k], rt[k].plan[n])} :
          rt' = [rt EXCEPT ![k] = [y EXCEPT !.observed = Append(@, y.obs)]]

(* The children inspected after the replays: all of them, or up to the     *)
(* first observed one when the layer has reached the goal.                 *)
Inspected(x) ==
  {x.observed[i] : i \in {j \in 1..Len(x.observed) :
     x.termination = "goal_reached"
       => \A h \in 1..(j - 1) : ~x.observed[h].ok}}

Expandable(x) ==
  {o.prefix : o \in {c \in Inspected(x) :
     /\ c.ok /\ ~c.dup
     /\ Actions(c.prefix) # <<>> /\ ~AtDepthLimit(c.prefix)}}

DepthLimited(x) ==
  \/ AtDepthLimit(x.current[1])
  \/ \E o \in Inspected(x) : o.ok /\ AtDepthLimit(o.prefix)

MarkPruned(x, ps) ==
  [x EXCEPT !.candidates = [p \in DOMAIN @ |->
     IF p \in ps THEN [@[p] EXCEPT !.status = "pruned"] ELSE @[p]]]

(* An incomplete layer (budget or goal) selects nothing and ends the run,  *)
(* but its expandable children are still marked pruned.                    *)
EndLayer(x) ==
  LET goal == x.termination = "goal_reached"
      complete == x.reason = "none" /\ ~goal
      chosen == IF complete THEN Best(Expandable(x), exp.width, BeamBefore)
                ELSE <<>>
      marked == MarkPruned(x, Expandable(x) \
                                {chosen[i] : i \in 1..Len(chosen)})
      logged == Log(marked, [layer |-> x.plan, selected |-> chosen,
                             complete |-> complete])
  IN IF ~complete
     THEN Stop(logged, IF goal THEN "goal_reached" ELSE x.reason)
     ELSE IF chosen # <<>>
     THEN [logged EXCEPT !.pc = "beam_layer", !.current = chosen]
     ELSE Stop(logged, IF DepthLimited(x) THEN "max_depth"
                       ELSE x.termination)

(* mutant: the layer waits for every child to succeed *)
BeamSelectWaitsForSuccess(k) ==
  /\ rt[k].pc = "beam_commit"
  /\ Len(rt[k].observed) = Len(rt[k].plan)
  /\ \A i \in 1..Len(rt[k].observed) : rt[k].observed[i].ok
  /\ rt' = [rt EXCEPT ![k] = EndLayer(@)]


BeamSelect(k) ==
  /\ rt[k].pc = "beam_commit"
  /\ Len(rt[k].observed) = Len(rt[k].plan)
  /\ rt' = [rt EXCEPT ![k] = EndLayer(@)]

(***************************************************************************)
(* _run_mcts.  tree[p] is the _MctsTreeNode of prefix p; node is the tree  *)
(* node the simulation stands on, so tree_path is its prefixes; obs is the *)
(* terminal of the rollout.                                                *)
(***************************************************************************)
TreeNode(x) ==
  [untried |-> Actions(x.obs.prefix), visits |-> 0, value |-> 0,
   dup |-> x.obs.dup]

MctsRoot(k) ==
  /\ rt[k].pc = "mcts"
  /\ \E late \in Late : HardBudgetReason(rt[k], late) = "none"
  /\ Root(k, LAMBDA y : [y EXCEPT !.pc = "simulate",
                                  !.tree = Put(@, <<>>, TreeNode(y))])

(* _mcts_boundary *)
Boundary(p, dup) ==
  LegalStop(p) \/ dup \/ AtDepthLimit(p) \/ Actions(p) = <<>>

TreeChildren(x, p) ==
  {q \in DOMAIN x.tree : Len(q) = Len(p) + 1 /\ SubSeq(q, 1, Len(p)) = p}

OnTree(k) == rt[k].pc = "select" /\ rt[k].node \in DOMAIN rt[k].tree
NodeOf(k) == rt[k].tree[rt[k].node]
Interior(k) == OnTree(k) /\ ~Boundary(rt[k].node, NodeOf(k).dup)

Simulation(x, status) == [at |-> x.node, terminal |-> x.obs, status |-> status]


Discard(x, status) ==
  [Log(x, Simulation(x, status)) EXCEPT !.pc = "simulate", !.ordinal = @ + 1]
HardStop(x, reason) == Stop(Log(x, Simulation(x, reason)), reason)

MctsBegin(k) ==
  /\ rt[k].pc = "simulate" /\ rt[k].ordinal <= exp.simulations
  /\ \E late \in Late : HardBudgetReason(rt[k], late) = "none"
  /\ rt' = [rt EXCEPT ![k].pc = "select", ![k].node = <<>>]

MctsBudget(k) ==
  /\ rt[k].pc = "simulate" /\ rt[k].ordinal <= exp.simulations
  /\ \E late \in Late :
       /\ HardBudgetReason(rt[k], late) # "none"
       /\ rt' = [rt EXCEPT ![k] = HardStop(@, HardBudgetReason(@, late))]

MctsEnd(k) ==
  /\ rt[k].pc = "simulate" /\ rt[k].ordinal > exp.simulations
  /\ rt' = [rt EXCEPT ![k].pc = "done"]

(* _select_mcts_child: an unvisited child scores infinity.  exploration 0  *)
(* ranks by the mean value alone; "wide" stands for a constant so large    *)
(* that the fewest visits win whenever log(parent visits) is not 0.        *)
Mean(x, p, q) ==
  x.tree[p].value * x.tree[q].visits > x.tree[q].value * x.tree[p].visits

UctBefore(x, p, q) ==
  LET vp == x.tree[p].visits
      vq == x.tree[q].visits
      byVisits == exp.wide /\ x.tree[x.node].visits > 1
      before == IF vp = 0 \/ vq = 0 THEN vp = 0 /\ vq > 0
                ELSE IF byVisits /\ vp # vq THEN vp < vq
                ELSE Mean(x, p, q)
      after == IF vp = 0 \/ vq = 0 THEN vq = 0 /\ vp > 0
               ELSE IF byVisits /\ vp # vq THEN vq < vp
               ELSE Mean(x, q, p)
  IN before \/ (~after /\ LexBefore(p, q))

MctsSelect(k) ==
  LET x == rt[k]
      kids == TreeChildren(x, x.node)
  IN /\ Interior(k) /\ NodeOf(k).untried = <<>> /\ kids # {}
     /\ rt' = [rt EXCEPT ![k].node =
                Best(kids, 1, LAMBDA p, q : UctBefore(x, p, q))[1]]

(* The untried siblings are prefetched, and recorded as candidates, before *)
(* the first of them is popped and replayed.                               *)
MctsExpand(k) ==
  LET x == rt[k]
      untried == NodeOf(k).untried
      ahead == [i \in 1..Len(untried) |-> Append(x.node, untried[i])]
      popped == [Prefetch(k, x, ahead) EXCEPT
                   !.tree[x.node].untried = Tail(@)]
      y == ReplayPrefix(popped, ahead[1])
  IN /\ Interior(k) /\ untried # <<>>
     /\ \E late \in Late :
          rt' = [rt EXCEPT ![k] =
            IF late THEN HardStop(Prefetch(k, x, ahead), "max_seconds")
            ELSE IF ~y.obs.ok THEN Discard(y, "path_failure")
            ELSE [y EXCEPT !.pc = "rollout", !.node = ahead[1],
                           !.tree = Put(@, ahead[1], TreeNode(y))]]

(* The walk ends on a boundary, or on a node whose children all failed.    *)
MctsWalked(k) ==
  /\ OnTree(k)
  /\ \/ Boundary(rt[k].node, NodeOf(k).dup)
     \/ NodeOf(k).untried = <<>> /\ TreeChildren(rt[k], rt[k].node) = {}
  /\ rt' = [rt EXCEPT ![k].pc = "rollout",
                      ![k].obs = [prefix |-> rt[k].node, ok |-> TRUE,
                                  dup |-> NodeOf(k).dup]]

RolloutAction(p) == IF exp.rollout_last THEN Len(Actions(p)) ELSE 1

MctsRollout(k) ==
  LET x == rt[k]
      p == Append(x.obs.prefix, RolloutAction(x.obs.prefix))
      y == ReplayPrefix(x, p)
  IN /\ x.pc = "rollout" /\ ~Boundary(x.obs.prefix, x.obs.dup)
     /\ \E late \in Late :
          LET reason == HardBudgetReason(x, late) IN
          rt' = [rt EXCEPT ![k] =
                  IF reason # "none" THEN HardStop(x, reason)
                  ELSE IF ~y.obs.ok THEN Discard(y, "path_failure")
                  ELSE y]

(* normalize_mcts_reward with floor 0 and ceiling 1, times three.          *)
Reward(p) == (IF Success(p) THEN 2 ELSE 0) + Smaller(Score(p), 1)

PathTo(p) == {SubSeq(p, 1, i) : i \in 0..Len(p)}

Rewarded(n, reward) == [n EXCEPT !.visits = @ + 1, !.value = @ + reward]

Backpropagate(x) ==
  [x EXCEPT !.tree = [p \in DOMAIN @ |->
     IF p \in PathTo(x.node) THEN Rewarded(@[p], Reward(x.obs.prefix))
     ELSE @[p]]]

MctsBackpropagate(k) ==
  LET x == rt[k]
      y == [Log(Backpropagate(x), Simulation(x, "complete")) EXCEPT
              !.completed = @ + 1, !.ordinal = @ + 1]
  IN /\ x.pc = "rollout" /\ Boundary(x.obs.prefix, x.obs.dup)
     /\ rt' = [rt EXCEPT ![k] =
          [y EXCEPT !.pc = IF x.termination = "goal_reached" THEN "done"
                           ELSE "simulate"]]

(***************************************************************************)
(* The runs of an experiment share nothing but the adapter, so only the    *)
(* order in which the smaller pool runs first is explored.                 *)
(***************************************************************************)
Finished(k) == rt[k].pc \in {"done", "raised"}

Step(k) ==
  \/ DepthFirstVisit(k) \/ DepthFirstBudget(k) \/ DepthFirstEnd(k)
  \/ BeamRoot(k) \/ PlanLayer(k) \/ BeamCommit(k) \/ BeamSelect(k)
  \/ RootBudget(k)
  \/ MctsRoot(k) \/ MctsBegin(k) \/ MctsBudget(k) \/ MctsEnd(k)
  \/ MctsSelect(k) \/ MctsExpand(k) \/ MctsWalked(k)
  \/ MctsRollout(k) \/ MctsBackpropagate(k)

Turn(k) == \A j \in Pools : j < k => Finished(j)

Next == \E k \in Pools : Turn(k) /\ Step(k) /\ UNCHANGED exp

Spec == Init /\ [][Next]_vars /\ \A k \in Pools : WF_vars(Turn(k) /\ Step(k) /\ UNCHANGED exp)

(***************************************************************************)
(* _result: censoring and the coverage certificate.                        *)
(***************************************************************************)
Status(x, p) ==
  IF x.termination # "exhausted" /\ x.candidates[p].status = "unexplored"
  THEN "censored" ELSE x.candidates[p].status

SearchEvidence(x) ==
  [p \in DOMAIN x.candidates |->
     [status |-> Status(x, p), dup |-> x.candidates[p].dup]]

CandidateCounts(x) ==
  [s \in {"censored", "explored", "failed", "pruned", "unexplored"} |->
     Cardinality({p \in DOMAIN x.candidates : Status(x, p) = s})]

FrontierExhausted(x) ==
  /\ x.pc = "done" /\ x.termination = "exhausted"
  /\ exp.mode \in {"depth_first", "beam"}
  /\ \A s \in {"unexplored", "censored", "pruned"} :
       CandidateCounts(x)[s] = 0

(* rank_key of SearchRouteSummary: worth, then fewer actions, then the id. *)
RouteBefore(p, q) ==
  \/ FirstDifference(Ranked(p, q))
  \/ /\ Worth(p) = Worth(q)
     /\ Len(p) < Len(q) \/ (Len(p) = Len(q) /\ LexBefore(p, q))

RouteSet(x) == {x.routes[i] : i \in 1..Len(x.routes)}
BestRoute(x) == Best(RouteSet(x), 1, RouteBefore)

(***************************************************************************)
(* Properties                                                              *)
(***************************************************************************)
(* Every counter is a natural, every status and reason is one of the       *)
(* code's, and the prefixes of the runtime's tables agree.                 *)
SearchTypeOK ==
  \A k \in Pools :
    LET x == rt[k] IN
    /\ x.nodes \in Nat /\ x.replays \in Nat /\ x.hits \in Nat
    /\ x.dups \in Nat /\ x.depth \in Nat
    /\ x.termination \in Reasons
    /\ \A p \in DOMAIN x.candidates :
         x.candidates[p].status \in
           {"unexplored", "explored", "failed", "pruned"}
    /\ x.prefetched \cap x.cache = {}
    /\ DOMAIN x.tree \subseteq x.cache

(* The budgets of the experiment bound what is committed in every mode,    *)
(* for every replay_count and every pool.  max_nodes is never passed.      *)
(* max_replays is only checked between prefixes, each replayed             *)
(* replay_count times: depth-first and MCTS pass it by less than one       *)
(* frontier's replays, a beam commits all the children of a layer that     *)
(* were planned into the remaining slots, one slot per child.  And the     *)
(* counters account for every observation: cache entries, cache hits and   *)
(* path failures.                                                          *)
BudgetRespected ==
  \A k \in Pools :
    LET x == rt[k]
        committed == Cardinality(x.cache)
        failed == Len(x.failures)
    IN /\ exp.max_nodes # NoLimit => x.nodes <= exp.max_nodes
       /\ exp.max_replays # NoLimit =>
            /\ exp.mode = "beam"
                 => x.replays <= exp.max_replays * exp.replay_count
            /\ exp.mode # "beam"
                 => x.replays < exp.max_replays + exp.replay_count
       /\ x.nodes = committed + x.hits + failed
       /\ x.replays = exp.replay_count * committed + failed

(* A frontier_exhausted certificate is true: every state the decision      *)
(* graph reaches without a failing replay has been observed, although      *)
(* exact duplicates are not expanded and a depth limit may have cut paths. *)
Successors(S) ==
  {t \in DOMAIN exp.next : \E s \in S : InSequence(t, exp.next[s])}

Reachable ==
  {s \in DOMAIN exp.next :
     \A S \in SUBSET DOMAIN exp.next :
       ({exp.root} \ {Fail}) \cup Successors(S) \subseteq S => s \in S}

CoverageSound ==
  \A k \in Pools :
    FrontierExhausted(rt[k])
      => Reachable \subseteq {StateOf(p) : p \in rt[k].cache}

(* When the certificate says the frontier is exhausted, no legal stop of   *)
(* the graph deserves a better rank than best_route: by success, then by   *)
(* its own score as peak and as terminal score, which is what every route  *)
(* to it has at least.  No such route is lost to the duplicate detection,  *)
(* which runs after _record_route.  (A higher peak on the way to a stop    *)
(* may be missed: the children of an exact duplicate are not replayed.)    *)
Deserved(s) ==
  <<IF s \in exp.success THEN 1 ELSE 0, exp.score[s], exp.score[s]>>

ExhaustedBestIsBest ==
  \A k \in Pools :
    LET x == rt[k] IN
    FrontierExhausted(x)
      => \A s \in Successors(Reachable) \cap exp.legal :
           /\ x.routes # <<>>
           /\ ~FirstDifference(
                 [i \in 1..3 |-> <<Deserved(s)[i], Worth(BestRoute(x)[1])[i]>>])

(* MCTS statistics: the root has one visit per completed simulation, a     *)
(* parent at least as many as its children together, and no discarded      *)
(* simulation (path failure or hard stop) leaves a trace in them.          *)
Visits(tree, S) == UNION {{<<p, n>> : n \in 1..tree[p].visits} : p \in S}
SumVisits(x, S) == Cardinality(Visits(x.tree, S))

MctsStatistics ==
  \A k \in Pools :
    LET x == rt[k] IN
    x.tree # NoCandidates =>
      /\ x.tree[<<>>].visits = x.completed
      /\ \A p \in DOMAIN x.tree :
           /\ x.tree[p].visits >= SumVisits(x, TreeChildren(x, p))
           /\ x.tree[p].value <= 3 * x.tree[p].visits
      /\ x.completed < x.ordinal

(* Pool independence of what the strategy decided: the logical updates,    *)
(* the routes and every semantic counter of a finished run are those of    *)
(* the serial run, whatever was prefetched.                                *)
Semantics(x) ==
  <<x.updates, x.routes, x.failures, x.nodes, x.replays, x.hits, x.dups,
    x.depth, x.termination, x.cache>>

PoolIndependent ==
  \A j, k \in Pools :
    Finished(j) /\ Finished(k) /\ ~exp.timed
      => /\ Semantics(rt[j]) = Semantics(rt[k])
         /\ exp.mode # "mcts" => SearchEvidence(rt[j]) = SearchEvidence(rt[k])

(* A search with a node, replay or depth budget always returns a result.   *)
SearchTerminates == \A k \in Pools : <>Finished(k)

\* What a search reports of itself is true in every mode: its counters keep the
\* budgets as BudgetRespected says, the statistics of its tree count completed
\* simulations only, and an exhausted frontier means that every reachable state
\* was observed and no legal stop deserves a better rank than best_route.
SearchCorrect ==
  /\ SearchTypeOK
  /\ BudgetRespected
  /\ MctsStatistics
  /\ CoverageSound
  /\ ExhaustedBestIsBest

=============================================================================
